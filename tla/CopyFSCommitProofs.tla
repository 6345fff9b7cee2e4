------------------------- MODULE CopyFSCommitProofs -------------------------
(***************************************************************************)
(* Proofs about the commit of a callback to the version directory, for any *)
(* bounds, users and modes, and any number of callbacks that are cut off:  *)
(* the type invariant, and what a mount reads back whenever the daemon     *)
(* dies.                                                                   *)
(***************************************************************************)
EXTENDS CopyFSCommit, VersionsProofs, FiniteSetTheorems, TLAPS

(* Calls, as the helpers make them.                                        *)
ArgsOf(does) ==
  CASE does \in {"creat", "copied", "mknod", "unlink"} -> Vids
    [] does = "put_lines"                              -> Metadata
    [] does = "put_default"                            -> Pin
    [] OTHER                                           -> {None}

Calls == UNION { [does : {d}, arg : ArgsOf(d)] : d \in Does }

(* What comes directly after a call, in every callback.                    *)
Follows(c, d) ==
  \/ c.does = "creat" /\ d = Call("copied", c.arg)
  \/ c.does \in {"copied", "mknod"} /\ d.does = "open_meta"
  \/ c.does = "unlink" /\ d.does \in {"unlink", "open_meta", "unlink_meta"}
  \/ c.does = "open_meta" /\ d.does = "put_lines"
  \/ c.does = "put_lines" /\ d.does = "unlink_default"
  \/ c.does = "open_default" /\ d.does = "put_default"

Sequenced(calls) ==
  /\ calls \in Seq(Calls)
  /\ \A i \in 1 .. Len(calls) - 1 : Follows(calls[i], calls[i + 1])

Only(calls, does) == \A i \in DOMAIN calls : calls[i].does \in does

EndsIn(calls, does) == calls # <<>> /\ calls[Len(calls)].does \in does

SameList(m, r) ==
  m # None /\ r # None /\ r.versions = m.versions /\ r.deleted = m.deleted

(* The backing files that are made, copied or not, are the head's.         *)
ForHead(calls, m, k) ==
  \A i \in DOMAIN calls :
    /\ calls[i].does \in {"creat", "copied", "mknod"} =>
         calls[i].arg = Head(m.versions).rfile
    /\ calls[i].does \in {"creat", "copied"} => calls[i].arg \notin Serials(k)

(* The six things a callback does to a file: m is the metadata it leaves,  *)
(* k the metadata it found.                                                *)
Links(calls, m, k) ==
  /\ Only(calls, {"creat", "copied", "mknod", "open_meta", "put_lines", "unlink_default"})
  /\ EndsIn(calls, {"unlink_default"})
  /\ m # None /\ k # None
  /\ Tail(m.versions) = k.versions
  /\ m.dfl = Unpinned
  /\ ~ m.deleted
  /\ ForHead(calls, m, k)

Makes(calls, m, k) ==
  /\ Only(calls, {"mknod", "open_meta", "put_lines"})
  /\ EndsIn(calls, {"put_lines"})
  /\ m # None /\ k = None
  /\ Len(m.versions) = 1
  /\ m.dfl = Unpinned
  /\ ForHead(calls, m, k)

Keeps(calls, m, k) ==
  /\ Only(calls, {"unlink", "open_meta", "put_lines"})
  /\ EndsIn(calls, {"put_lines"})
  /\ m # None /\ k # None
  /\ m.dfl = k.dfl
  /\ Len(m.versions) <= Len(k.versions)
  /\ \A i \in DOMAIN m.versions : m.versions[i] = k.versions[i]

Relocks(calls, m, k) ==
  /\ Only(calls, {"open_default", "put_default", "unlink_default"})
  /\ EndsIn(calls, {"put_default", "unlink_default"})
  /\ SameList(m, k)
  /\ calls[1].does = "unlink_default" => m.dfl = Unpinned

Skips(calls, m, k) ==
  /\ Only(calls, {"mknod"})
  /\ Len(calls) = 1
  /\ m # None /\ m = k

Purges(calls, m, k) ==
  /\ Only(calls, {"unlink", "unlink_meta"})
  /\ EndsIn(calls, {"unlink_meta"})
  /\ m = None

ForFile(calls, m) ==
  \A i \in DOMAIN calls :
    /\ calls[i].does = "put_lines" => SameList(m, calls[i].arg)
    /\ calls[i].does = "put_default" => m # None /\ calls[i].arg = m.dfl

Planned(calls, m, k) ==
  /\ Sequenced(calls)
  /\ ForFile(calls, m)
  /\ \/ Links(calls, m, k) \/ Makes(calls, m, k) \/ Keeps(calls, m, k)
     \/ Relocks(calls, m, k) \/ Skips(calls, m, k) \/ Purges(calls, m, k)

Typed ==
  /\ md # None => GoodMetadata(md)
  /\ known # None => GoodMetadata(known)
  /\ meta # None => GoodFile(meta)
  /\ dfl \in Pin \cup {None, Blank}
  /\ store \in [Vids -> {None, "partial", "whole"}]
  /\ daemon \in {"up", "killed", "crashed"}
  /\ torn \in BOOLEAN
  /\ culled \in BOOLEAN
  /\ cuts \in 0 .. MaxCuts

(* The default file as it is read.                                         *)
FilePin == IF dfl \in {None, Blank} THEN Unpinned ELSE dfl

PinAgrees(m) ==
  m # None => m.dfl = FilePin \/ (m.dfl = Unpinned /\ Len(m.versions) = 1)

Agrees(m) == IF m = None THEN ReadBack = None ELSE SameList(m, ReadBack) /\ PinAgrees(m)

Doing(does) == todo # <<>> /\ Head(todo).does \in does

OnDisk ==
  /\ todo = <<>> => known = Known /\ Agrees(known)
  /\ Doing({"creat", "copied", "mknod", "unlink", "open_meta", "unlink_meta",
            "open_default"}) => Agrees(known)
  /\ Doing({"put_lines"}) => ReadBack = None /\ PinAgrees(known)
  /\ Doing({"put_default"}) => SameList(md, ReadBack) /\ dfl = Blank
  /\ Doing({"unlink_default"}) => SameList(md, ReadBack) /\ PinAgrees(known)

Whole ==
  ~ culled =>
    /\ \A i \in DOMAIN todo : todo[i].does # "unlink"
    /\ \A s \in Serials(ReadBack) : store[s] = "whole"
    /\ \A s \in Serials(md) : 
         \/ store[s] = "whole"
         \/ Doing({"creat", "copied", "mknod"}) /\ Head(todo).arg = s

Gone ==
  Doing({"unlink", "open_meta", "unlink_meta"}) =>
    \A s \in Serials(ReadBack) \ Serials(md) :
      \/ store[s] = None
      \/ \E i \in DOMAIN todo : todo[i] = Call("unlink", s)

Loose == { s \in Vids : /\ s \notin Serials(md)
                        /\ \/ store[s] # None /\ s \notin Serials(ReadBack)
                           \/ Doing({"mknod"}) /\ Head(todo).arg = s }

IInv ==
  /\ Typed
  /\ todo # <<>> => Planned(todo, md, known)
  /\ todo \in Seq(Calls)
  /\ OnDisk
  /\ Whole
  /\ Gone
  /\ ~ torn => Cardinality(Loose) <= cuts

-----------------------------------------------------------------------------
(* Lists of calls.                                                         *)

(* A list and its indices.                                                 *)
LEMMA SeqFacts ==
  ASSUME NEW S, NEW q \in Seq(S)
  PROVE  /\ DOMAIN q = 1 .. Len(q) /\ Len(q) \in Nat
         /\ \A i \in DOMAIN q : q[i] \in S
         /\ q # <<>> => 1 \in DOMAIN q /\ Len(q) \in DOMAIN q /\ Len(q) \in Nat \ {0}
  OBVIOUS

(* What is left of a list of calls after the first one.                    *)
LEMMA TailFacts ==
  ASSUME NEW calls \in Seq(Calls), calls # <<>>
  PROVE  /\ Head(calls) = calls[1] /\ 1 \in DOMAIN calls
         /\ Tail(calls) \in Seq(Calls)
         /\ Len(calls) \in Nat \ {0}
         /\ Len(Tail(calls)) = Len(calls) - 1
         /\ DOMAIN calls = 1 .. Len(calls)
         /\ DOMAIN Tail(calls) = 1 .. Len(calls) - 1
         /\ \A i \in DOMAIN Tail(calls) :
              i + 1 \in DOMAIN calls /\ Tail(calls)[i] = calls[i + 1]
  OBVIOUS

(* A call is a pair.                                                       *)
LEMMA CallFacts ==
  ASSUME NEW c \in Calls
  PROVE  c.does \in Does /\ c.arg \in ArgsOf(c.does) /\ c = Call(c.does, c.arg)
<1>1. PICK d \in Does : c \in [does : {d}, arg : ArgsOf(d)]
  BY DEF Calls
<1> QED
  BY <1>1 DEF Call

(* And conversely.                                                         *)
LEMMA CallType ==
  ASSUME NEW d \in Does, NEW x \in ArgsOf(d)
  PROVE  Call(d, x) \in Calls /\ Call(d, x).does = d /\ Call(d, x).arg = x
<1>1. Call(d, x) \in [does : {d}, arg : ArgsOf(d)]
  BY DEF Call
<1> QED
  BY <1>1 DEF Call, Calls

(* A plan stays one while its calls are made.                              *)
LEMMA PlannedTail ==
  ASSUME NEW m, NEW k, NEW calls, Planned(calls, m, k), Tail(calls) # <<>>, calls # <<>>
  PROVE  Planned(Tail(calls), m, k)
<1> DEFINE rest == Tail(calls)
<1>1. calls \in Seq(Calls)
  BY DEF Planned, Sequenced
<1>2. /\ rest \in Seq(Calls)
      /\ Len(calls) \in Nat \ {0}
      /\ Len(rest) = Len(calls) - 1
      /\ DOMAIN calls = 1 .. Len(calls)
      /\ DOMAIN rest = 1 .. Len(calls) - 1
      /\ \A i \in DOMAIN rest : i + 1 \in DOMAIN calls /\ rest[i] = calls[i + 1]
  BY <1>1, TailFacts
<1>3. Len(rest) # 0 /\ rest[Len(rest)] = calls[Len(calls)]
  <2>1. Len(rest) # 0
    BY <1>2
  <2>2. Len(rest) \in DOMAIN rest /\ Len(rest) + 1 = Len(calls)
    BY <1>2, <2>1
  <2> QED
    BY <1>2, <2>1, <2>2
<1> HIDE DEF rest
<1>4. Sequenced(rest)
  <2> SUFFICES ASSUME NEW i \in 1 .. Len(rest) - 1
               PROVE  Follows(rest[i], rest[i + 1])
    BY <1>2 DEF Sequenced
  <2>1. /\ i \in DOMAIN rest /\ i + 1 \in DOMAIN rest
        /\ i + 1 \in 1 .. Len(calls) - 1
    BY <1>2
  <2>2. Follows(calls[i + 1], calls[i + 1 + 1])
    BY <2>1 DEF Planned, Sequenced
  <2> QED
    BY <1>2, <2>1, <2>2
<1>5. ForFile(rest, m)
  BY <1>2 DEF Planned, ForFile
<1>6. \A does : Only(calls, does) => Only(rest, does)
  BY <1>2 DEF Only
<1>7. \A does : EndsIn(calls, does) => EndsIn(rest, does)
  BY <1>2, <1>3 DEF EndsIn, rest
<1>8. ForHead(calls, m, k) => ForHead(rest, m, k)
  BY <1>2 DEF ForHead
<1>9. CASE Links(calls, m, k)
  BY <1>4, <1>5, <1>6, <1>7, <1>8, <1>9 DEF Links, Planned, rest
<1>10. CASE Makes(calls, m, k)
  BY <1>4, <1>5, <1>6, <1>7, <1>8, <1>10 DEF Makes, Planned, rest
<1>11. CASE Keeps(calls, m, k)
  BY <1>4, <1>5, <1>6, <1>7, <1>11 DEF Keeps, Planned, rest
<1>12. CASE Relocks(calls, m, k)
  <2>1. rest[1].does # "unlink_default"
    <3>1. 1 \in DOMAIN rest /\ 1 \in 1 .. Len(calls) - 1 /\ 1 \in DOMAIN calls
      BY <1>2, <1>3
    <3>2. Follows(calls[1], calls[1 + 1]) /\ rest[1] = calls[1 + 1]
      BY <1>2, <3>1 DEF Planned, Sequenced
    <3>3. calls[1].does \in {"open_default", "put_default", "unlink_default"}
      BY <1>12, <3>1 DEF Relocks, Only
    <3> QED
      BY <3>2, <3>3 DEF Follows
  <2> QED
    BY <1>4, <1>5, <1>6, <1>7, <1>12, <2>1 DEF Relocks, Planned, rest
<1>13. CASE Skips(calls, m, k)
  BY <1>2, <1>3, <1>13 DEF Skips
<1>14. CASE Purges(calls, m, k)
  BY <1>4, <1>5, <1>6, <1>7, <1>14 DEF Purges, Planned, rest
<1> QED
  BY <1>9, <1>10, <1>11, <1>12, <1>13, <1>14 DEF Planned

-----------------------------------------------------------------------------
(* What a mount reads back of the files mf and d.                          *)
Read(mf, d) == Parsed(mf, IF d = Blank THEN None ELSE d)
PinIn(d) == IF d \in {None, Blank} THEN Unpinned ELSE d

LEMMA ReadBackIs ==
  /\ ReadBack = Read(meta, dfl) /\ ReadBack' = Read(meta', dfl')
  /\ FilePin = PinIn(dfl) /\ FilePin' = PinIn(dfl')
  BY DEF ReadBack, Read, FilePin, PinIn

(* It is good metadata, with the lines of the one and the pin of the other. *)
LEMMA ReadFacts ==
  ASSUME NEW mf, mf # None => GoodFile(mf), NEW d \in Pin \cup {None, Blank},
         NEW r, r = Read(mf, d)
  PROVE  /\ PinIn(d) \in Pin
         /\ r = None <=> (mf = None \/ mf.lines = <<>>)
         /\ r # None =>
              /\ GoodMetadata(r) /\ r.dfl = PinIn(d)
              /\ r.versions = Reverse(mf.lines) /\ r.deleted = mf.killed
<1>1. PICK pin : pin = IF d = Blank THEN None ELSE d
  OBVIOUS
<1>2. pin \in Pin \cup {None} /\ PinIn(d) = IF pin = None THEN Unpinned ELSE pin
  BY <1>1, NoneAssumption, CommitAssumption DEF PinIn
<1>3. r = Parsed(mf, pin)
  BY <1>1 DEF Read
<1>4. PinIn(d) \in Pin
  BY <1>2 DEF Unpinned, Pin
<1>5. r # None => GoodMetadata(r)
  BY <1>2, <1>3, ParsedGood
<1>6. mf # None /\ mf.lines # <<>> =>
        r = [versions |-> Reverse(mf.lines), deleted |-> mf.killed,
             dfl |-> PinIn(d), recent |-> FALSE]
  <2>1. PinIn(d) = IF pin \in Pin THEN pin ELSE Unpinned
    BY <1>2, NoneAssumption
  <2>2. PICK p : p = PinIn(d)
    OBVIOUS
  <2> QED
    BY <2>1, <2>2, <1>3 DEF Parsed
<1>7. mf = None \/ mf.lines = <<>> => r = None
  BY <1>3 DEF Parsed
<1>8. mf # None /\ mf.lines # <<>> =>
        /\ r.versions = Reverse(mf.lines) /\ r.deleted = mf.killed /\ r.dfl = PinIn(d)
  BY <1>6
<1>9. mf # None /\ mf.lines # <<>> => r # None
  <2> SUFFICES ASSUME mf # None, mf.lines # <<>> PROVE r # None
    OBVIOUS
  <2>1. mf.lines \in Seq(Version) /\ mf.killed \in BOOLEAN
    BY DEF GoodFile, MetaFile
  <2>2. Reverse(mf.lines) \in Seq(Version)
    BY <2>1, ReverseFacts
  <2>3. PICK vs \in Seq(Version), b \in BOOLEAN, p \in Pin :
          r = [versions |-> vs, deleted |-> b, dfl |-> p, recent |-> FALSE]
    BY <1>4, <1>6, <2>1, <2>2
  <2>4. r \in Metadata
    BY ONLY <2>3 DEF Metadata
  <2> QED
    BY <2>4, NoneAssumption
<1> QED
  BY <1>4, <1>5, <1>7, <1>8, <1>9

(* The lines of m are read back as the list of m.                          *)
LEMMA ImageRead ==
  ASSUME NEW m, GoodMetadata(m), NEW d \in Pin \cup {None, Blank},
         NEW r, r = Read(Image(m), d)
  PROVE  SameList(m, r)
<1>1. m.versions \in Seq(Version) /\ m.versions # <<>> /\ m # None
  BY NoneAssumption DEF GoodMetadata, GoodList
<1>2. Reverse(m.versions) \in Seq(Version) /\ Len(Reverse(m.versions)) = Len(m.versions)
  BY <1>1, ReverseFacts
<1>3. Reverse(m.versions) # <<>>
  BY <1>1, <1>2
<1>4. Reverse(Reverse(m.versions)) = m.versions
  BY <1>1, ReverseTwice
<1>5. /\ GoodFile(Image(m)) /\ Image(m).lines = Reverse(m.versions)
      /\ Image(m).killed = m.deleted
  BY ImageGood DEF Image
<1>6. Image(m) # None
  BY <1>5, NoneAssumption DEF GoodFile
<1> QED
  BY <1>1, <1>3, <1>4, <1>5, <1>6, ReadFacts DEF SameList

(* And an emptied metadata file as no metadata.                            *)
LEMMA EmptyRead ==
  ASSUME NEW mf, mf = [lines |-> <<>>, killed |-> FALSE], NEW d
  PROVE  GoodFile(mf) /\ Read(mf, d) = None
<1>1. <<>> \in Seq(Version)
  OBVIOUS
<1>2. Reverse(<<>>) = <<>>
  <2>1. Reverse(<<>>) \in Seq(Version) /\ Len(Reverse(<<>>)) = Len(<<>>)
    BY <1>1, ReverseFacts
  <2>2. Len(<<>>) = 0
    OBVIOUS
  <2> QED
    BY <2>1, <2>2
<1>3. GoodList(<<>>)
  <2>1. DOMAIN <<>> = {}
    OBVIOUS
  <2> QED
    BY <1>1, <2>1 DEF GoodList, Descending, SerialsBounded, Sharing
<1>4. mf \in MetaFile /\ mf.lines = <<>>
  BY <1>1 DEF MetaFile
<1> QED
  BY <1>2, <1>3, <1>4 DEF GoodFile, Read, Parsed

(* The list that is read back is that of the metadata file, whatever the   *)
(* default file holds.                                                     *)
LEMMA DefaultApart ==
  ASSUME NEW mf, mf # None => GoodFile(mf),
         NEW d \in Pin \cup {None, Blank}, NEW e \in Pin \cup {None, Blank},
         NEW r, r = Read(mf, d), NEW q, q = Read(mf, e)
  PROVE  /\ r = None <=> q = None
         /\ r # None => r.versions = q.versions /\ r.deleted = q.deleted
         /\ Listed(r) = Listed(q)
         /\ Serials(r) = Serials(q)
         /\ \A m : SameList(m, r) => SameList(m, q)
<1>1. r = None <=> q = None
  BY ReadFacts
<1>2. r # None => r.versions = q.versions /\ r.deleted = q.deleted
  BY <1>1, ReadFacts
<1>3. Listed(r) = Listed(q)
  BY <1>1, <1>2 DEF Listed
<1>4. Serials(r) = Serials(q)
  BY <1>3 DEF Serials
<1> QED
  BY <1>1, <1>2, <1>3, <1>4 DEF SameList

(* Metadata that agrees with the files lists the versions they list.       *)
LEMMA SameListFacts ==
  ASSUME NEW m, NEW r, SameList(m, r)
  PROVE  Listed(m) = Listed(r) /\ Serials(m) = Serials(r)
  BY DEF SameList, Listed, Serials

LEMMA AgreesFacts ==
  ASSUME NEW m, Agrees(m)
  PROVE  Listed(m) = Listed(ReadBack) /\ Serials(m) = Serials(ReadBack)
  BY SameListFacts DEF Agrees

LEMMA NothingListed == Listed(None) = <<>> /\ Serials(None) = {}
<1>1. Listed(None) = <<>>
  BY DEF Listed
<1>2. Serials(None) = { <<>>[i].rfile : i \in DOMAIN <<>> }
  BY <1>1 DEF Serials
<1> QED
  BY <1>1, <1>2

(* What a callback finds.                                                  *)
LEMMA ReadyFacts ==
  ASSUME IInv, todo = <<>>
  PROVE  /\ known = Known
         /\ Agrees(Known)
         /\ Known # None => GoodMetadata(Known)
         /\ Serials(Known) = Serials(ReadBack)
         /\ md # None => md = Known
         /\ ~ culled => \A s \in Serials(Known) : store[s] = "whole"
<1>1. known = Known /\ Agrees(Known)
  BY DEF IInv, OnDisk
<1>2. Known # None => GoodMetadata(Known)
  BY <1>1 DEF IInv, Typed
<1>3. Serials(Known) = Serials(ReadBack)
  BY <1>1, AgreesFacts
<1> QED
  BY <1>1, <1>2, <1>3 DEF IInv, Whole, Known

(* The serials of a list with a new head.                                  *)
LEMMA SerialsFacts ==
  ASSUME NEW m, GoodMetadata(m)
  PROVE  /\ Serials(m) \subseteq Vids
         /\ Head(m.versions).rfile \in Serials(m)
         /\ \A s \in Serials(m) : s <= Head(m.versions).vid
         /\ m # None /\ Listed(m) = m.versions
<1>1. m # None /\ Listed(m) = m.versions
  BY NoneAssumption DEF GoodMetadata, Listed
<1>2. \A s \in Serials(m) : \E i \in DOMAIN m.versions : s = m.versions[i].rfile
  BY <1>1 DEF Serials
<1>3. 1 \in DOMAIN m.versions
  BY DEF GoodMetadata, GoodList
<1>4. Head(m.versions).rfile \in Serials(m)
  BY <1>1, <1>3, HeadFacts DEF Serials
<1> QED
  BY <1>1, <1>2, <1>4, HeadFacts DEF Version

LEMMA LinkedSerials ==
  ASSUME NEW m, GoodMetadata(m), NEW v \in Version, NEW n,
         n.versions = <<v>> \o m.versions, n # None
  PROVE  Serials(n) = Serials(m) \cup {v.rfile}
<1> DEFINE new == <<v>> \o m.versions
<1>1. m.versions \in Seq(Version)
  BY DEF GoodMetadata, GoodList
<1>2. /\ Len(new) = Len(m.versions) + 1 /\ Len(m.versions) \in Nat
      /\ DOMAIN new = 1 .. Len(m.versions) + 1 /\ DOMAIN m.versions = 1 .. Len(m.versions)
      /\ new[1] = v
      /\ \A i \in DOMAIN m.versions : i + 1 \in DOMAIN new /\ new[i + 1] = m.versions[i]
      /\ \A i \in DOMAIN new : i = 1 \/ (i - 1 \in DOMAIN m.versions /\ new[i] = m.versions[i - 1])
  BY <1>1
<1>3. Serials(n) = { new[i].rfile : i \in DOMAIN new }
  BY DEF Serials, Listed
<1>4. Serials(m) = { m.versions[i].rfile : i \in DOMAIN m.versions }
  BY SerialsFacts DEF Serials
<1> HIDE DEF new
<1>5. ASSUME NEW s \in Serials(n)
      PROVE  s \in Serials(m) \cup {v.rfile}
  <2>1. PICK i \in DOMAIN new : s = new[i].rfile
    BY <1>3
  <2>2. CASE i = 1
    BY <1>2, <2>1, <2>2
  <2>3. CASE i # 1
    <3>1. i - 1 \in DOMAIN m.versions /\ new[i] = m.versions[i - 1]
      BY <1>2, <2>1, <2>3
    <3> QED
      BY <1>4, <2>1, <3>1
  <2> QED
    BY <2>2, <2>3
<1>6. ASSUME NEW s \in Serials(m)
      PROVE  s \in Serials(n)
  <2>1. PICK i \in DOMAIN m.versions : s = m.versions[i].rfile
    BY <1>4
  <2> QED
    BY <1>2, <1>3, <2>1
<1>7. v.rfile \in Serials(n)
  <2>1. 1 \in DOMAIN new
    BY <1>2
  <2> QED
    BY <1>2, <1>3, <2>1
<1> QED
  BY <1>5, <1>6, <1>7

-----------------------------------------------------------------------------
(* Stray files.                                                            *)

LEMMA SerialsFinite ==
  ASSUME NEW B \in SUBSET Vids
  PROVE  IsFiniteSet(B) /\ Cardinality(B) \in Nat
<1>1. 1 \in Int /\ MaxVid \in Int
  BY BoundsAssumption
<1>2. IsFiniteSet(1 .. MaxVid)
  BY <1>1, FS_Interval
<1>3. IsFiniteSet(B)
  BY <1>2, FS_Subset DEF Vids
<1> QED
  BY <1>3, FS_CardinalityType

(* Of a set that does not grow, and of one that grows by one element.      *)
LEMMA CardinalitySub ==
  ASSUME NEW B \in SUBSET Vids, NEW A \in SUBSET B, NEW n \in Nat, Cardinality(B) <= n
  PROVE  Cardinality(A) <= n
<1>1. A \in SUBSET Vids
  OBVIOUS
<1>2. Cardinality(A) \in Nat /\ Cardinality(B) \in Nat /\ Cardinality(A) <= Cardinality(B)
  BY <1>1, SerialsFinite, FS_Subset
<1> QED
  BY <1>2

LEMMA CardinalityAdd ==
  ASSUME NEW B \in SUBSET Vids, NEW x \in Vids, NEW A \in SUBSET (B \cup {x}),
         NEW n \in Nat, Cardinality(B) <= n
  PROVE  Cardinality(A) <= n + 1
<1>1. /\ B \cup {x} \in SUBSET Vids /\ A \in SUBSET Vids
      /\ IsFiniteSet(B) /\ Cardinality(B) \in Nat
  BY SerialsFinite
<1>2. Cardinality(B \cup {x}) <= Cardinality(B) + 1
  BY <1>1, FS_AddElement
<1>3. Cardinality(A) <= Cardinality(B \cup {x})
      /\ Cardinality(A) \in Nat /\ Cardinality(B \cup {x}) \in Nat
  BY <1>1, SerialsFinite, FS_Subset
<1> QED
  BY <1>1, <1>2, <1>3

-----------------------------------------------------------------------------
(* A callback begins.                                                      *)

(* What the calls of a callback and the metadata m it leaves in memory     *)
(* have to do with the metadata it found.                                  *)
Starts(calls, m) ==
  /\ calls # <<>>
  /\ Planned(calls, m, Known)
  /\ calls[1].does \notin {"put_lines", "put_default"}
  /\ calls[1].does = "unlink_default" => SameList(m, Known)
  /\ \A s \in Serials(m) :
       \/ s \in Serials(Known)
       \/ calls[1].does \in {"creat", "copied", "mknod"} /\ calls[1].arg = s
  /\ \A s \in Serials(Known) \ Serials(m) :
       \E i \in DOMAIN calls : calls[i] = Call("unlink", s)

LEMMA RunInv ==
  ASSUME IInv, todo = <<>>, NEW calls, NEW m, Starts(calls, m), Run(calls, m),
         m # None => GoodMetadata(m),
         cuts' \in {cuts, cuts + 1}, cuts' <= MaxCuts,
         calls[1].does = "mknod" => calls[1].arg \in Serials(m) \/ cuts' = cuts + 1,
         culled' \in BOOLEAN,
         ~ culled' => ~ culled /\ \A i \in DOMAIN calls : calls[i].does # "unlink"
  PROVE  IInv'
<1>1. /\ todo' = calls /\ md' = m /\ known' = known /\ meta' = meta /\ dfl' = dfl
      /\ store' = store /\ daemon' = daemon /\ torn' = torn
  BY DEF Run, disk
<1>2. ReadBack' = ReadBack /\ FilePin' = FilePin
  BY <1>1 DEF ReadBack, FilePin
<1>3. /\ known = Known /\ Agrees(known) /\ Agrees(Known)
      /\ Serials(Known) = Serials(ReadBack)
      /\ md # None => md = Known
      /\ ~ culled => \A s \in Serials(Known) : store[s] = "whole"
  BY ReadyFacts
<1>4. /\ calls \in Seq(Calls) /\ calls # <<>>
      /\ Head(calls) = calls[1]
  <2>1. calls \in Seq(Calls) /\ calls # <<>>
    BY DEF Starts, Planned, Sequenced
  <2> QED
    BY <2>1, TailFacts
<1>5. Typed'
  <2>1. cuts \in Nat /\ cuts' \in 0 .. MaxCuts
    BY CommitAssumption DEF IInv, Typed
  <2> QED
    BY <1>1, <2>1 DEF IInv, Typed
<1>6. Planned(todo, md, known)'
  BY <1>1, <1>3 DEF Starts
<1>7. Agrees(known)' /\ PinAgrees(known)'
  <2>1. Agrees(known)' /\ (known # None => PinAgrees(known))
    BY <1>1, <1>2, <1>3 DEF Agrees, PinAgrees
  <2> QED
    BY <1>1, <1>2, <2>1 DEF PinAgrees
<1>8. OnDisk'
  <2>1. calls[1].does = "unlink_default" => SameList(m, ReadBack)
    BY <1>3 DEF Starts, Agrees, SameList
  <2> QED
    BY <1>1, <1>2, <1>4, <1>7, <2>1 DEF OnDisk, Doing, Starts
<1>9. Whole'
  BY <1>1, <1>2, <1>3, <1>4 DEF Whole, Doing, Starts
<1>10. Gone'
  BY <1>1, <1>2, <1>3, <1>4 DEF Gone, Doing, Starts
<1>11. (~ torn => Cardinality(Loose) <= cuts)'
  <2> SUFFICES ASSUME ~ torn PROVE Cardinality(Loose') <= cuts'
    BY <1>1
  <2>1. Cardinality(Loose) <= cuts /\ cuts \in Nat /\ Loose \in SUBSET Vids
    BY CommitAssumption DEF IInv, Typed, Loose
  <2>2. Loose' \in SUBSET Vids
        /\ \A s \in Loose' : \/ s \in Loose
                             \/ /\ calls[1].does = "mknod"
                                /\ s = calls[1].arg /\ s \notin Serials(m)
    <3> SUFFICES ASSUME NEW s \in Loose'
                 PROVE  s \in Vids
                        /\ \/ s \in Loose
                           \/ /\ calls[1].does = "mknod"
                              /\ s = calls[1].arg /\ s \notin Serials(m)
      OBVIOUS
    <3>1. /\ s \in Vids /\ s \notin Serials(m)
          /\ \/ store[s] # None /\ s \notin Serials(ReadBack)
             \/ calls[1].does = "mknod" /\ calls[1].arg = s
      BY <1>1, <1>2, <1>4 DEF Loose, Doing
    <3>2. s \notin Serials(ReadBack) => s \notin Serials(md)
      <4>1. CASE md = None
        BY <4>1, NothingListed
      <4>2. CASE md # None
        BY <1>3, <4>2
      <4> QED
        BY <4>1, <4>2
    <3> QED
      BY <3>1, <3>2 DEF Loose
  <2>3. CASE calls[1].does = "mknod" /\ calls[1].arg \notin Serials(m) /\ calls[1].arg \in Vids
    <3>1. Loose' \in SUBSET (Loose \cup {calls[1].arg}) /\ cuts' = cuts + 1
      BY <2>2, <2>3
    <3> QED
      BY <2>1, <2>3, <3>1, CardinalityAdd
  <2>4. CASE ~ (calls[1].does = "mknod" /\ calls[1].arg \notin Serials(m) /\ calls[1].arg \in Vids)
    <3>1. Loose' \in SUBSET Loose
      BY <2>2, <2>4
    <3>2. Cardinality(Loose') <= cuts
      BY <2>1, <3>1, CardinalitySub
    <3>3. Loose' \in SUBSET Vids /\ Cardinality(Loose') \in Nat
      BY <2>2, SerialsFinite
    <3> QED
      BY <2>1, <3>2, <3>3
  <2> QED
    BY <2>3, <2>4
<1> QED
  BY <1>1, <1>4, <1>5, <1>6, <1>8, <1>9, <1>10, <1>11 DEF IInv

(* The same when the counters stand still.                                 *)
LEMMA QuietRunInv ==
  ASSUME IInv, todo = <<>>, NEW calls, NEW m, Starts(calls, m), Run(calls, m),
         m # None => GoodMetadata(m),
         UNCHANGED <<culled, cuts>>,
         calls[1].does = "mknod" => calls[1].arg \in Serials(m),
         ~ culled => \A i \in DOMAIN calls : calls[i].does # "unlink"
  PROVE  IInv'
<1>1. cuts \in 0 .. MaxCuts /\ MaxCuts \in Nat
  BY CommitAssumption DEF IInv, Typed
<1>2. cuts' \in {cuts, cuts + 1}
  OBVIOUS
<1>3. cuts' <= MaxCuts
  BY <1>1
<1>4. calls[1].does = "mknod" => calls[1].arg \in Serials(m) \/ cuts' = cuts + 1
  OBVIOUS
<1>5. culled' \in BOOLEAN
  BY DEF IInv, Typed
<1>6. ~ culled' => ~ culled /\ \A i \in DOMAIN calls : calls[i].does # "unlink"
  OBVIOUS
<1> HIDE DEF IInv
<1> QED
  BY ONLY <1>2, <1>3, <1>4, <1>5, <1>6, RunInv, IInv, todo = <<>>, Starts(calls, m),
     Run(calls, m), m # None => GoodMetadata(m)

-----------------------------------------------------------------------------
(* The calls of each callback are a plan.                                  *)

LEMMA CallTypes ==
  /\ \A d \in Does : d \in {"creat", "copied", "mknod", "unlink"} =>
       \A s \in Vids : Call(d, s) \in Calls
  /\ \A m \in Metadata : Call("put_lines", m) \in Calls
  /\ \A pin \in Pin : Call("put_default", pin) \in Calls
  /\ \A d \in {"open_meta", "unlink_meta", "open_default", "unlink_default"} :
       Call(d, None) \in Calls
  BY CallType DEF ArgsOf, Does

(* A list of calls of these kinds, of which those that make backing files  *)
(* make s, and those that rewrite the metadata file write n.               *)
CallOf(c, does, s, n) ==
  /\ c.does \in does
  /\ c.does \in {"creat", "copied", "mknod"} => c.arg = s
  /\ c.does = "put_lines" => c.arg = n

ListOf(calls, does, s, n) ==
  /\ Sequenced(calls)
  /\ calls # <<>>
  /\ \A i \in DOMAIN calls : CallOf(calls[i], does, s, n)

(* Lists of one call and of two, and one list after another.               *)
LEMMA OneCall ==
  ASSUME NEW c \in Calls, NEW does, NEW s, NEW n, CallOf(c, does, s, n),
         NEW calls, calls = <<c>>
  PROVE  /\ ListOf(calls, does, s, n) /\ Len(calls) = 1
         /\ calls[1] = c /\ calls[Len(calls)] = c
         /\ \A i \in DOMAIN calls : calls[i] = c
<1>1. /\ calls \in Seq(Calls) /\ DOMAIN calls = 1 .. 1 /\ Len(calls) = 1
      /\ calls[1] = c
  BY ONLY c \in Calls, calls = <<c>>
<1>2. calls # <<>> /\ \A i \in DOMAIN calls : i = 1
  BY <1>1
<1>3. Sequenced(calls)
  BY <1>1 DEF Sequenced
<1>4. \A i \in DOMAIN calls : CallOf(calls[i], does, s, n)
  BY <1>1, <1>2
<1>5. calls[Len(calls)] = c
  BY <1>1
<1> QED
  BY <1>1, <1>2, <1>3, <1>4, <1>5 DEF ListOf

LEMMA TwoCalls ==
  ASSUME NEW c \in Calls, NEW d \in Calls, Follows(c, d),
         NEW does, NEW s, NEW n, CallOf(c, does, s, n), CallOf(d, does, s, n),
         NEW calls, calls = <<c, d>>
  PROVE  /\ ListOf(calls, does, s, n)
         /\ calls[1] = c /\ calls[Len(calls)] = d
         /\ \A i \in DOMAIN calls : calls[i] \in {c, d}
<1>1. /\ calls \in Seq(Calls) /\ DOMAIN calls = 1 .. 2 /\ Len(calls) = 2
      /\ calls[1] = c /\ calls[2] = d
  BY ONLY c \in Calls, d \in Calls, calls = <<c, d>>
<1>2. calls # <<>> /\ \A i \in DOMAIN calls : i = 1 \/ i = 2
  <2>1. 1 \in DOMAIN calls
    BY <1>1
  <2>2. ASSUME NEW i \in DOMAIN calls PROVE i = 1 \/ i = 2
    BY <1>1
  <2> QED
    BY <2>1, <2>2
<1>3. Sequenced(calls)
  <2> SUFFICES ASSUME NEW i \in 1 .. Len(calls) - 1
               PROVE  Follows(calls[i], calls[i + 1])
    BY <1>1 DEF Sequenced
  <2>1. i = 1
    BY <1>1
  <2> QED
    BY <1>1, <2>1
<1>4. \A i \in DOMAIN calls : CallOf(calls[i], does, s, n)
  BY <1>1, <1>2
<1>5. calls[Len(calls)] = d
  BY <1>1
<1> QED
  BY <1>1, <1>2, <1>3, <1>4, <1>5 DEF ListOf

LEMMA Joined ==
  ASSUME NEW p, NEW q, NEW does, NEW s, NEW n,
         ListOf(p, does, s, n), ListOf(q, does, s, n), Follows(p[Len(p)], q[1])
  PROVE  /\ ListOf(p \o q, does, s, n)
         /\ (p \o q)[1] = p[1] /\ (p \o q)[Len(p \o q)] = q[Len(q)]
<1> DEFINE calls == p \o q
<1>1. p \in Seq(Calls) /\ q \in Seq(Calls) /\ p # <<>> /\ q # <<>>
  BY DEF ListOf, Sequenced
<1>2. /\ calls \in Seq(Calls)
      /\ Len(p) \in Nat \ {0} /\ Len(q) \in Nat \ {0}
      /\ Len(calls) = Len(p) + Len(q)
      /\ DOMAIN p = 1 .. Len(p) /\ DOMAIN q = 1 .. Len(q)
      /\ DOMAIN calls = 1 .. Len(p) + Len(q)
      /\ \A i \in 1 .. Len(p) : calls[i] = p[i]
      /\ \A i \in Len(p) + 1 .. Len(p) + Len(q) : calls[i] = q[i - Len(p)]
  BY <1>1
<1> HIDE DEF calls
<1>3. ASSUME NEW i \in DOMAIN calls
      PROVE  CallOf(calls[i], does, s, n)
  <2>1. CASE i <= Len(p)
    <3>1. i \in DOMAIN p /\ calls[i] = p[i]
      BY <1>2, <2>1
    <3> QED
      BY <3>1 DEF ListOf
  <2>2. CASE i > Len(p)
    <3>1. i - Len(p) \in DOMAIN q /\ calls[i] = q[i - Len(p)]
      BY <1>2, <2>2
    <3> QED
      BY <3>1 DEF ListOf
  <2> QED
    BY <1>2, <2>1, <2>2
<1>4. ASSUME NEW i \in 1 .. Len(calls) - 1
      PROVE  Follows(calls[i], calls[i + 1])
  <2>1. CASE i < Len(p)
    <3>1. i \in 1 .. Len(p) - 1 /\ calls[i] = p[i] /\ calls[i + 1] = p[i + 1]
      BY <1>2, <2>1
    <3> QED
      BY <3>1 DEF ListOf, Sequenced
  <2>2. CASE i = Len(p)
    <3>1. /\ i + 1 \in Len(p) + 1 .. Len(p) + Len(q)
          /\ i \in 1 .. Len(p) /\ i + 1 - Len(p) = 1
      BY <1>2, <2>2
    <3>2. calls[i] = p[i] /\ calls[i + 1] = q[i + 1 - Len(p)]
      BY <1>2, <3>1
    <3>3. calls[i] = p[Len(p)] /\ calls[i + 1] = q[1]
      BY <2>2, <3>1, <3>2
    <3> QED
      BY <3>3
  <2>3. CASE i > Len(p)
    <3>1. /\ i - Len(p) \in 1 .. Len(q) - 1
          /\ calls[i] = q[i - Len(p)] /\ calls[i + 1] = q[i + 1 - Len(p)]
          /\ i + 1 - Len(p) = i - Len(p) + 1
      BY <1>2, <2>3
    <3> QED
      BY <3>1 DEF ListOf, Sequenced
  <2>4. i < Len(p) \/ i = Len(p) \/ i > Len(p)
    <3>1. i \in Int /\ Len(p) \in Int
      OBVIOUS
    <3> QED
      BY <3>1
  <2> QED
    BY <2>1, <2>2, <2>3, <2>4
<1>5. calls[1] = p[1] /\ calls # <<>>
  BY <1>2
<1>6. calls[Len(calls)] = q[Len(q)]
  <2>1. Len(calls) \in Len(p) + 1 .. Len(p) + Len(q) /\ Len(calls) - Len(p) = Len(q)
    BY <1>2
  <2> QED
    BY <1>2, <2>1
<1>7. ListOf(calls, does, s, n)
  BY <1>2, <1>3, <1>4, <1>5 DEF ListOf, Sequenced
<1> QED
  BY <1>5, <1>6, <1>7 DEF calls

(* The lists the helpers make.                                             *)
LEMMA WriteMetaList ==
  ASSUME NEW n \in Metadata, NEW s, NEW does, {"open_meta", "put_lines"} \subseteq does
  PROVE  /\ ListOf(WriteMeta(n), does, s, n)
         /\ WriteMeta(n)[1].does = "open_meta"
         /\ WriteMeta(n)[Len(WriteMeta(n))].does = "put_lines"
<1> DEFINE c == Call("open_meta", None)
           d == Call("put_lines", n)
           p == WriteMeta(n)
<1>1. c \in Calls /\ d \in Calls /\ p = <<c, d>>
  BY CallTypes DEF WriteMeta
<1>2. c.does = "open_meta" /\ d.does = "put_lines" /\ d.arg = n
  BY DEF Call
<1> HIDE DEF c, d, p
<1>3. Follows(c, d)
  BY <1>2 DEF Follows
<1>4. CallOf(c, does, s, n) /\ CallOf(d, does, s, n)
  BY <1>2 DEF CallOf
<1>5. ListOf(p, does, s, n) /\ p[1] = c /\ p[Len(p)] = d
  BY <1>1, <1>3, <1>4, TwoCalls
<1> QED
  BY <1>2, <1>5 DEF p

LEMMA LinkCallsList ==
  ASSUME NEW n \in Metadata, NEW s, NEW does,
         {"open_meta", "put_lines", "unlink_default"} \subseteq does
  PROVE  /\ ListOf(LinkCalls(n), does, s, n)
         /\ LinkCalls(n)[1].does = "open_meta"
         /\ LinkCalls(n)[Len(LinkCalls(n))].does = "unlink_default"
<1> DEFINE c == Call("unlink_default", None)
           p == WriteMeta(n)
           q == <<c>>
<1>1. c \in Calls /\ LinkCalls(n) = p \o q
  BY CallTypes DEF LinkCalls, WriteDefault, Unpinned
<1>2. c.does = "unlink_default"
  BY DEF Call
<1>3. /\ ListOf(p, does, s, n)
      /\ p[1].does = "open_meta"
      /\ p[Len(p)].does = "put_lines"
  BY WriteMetaList
<1> HIDE DEF c, p
<1>4. CallOf(c, does, s, n)
  BY <1>2 DEF CallOf
<1>5. ListOf(q, does, s, n) /\ q[1] = c /\ q[Len(q)] = c
  BY <1>1, <1>4, OneCall
<1> HIDE DEF q
<1>6. Follows(p[Len(p)], q[1])
  BY <1>2, <1>3, <1>5 DEF Follows
<1>7. /\ ListOf(p \o q, does, s, n)
      /\ (p \o q)[1] = p[1] /\ (p \o q)[Len(p \o q)] = q[Len(q)]
  BY <1>3, <1>5, <1>6, Joined
<1> QED
  BY <1>1, <1>2, <1>3, <1>5, <1>7

LEMMA VersionCallsList ==
  ASSUME NEW n \in Metadata, NEW s \in Vids, NEW does,
         {"creat", "copied", "open_meta", "put_lines", "unlink_default"} \subseteq does
  PROVE  /\ ListOf(CopyTo(s) \o LinkCalls(n), does, s, n)
         /\ (CopyTo(s) \o LinkCalls(n))[1].does = "creat"
         /\ (CopyTo(s) \o LinkCalls(n))[Len(CopyTo(s) \o LinkCalls(n))].does =
              "unlink_default"
<1> DEFINE c == Call("creat", s)
           d == Call("copied", s)
           p == CopyTo(s)
           q == LinkCalls(n)
<1>1. c \in Calls /\ d \in Calls /\ p = <<c, d>>
  BY CallTypes DEF CopyTo, Does
<1>2. c.does = "creat" /\ d.does = "copied" /\ c.arg = s /\ d.arg = s /\ d = Call("copied", s)
  BY DEF Call
<1>3. ListOf(q, does, s, n) /\ q[1].does = "open_meta" /\ q[Len(q)].does = "unlink_default"
  BY LinkCallsList
<1> HIDE DEF c, d, p, q
<1>4. Follows(c, d)
  BY <1>2 DEF Follows
<1>5. CallOf(c, does, s, n) /\ CallOf(d, does, s, n)
  BY <1>2 DEF CallOf
<1>6. ListOf(p, does, s, n) /\ p[1] = c /\ p[Len(p)] = d
  BY <1>1, <1>4, <1>5, TwoCalls
<1>7. Follows(p[Len(p)], q[1])
  BY <1>2, <1>3, <1>6 DEF Follows
<1>8. ListOf(p \o q, does, s, n) /\ (p \o q)[1] = c /\ (p \o q)[Len(p \o q)] = q[Len(q)]
  BY <1>3, <1>6, <1>7, Joined
<1>9. (p \o q)[1].does = "creat" /\ (p \o q)[Len(p \o q)].does = "unlink_default"
  BY <1>2, <1>3, <1>8
<1> QED
  BY <1>8, <1>9 DEF p, q

(* A mknod before others that begin with the metadata file.                *)
LEMMA MknodList ==
  ASSUME NEW n, NEW s \in Vids, NEW does, "mknod" \in does,
         NEW q, ListOf(q, does, s, n), q[1].does = "open_meta"
  PROVE  /\ ListOf(<<Call("mknod", s)>> \o q, does, s, n)
         /\ (<<Call("mknod", s)>> \o q)[1].does = "mknod"
         /\ (<<Call("mknod", s)>> \o q)[Len(<<Call("mknod", s)>> \o q)] = q[Len(q)]
<1> DEFINE c == Call("mknod", s)
           p == <<c>>
<1>1. c \in Calls
  BY CallTypes DEF Does
<1>2. c.does = "mknod" /\ c.arg = s
  BY DEF Call
<1> HIDE DEF c
<1>3. CallOf(c, does, s, n)
  BY <1>2 DEF CallOf
<1>4. ListOf(p, does, s, n) /\ p[1] = c /\ p[Len(p)] = c
  BY <1>1, <1>3, OneCall
<1> HIDE DEF p
<1>5. Follows(p[Len(p)], q[1])
  BY <1>2, <1>4 DEF Follows
<1>6. ListOf(p \o q, does, s, n) /\ (p \o q)[1] = c /\ (p \o q)[Len(p \o q)] = q[Len(q)]
  BY <1>4, <1>5, Joined
<1>7. (p \o q)[1].does = "mknod"
  BY <1>2, <1>6
<1> QED
  BY <1>6, <1>7 DEF c, p

(* What a new head makes of the metadata a callback found.                 *)
LinkedTo(m, v) ==
  /\ GoodMetadata(m)
  /\ m.versions = <<v>> \o Known.versions
  /\ m.dfl = Unpinned
  /\ ~ m.deleted

LinkDoes == {"creat", "copied", "mknod", "open_meta", "put_lines", "unlink_default"}

LEMMA LinkedToFacts ==
  ASSUME GoodMetadata(Known), NEW v \in Version, NEW m, LinkedTo(m, v)
  PROVE  /\ m # None /\ Known # None
         /\ Serials(m) = Serials(Known) \cup {v.rfile}
         /\ Head(m.versions) = v /\ Tail(m.versions) = Known.versions
<1>1. m # None /\ Known # None
  BY NoneAssumption DEF LinkedTo, GoodMetadata
<1>2. Known.versions \in Seq(Version)
  BY DEF GoodMetadata, GoodList
<1>3. Head(m.versions) = v /\ Tail(m.versions) = Known.versions
  BY <1>2 DEF LinkedTo
<1>4. Serials(m) = Serials(Known) \cup {v.rfile}
  BY <1>1, LinkedSerials DEF LinkedTo
<1> QED
  BY <1>1, <1>3, <1>4

(* The calls that link v, whatever is made for it, are a plan.             *)
LEMMA LinkStarts ==
  ASSUME GoodMetadata(Known), NEW v \in Version, NEW m, LinkedTo(m, v),
         NEW n, SameList(m, n),
         NEW calls, ListOf(calls, LinkDoes, v.rfile, n),
         calls[Len(calls)].does = "unlink_default",
         calls[1].does \in {"creat", "mknod", "open_meta"},
         calls[1].does = "open_meta" => v.rfile \in Serials(Known),
         (\E i \in DOMAIN calls : calls[i].does \in {"creat", "copied"}) =>
           v.rfile \notin Serials(Known)
  PROVE  Starts(calls, m)
<1> DEFINE s == v.rfile
<1>1. /\ m # None /\ Known # None /\ Serials(m) = Serials(Known) \cup {s}
      /\ Head(m.versions).rfile = s /\ Tail(m.versions) = Known.versions
      /\ m.dfl = Unpinned /\ ~ m.deleted
  BY LinkedToFacts DEF LinkedTo
<1>2. /\ Sequenced(calls) /\ calls # <<>>
      /\ \A i \in DOMAIN calls : CallOf(calls[i], LinkDoes, s, n)
  BY DEF ListOf
<1>3. 1 \in DOMAIN calls
  BY <1>2, TailFacts DEF Sequenced
<1>4. Only(calls, LinkDoes)
  BY <1>2 DEF Only, CallOf
<1>5. ForFile(calls, m)
  <2> SUFFICES ASSUME NEW i \in DOMAIN calls
               PROVE  /\ calls[i].does = "put_lines" => SameList(m, calls[i].arg)
                      /\ calls[i].does # "put_default"
    BY DEF ForFile
  <2>1. CallOf(calls[i], LinkDoes, s, n)
    BY <1>2
  <2> QED
    BY <2>1 DEF CallOf, LinkDoes
<1>6. EndsIn(calls, {"unlink_default"})
  BY <1>2 DEF EndsIn
<1>7. ForHead(calls, m, Known)
  BY <1>1, <1>2 DEF ForHead, CallOf
<1>8. Links(calls, m, Known)
  BY <1>1, <1>4, <1>6, <1>7 DEF Links, LinkDoes
<1>9. Planned(calls, m, Known)
  BY <1>2, <1>5, <1>8 DEF Planned
<1>10. calls[1].does \in {"creat", "mknod"} => calls[1].arg = s
  BY <1>2, <1>3 DEF CallOf
<1>11. \A t \in Serials(m) :
         \/ t \in Serials(Known)
         \/ calls[1].does \in {"creat", "copied", "mknod"} /\ calls[1].arg = t
  BY <1>1, <1>10
<1> HIDE DEF s
<1> QED
  BY <1>1, <1>2, <1>9, <1>11 DEF Starts

LEMMA RecentGood ==
  ASSUME NEW m, GoodMetadata(m), NEW b \in BOOLEAN
  PROVE  /\ GoodMetadata([m EXCEPT !.recent = b])
         /\ SameList([m EXCEPT !.recent = b], m)
         /\ [m EXCEPT !.recent = b].dfl = m.dfl
         /\ [m EXCEPT !.recent = b].deleted = m.deleted
<1> DEFINE n == [m EXCEPT !.recent = b]
<1>1. /\ n.versions = m.versions /\ n.deleted = m.deleted /\ n.dfl = m.dfl
      /\ n \in Metadata
  BY DEF GoodMetadata, Metadata
<1> HIDE DEF n
<1>2. n # None /\ m # None
  BY <1>1, NoneAssumption DEF GoodMetadata
<1> QED
  BY <1>1, <1>2 DEF GoodMetadata, SameList, n

(* create_link_version makes what a new head makes.                        *)
LEMMA LinkedIsLinkedTo ==
  ASSUME GoodMetadata(Known), NEW v \in Version, Tops(v, Known.versions), NEW b \in BOOLEAN
  PROVE  /\ LinkedTo(Linked(Known, v), v)
         /\ Linked(Known, v) \in Metadata
         /\ SameList(Linked(Known, v), Linked(Known, v))
         /\ LinkedTo([Linked(Known, v) EXCEPT !.recent = b], v)
         /\ SameList([Linked(Known, v) EXCEPT !.recent = b], Linked(Known, v))
<1> DEFINE n == Linked(Known, v)
           m == [n EXCEPT !.recent = b]
<1>1. GoodMetadata(n)
  BY LinkedGood
<1>2. n.versions = <<v>> \o Known.versions /\ n.dfl = Unpinned /\ n.deleted = FALSE
  BY DEF Linked, GoodMetadata, Metadata
<1> HIDE DEF n
<1>3. GoodMetadata(m) /\ SameList(m, n) /\ m.dfl = n.dfl /\ m.deleted = n.deleted
  BY <1>1, RecentGood
<1>4. n \in Metadata /\ n # None
  BY <1>1, NoneAssumption DEF GoodMetadata
<1>5. m.versions = n.versions
  BY <1>3 DEF SameList
<1> HIDE DEF m
<1>6. LinkedTo(n, v) /\ LinkedTo(m, v)
  BY <1>1, <1>2, <1>3, <1>5 DEF LinkedTo
<1> QED
  BY <1>3, <1>4, <1>6 DEF SameList, n, m

(* callback_open and callback_truncate.                                    *)
LEMMA OpenOrTruncateInv ==
  ASSUME IInv, NEW cut \in BOOLEAN, OpenOrTruncate(cut)
  PROVE  IInv'
<1> DEFINE v == NextVersion(Known, Current(Known).uid)
           n == Linked(Known, v)
           m == [n EXCEPT !.recent = cut]
           calls == CopyTo(v.rfile) \o LinkCalls(n)
<1>1. /\ todo = <<>> /\ Known # None /\ Fits(v) /\ Run(calls, m)
      /\ UNCHANGED <<culled, cuts>>
  BY DEF OpenOrTruncate, MayChange, Ready, VersionCalls
<1>2. GoodMetadata(Known)
  BY <1>1, ReadyFacts
<1>3. Current(Known).uid \in Users
  BY <1>2, CurrentFacts DEF Version
<1>4. /\ v \in Version /\ v.rfile = Head(Known.versions).vid + 1
      /\ Tops(v, Known.versions)
  <2>1. v.vid <= MaxVid
    BY <1>1 DEF Fits
  <2> QED
    BY <1>2, <1>3, <2>1, NextVersionGood
<1>5. v.rfile \in Vids /\ v.rfile \notin Serials(Known)
  <2>1. v.rfile \in Vids /\ Head(Known.versions).vid \in Nat
    BY <1>2, <1>4, CurrentFacts, BoundsAssumption DEF Version, Vids
  <2>2. \A s \in Serials(Known) : s \in Nat /\ s <= Head(Known.versions).vid
    BY <1>2, SerialsFacts, BoundsAssumption DEF Vids
  <2> QED
    BY <1>4, <2>1, <2>2
<1> HIDE DEF v
<1>6. LinkedTo(m, v) /\ n \in Metadata /\ SameList(m, n)
  BY <1>2, <1>4, LinkedIsLinkedTo
<1> HIDE DEF n, m
<1>7. /\ ListOf(calls, LinkDoes, v.rfile, n)
      /\ calls[1].does = "creat"
      /\ calls[Len(calls)].does = "unlink_default"
  BY <1>5, <1>6, VersionCallsList DEF LinkDoes
<1> HIDE DEF calls
<1>8. Starts(calls, m)
  BY <1>2, <1>4, <1>5, <1>6, <1>7, LinkStarts
<1>9. \A i \in DOMAIN calls : calls[i].does # "unlink"
  BY <1>7 DEF ListOf, CallOf, LinkDoes
<1>10. GoodMetadata(m)
  BY <1>6 DEF LinkedTo
<1> QED
  BY <1>1, <1>7, <1>8, <1>9, <1>10, QuietRunInv

(* callback_chmod and callback_chown.                                      *)
LEMMA ChmodInv ==
  ASSUME IInv, NEW mode \in Modes, NEW uid \in Users, Chmod(mode, uid)
  PROVE  IInv'
<1> DEFINE v == NextSubversion(Known, mode, uid)
           n == Linked(Known, v)
           calls == LinkCalls(n)
<1>1. /\ todo = <<>> /\ Known # None /\ Fits(v) /\ Run(calls, n)
      /\ UNCHANGED <<culled, cuts>>
  BY DEF Chmod, MayChange, Ready
<1>2. GoodMetadata(Known)
  BY <1>1, ReadyFacts
<1>3. v \in Version /\ Tops(v, Known.versions) /\ v.rfile = Current(Known).rfile
  <2>1. v.vid <= MaxVid /\ v.svid <= MaxSvid
    BY <1>1 DEF Fits
  <2>2. v.rfile = Current(Known).rfile
    BY DEF NextSubversion
  <2> QED
    BY <1>2, <2>1, <2>2, NextSubversionGood
<1>4. v.rfile \in Serials(Known)
  <2>1. PICK i \in DOMAIN Known.versions : Current(Known) = Known.versions[i]
    BY <1>2, CurrentListed
  <2> QED
    BY <1>1, <1>3, <2>1 DEF Serials, Listed
<1> HIDE DEF v
<1>5. LinkedTo(n, v) /\ n \in Metadata /\ SameList(n, n)
  BY <1>2, <1>3, LinkedIsLinkedTo
<1> HIDE DEF n
<1>6. /\ ListOf(calls, LinkDoes \ {"creat", "copied", "mknod"}, v.rfile, n)
      /\ calls[1].does = "open_meta"
      /\ calls[Len(calls)].does = "unlink_default"
  BY <1>5, LinkCallsList DEF LinkDoes
<1> HIDE DEF calls
<1>7. /\ ListOf(calls, LinkDoes, v.rfile, n)
      /\ \A i \in DOMAIN calls : calls[i].does \notin {"creat", "copied", "unlink"}
  BY <1>6 DEF ListOf, CallOf, LinkDoes
<1>8. Starts(calls, n)
  BY <1>2, <1>3, <1>4, <1>5, <1>6, <1>7, LinkStarts
<1>9. GoodMetadata(n)
  BY <1>5 DEF LinkedTo
<1>10. \A i \in DOMAIN calls : calls[i].does # "unlink"
  BY <1>7
<1> QED
  BY <1>1, <1>6, <1>8, <1>9, <1>10, QuietRunInv

(* The only version of a file that is new.                                 *)
LEMMA FirstGood ==
  ASSUME NEW mode \in Modes, NEW uid \in Users, NEW m,
         m = [versions |-> <<FirstVersion(mode, uid)>>, deleted |-> FALSE,
              dfl |-> Unpinned, recent |-> TRUE]
  PROVE  /\ GoodMetadata(m) /\ Len(m.versions) = 1 /\ m.dfl = Unpinned
         /\ Head(m.versions).rfile = 1
         /\ Serials(m) = {1}
<1> DEFINE v == FirstVersion(mode, uid)
           vs == <<v>>
<1>1. v \in Version /\ v.rfile = 1 /\ v.vid = 1
  BY BoundsAssumption DEF FirstVersion, Version, Vids, Svids
<1> HIDE DEF v
<1>2. /\ vs \in Seq(Version) /\ DOMAIN vs = 1 .. 1 /\ Len(vs) = 1
      /\ vs[1] = v /\ Head(vs) = v /\ vs # <<>>
  BY <1>1
<1>3. m.versions = vs /\ m.dfl = Unpinned
  BY DEF v
<1> HIDE DEF vs
<1>4. \A i \in DOMAIN vs : i = 1
  BY <1>2
<1>5. GoodList(vs)
  BY <1>1, <1>2, <1>4 DEF GoodList, Descending, SerialsBounded, Sharing
<1>6. m \in Metadata
  BY <1>2 DEF Metadata, Unpinned, Pin, v, vs
<1>7. GoodMetadata(m)
  BY <1>2, <1>3, <1>5, <1>6 DEF GoodMetadata
<1>8. Listed(m) = vs
  BY <1>3, <1>7, SerialsFacts
<1>9. Serials(m) = {1}
  <2>1. Serials(m) = { vs[i].rfile : i \in DOMAIN vs }
    BY <1>8 DEF Serials
  <2>2. 1 \in DOMAIN vs
    BY <1>2
  <2> HIDE DEF Serials
  <2> QED
    BY <1>1, <1>2, <1>4, <2>1, <2>2
<1> QED
  BY <1>1, <1>2, <1>3, <1>7, <1>9

(* callback_mknod.                                                         *)
LEMMA CreateInv ==
  ASSUME IInv, NEW mode \in Modes, NEW uid \in Users, Create(mode, uid)
  PROVE  IInv'
<1>1. todo = <<>> /\ culled' = culled /\ cuts' <= MaxCuts
  BY DEF Create, Ready
<1>2. CASE Known = None
  <2> DEFINE m == [versions |-> <<FirstVersion(mode, uid)>>, deleted |-> FALSE,
                   dfl |-> Unpinned, recent |-> TRUE]
             q == WriteMeta(m)
             calls == <<Call("mknod", 1)>> \o q
             does == {"mknod", "open_meta", "put_lines"}
  <2>1. Run(calls, m) /\ cuts' = cuts
    BY <1>2 DEF Create
  <2>2. /\ GoodMetadata(m) /\ Len(m.versions) = 1 /\ m.dfl = Unpinned
        /\ Head(m.versions).rfile = 1
        /\ Serials(m) = {1}
    BY FirstGood
  <2> HIDE DEF m
  <2>3. m \in Metadata /\ m # None /\ SameList(m, m) /\ 1 \in Vids
    BY <2>2, NoneAssumption, BoundsAssumption DEF GoodMetadata, SameList, Vids
  <2>4. /\ ListOf(q, does, 1, m) /\ q[1].does = "open_meta"
        /\ q[Len(q)].does = "put_lines"
    BY <2>3, WriteMetaList
  <2> HIDE DEF q
  <2>5. /\ ListOf(calls, does, 1, m) /\ calls[1].does = "mknod"
        /\ calls[Len(calls)].does = "put_lines"
    BY <2>3, <2>4, MknodList
  <2> HIDE DEF calls
  <2>6. /\ Sequenced(calls) /\ calls # <<>>
        /\ \A i \in DOMAIN calls : CallOf(calls[i], does, 1, m)
    BY <2>5 DEF ListOf
  <2>7. 1 \in DOMAIN calls
    BY <2>6, TailFacts DEF Sequenced
  <2>8. calls[1].arg = 1
    BY <2>5, <2>6, <2>7 DEF CallOf
  <2>9. Makes(calls, m, Known)
    BY <1>2, <2>2, <2>3, <2>5, <2>6 DEF Makes, Only, EndsIn, ForHead, CallOf
  <2>10. ForFile(calls, m)
    BY <2>3, <2>6 DEF ForFile, CallOf
  <2>11. Serials(Known) = {}
    BY <1>2, NothingListed
  <2>12. Starts(calls, m)
    BY <2>2, <2>5, <2>6, <2>8, <2>9, <2>10, <2>11 DEF Starts, Planned
  <2>13. \A i \in DOMAIN calls : calls[i].does # "unlink"
    BY <2>6 DEF CallOf
  <2> QED
    BY <1>1, <2>1, <2>2, <2>5, <2>8, <2>12, <2>13, QuietRunInv
<1>3. CASE Known # None
  <2> DEFINE v == NextVersion(Known, uid)
             n == Linked(Known, v)
             m == [n EXCEPT !.recent = TRUE]
  <2>1. v.vid \in Vids
    BY <1>3 DEF Create
  <2>2. GoodMetadata(Known)
    BY <1>1, <1>3, ReadyFacts
  <2>3. /\ v \in Version /\ v.rfile = v.vid /\ Tops(v, Known.versions)
    <3>1. v.vid <= MaxVid
      BY <2>1, BoundsAssumption DEF Vids
    <3> QED
      BY <2>2, <3>1, NextVersionGood
  <2>4. CASE Known.recent
    <3> DEFINE c == Call("mknod", v.vid)
               calls == <<c>>
    <3>1. Run(calls, Known) /\ cuts' = cuts + 1
      BY <1>3, <2>4 DEF Create
    <3>2. c \in Calls /\ c.does = "mknod" /\ c.arg = v.vid
      BY <2>1, CallType DEF ArgsOf, Does
    <3> HIDE DEF c
    <3>3. /\ ListOf(calls, {"mknod"}, v.vid, Known)
          /\ calls[1] = c /\ Len(calls) = 1
      BY <3>2, OneCall DEF CallOf
    <3> HIDE DEF calls
    <3>4. /\ Sequenced(calls) /\ calls # <<>>
          /\ \A i \in DOMAIN calls : CallOf(calls[i], {"mknod"}, v.vid, Known)
      BY <3>3 DEF ListOf
    <3>5. Skips(calls, Known, Known)
      BY <1>3, <3>3, <3>4 DEF Skips, Only, CallOf
    <3>6. ForFile(calls, Known)
      BY <3>4 DEF ForFile, CallOf
    <3>7. Starts(calls, Known)
      BY <3>2, <3>3, <3>4, <3>5, <3>6 DEF Starts, Planned
    <3>8. \A i \in DOMAIN calls : calls[i].does # "unlink"
      BY <3>4 DEF CallOf
    <3>9. culled' \in BOOLEAN
      BY <1>1 DEF IInv, Typed
    <3>10. ~ culled' => ~ culled /\ \A i \in DOMAIN calls : calls[i].does # "unlink"
      BY <1>1, <3>8
    <3>11. cuts' \in {cuts, cuts + 1}
      BY <3>1
    <3>12. calls[1].does = "mknod" => calls[1].arg \in Serials(Known) \/ cuts' = cuts + 1
      BY <3>1
    <3>13. Known # None => GoodMetadata(Known)
      BY <2>2
    <3> QED
      BY ONLY <1>1, <3>1, <3>7, <3>9, <3>10, <3>11, <3>12, <3>13, RunInv, IInv
  <2>5. CASE ~ Known.recent
    <3> DEFINE q == LinkCalls(m)
               calls == <<Call("mknod", v.vid)>> \o q
    <3>1. Run(calls, m) /\ cuts' = cuts
      BY <1>3, <2>5 DEF Create
    <3> HIDE DEF v
    <3>2. LinkedTo(m, v)
      BY <2>2, <2>3, LinkedIsLinkedTo
    <3> HIDE DEF n, m
    <3>3. GoodMetadata(m) /\ m \in Metadata /\ SameList(m, m)
      BY <3>2, NoneAssumption DEF LinkedTo, GoodMetadata, SameList
    <3>4. /\ ListOf(q, LinkDoes \ {"creat", "copied"}, v.vid, m)
          /\ q[1].does = "open_meta"
          /\ q[Len(q)].does = "unlink_default"
      BY <3>3, LinkCallsList DEF LinkDoes
    <3> HIDE DEF q
    <3>5. /\ ListOf(calls, LinkDoes \ {"creat", "copied"}, v.vid, m)
          /\ calls[1].does = "mknod"
          /\ calls[Len(calls)].does = "unlink_default"
      <4>1. "mknod" \in LinkDoes \ {"creat", "copied"}
        BY DEF LinkDoes
      <4>2. v.vid \in Vids
        BY <2>1
      <4>3. PICK does : does = LinkDoes \ {"creat", "copied"}
        OBVIOUS
      <4>4. PICK s \in Vids : s = v.vid
        BY <4>2
      <4>5. /\ ListOf(q, does, s, m) /\ q[1].does = "open_meta" /\ "mknod" \in does
            /\ q[Len(q)].does = "unlink_default"
        BY <3>4, <4>1, <4>3, <4>4
      <4>6. /\ ListOf(<<Call("mknod", s)>> \o q, does, s, m)
            /\ (<<Call("mknod", s)>> \o q)[1].does = "mknod"
            /\ (<<Call("mknod", s)>> \o q)[Len(<<Call("mknod", s)>> \o q)] = q[Len(q)]
        BY ONLY <4>5, MknodList
      <4>7. calls = <<Call("mknod", s)>> \o q
        BY <4>4
      <4> HIDE DEF calls
      <4> QED
        BY <4>3, <4>4, <4>5, <4>6, <4>7
    <3> HIDE DEF calls
    <3>6. /\ ListOf(calls, LinkDoes, v.rfile, m)
          /\ \A i \in DOMAIN calls : calls[i].does \notin {"creat", "copied", "unlink"}
      BY <2>3, <3>5 DEF ListOf, CallOf, LinkDoes
    <3>7. Starts(calls, m)
      BY <2>2, <2>3, <3>2, <3>3, <3>5, <3>6, LinkStarts
    <3>8. calls[1].arg \in Serials(m)
      <4>1. 1 \in DOMAIN calls
        BY <3>6, TailFacts DEF ListOf, Sequenced
      <4>2. calls[1].arg = v.rfile
        BY <3>5, <3>6, <4>1 DEF ListOf, CallOf
      <4> QED
        BY <2>2, <2>3, <3>2, <4>2, LinkedToFacts
    <3>9. \A i \in DOMAIN calls : calls[i].does # "unlink"
      BY <3>6
    <3> QED
      BY <1>1, <3>1, <3>3, <3>7, <3>8, <3>9, QuietRunInv
  <2> QED
    BY <2>4, <2>5
<1> QED
  BY <1>2, <1>3

(* The calls that shorten the list, or only rewrite it, are a plan.        *)
LEMMA KeepStarts ==
  ASSUME GoodMetadata(Known), NEW m, GoodMetadata(m), m.dfl = Known.dfl,
         Len(m.versions) <= Len(Known.versions),
         \A i \in DOMAIN m.versions : m.versions[i] = Known.versions[i],
         NEW calls, NEW s, ListOf(calls, {"unlink", "open_meta", "put_lines"}, s, m),
         calls[Len(calls)].does = "put_lines",
         calls[1].does \in {"unlink", "open_meta"},
         \A t \in Serials(Known) \ Serials(m) :
           \E i \in DOMAIN calls : calls[i] = Call("unlink", t)
  PROVE  Starts(calls, m)
<1>1. m # None /\ Known # None /\ SameList(m, m)
  BY NoneAssumption DEF GoodMetadata, SameList
<1>2. /\ Sequenced(calls) /\ calls # <<>>
      /\ \A i \in DOMAIN calls : CallOf(calls[i], {"unlink", "open_meta", "put_lines"}, s, m)
  BY DEF ListOf
<1>3. Keeps(calls, m, Known)
  BY <1>1, <1>2 DEF Keeps, Only, EndsIn, CallOf
<1>4. ForFile(calls, m)
  BY <1>1, <1>2 DEF ForFile, CallOf
<1>5. Serials(m) \subseteq Serials(Known)
  <2>1. m.versions \in Seq(Version) /\ Known.versions \in Seq(Version)
    BY DEF GoodMetadata, GoodList
  <2>2. \A i \in DOMAIN m.versions : i \in DOMAIN Known.versions
    <3>1. /\ DOMAIN m.versions = 1 .. Len(m.versions) /\ Len(m.versions) \in Nat
          /\ DOMAIN Known.versions = 1 .. Len(Known.versions) /\ Len(Known.versions) \in Nat
      BY ONLY <2>1, SeqFacts
    <3> QED
      BY ONLY <3>1, Len(m.versions) <= Len(Known.versions)
  <2>3. /\ Serials(m) = { m.versions[i].rfile : i \in DOMAIN m.versions }
        /\ Serials(Known) = { Known.versions[i].rfile : i \in DOMAIN Known.versions }
    BY <1>1 DEF Serials, Listed
  <2> QED
    BY <2>2, <2>3
<1> QED
  BY <1>2, <1>3, <1>4, <1>5 DEF Starts, Planned

(* callback_unlink.                                                        *)
LEMMA UnlinkInv ==
  ASSUME IInv, Unlink
  PROVE  IInv'
<1> DEFINE m == [Known EXCEPT !.deleted = TRUE]
           calls == WriteMeta(m)
           does == {"unlink", "open_meta", "put_lines"}
<1>1. /\ todo = <<>> /\ Known # None /\ Run(calls, m)
      /\ UNCHANGED <<culled, cuts>>
      /\ ~ Known.deleted
  BY DEF Unlink, MayChange, Ready
<1>2. GoodMetadata(Known)
  BY <1>1, ReadyFacts
<1>3. GoodMetadata(m) /\ m.versions = Known.versions /\ m.dfl = Known.dfl /\ m \in Metadata
  BY <1>2 DEF GoodMetadata, Metadata
<1> HIDE DEF m
<1>4. /\ ListOf(calls, {"open_meta", "put_lines"}, 1, m)
      /\ calls[1].does = "open_meta"
      /\ calls[Len(calls)].does = "put_lines"
  BY <1>3, WriteMetaList
<1> HIDE DEF calls
<1>5. /\ ListOf(calls, does, 1, m)
      /\ \A i \in DOMAIN calls : calls[i].does # "unlink"
  BY <1>4 DEF ListOf, CallOf
<1>6. Serials(Known) \ Serials(m) = {}
  <2>1. m # None /\ Known # None
    BY <1>1, <1>3, NoneAssumption
  <2>2. Listed(m) = Listed(Known)
    BY <1>3, <2>1 DEF Listed
  <2> QED
    BY <2>2 DEF Serials
<1>7. Len(m.versions) <= Len(Known.versions)
  <2>1. m.versions \in Seq(Version) /\ Known.versions = m.versions
    BY <1>3 DEF Metadata
  <2> QED
    BY <2>1
<1>8. \A i \in DOMAIN m.versions : m.versions[i] = Known.versions[i]
  BY <1>3
<1>9. Starts(calls, m)
  BY <1>2, <1>3, <1>4, <1>5, <1>6, <1>7, <1>8, KeepStarts
<1> QED
  BY <1>1, <1>3, <1>4, <1>5, <1>9, QuietRunInv

(* The calls that write the default file or remove it.                     *)
LEMMA WriteDefaultList ==
  ASSUME NEW pin \in Pin, pin.vid = LATEST => pin = Unpinned,
         NEW calls, calls = WriteDefault(pin)
  PROVE  /\ Sequenced(calls) /\ calls # <<>>
         /\ \A i \in DOMAIN calls :
              /\ calls[i].does \in {"open_default", "put_default", "unlink_default"}
              /\ calls[i].does = "put_default" => calls[i].arg = pin
         /\ calls[1].does \in {"open_default", "unlink_default"}
         /\ calls[1].does = "unlink_default" => pin = Unpinned
         /\ calls[Len(calls)].does \in {"put_default", "unlink_default"}
<1>1. PICK does : does = {"open_default", "put_default", "unlink_default"}
  OBVIOUS
<1>2. CASE pin.vid = LATEST
  <2>1. PICK c \in Calls : calls = <<c>> /\ c.does = "unlink_default"
    BY <1>2, CallTypes DEF WriteDefault, Call
  <2>2. CallOf(c, does, 1, None)
    BY <1>1, <2>1 DEF CallOf
  <2>3. /\ ListOf(calls, does, 1, None) /\ calls[1] = c /\ calls[Len(calls)] = c
        /\ \A i \in DOMAIN calls : calls[i] = c
    BY ONLY <2>1, <2>2, OneCall
  <2> QED
    BY <1>1, <1>2, <2>1, <2>3 DEF ListOf
<1>3. CASE pin.vid # LATEST
  <2>1. PICK c \in Calls, d \in Calls :
          /\ calls = <<c, d>>
          /\ c.does = "open_default" /\ d.does = "put_default" /\ d.arg = pin
    BY <1>3, CallTypes DEF WriteDefault, Call
  <2>2. CallOf(c, does, 1, None) /\ CallOf(d, does, 1, None) /\ Follows(c, d)
    BY <1>1, <2>1 DEF CallOf, Follows
  <2>3. /\ ListOf(calls, does, 1, None) /\ calls[1] = c /\ calls[Len(calls)] = d
        /\ \A i \in DOMAIN calls : calls[i] \in {c, d}
    BY ONLY <2>1, <2>2, TwoCalls
  <2> QED
    BY <1>1, <2>1, <2>3 DEF ListOf
<1> QED
  BY <1>2, <1>3

(* setxattr of rcs.locked_version.                                         *)
LEMMA LockInv ==
  ASSUME IInv, NEW pin \in Locks, Lock(pin)
  PROVE  IInv'
<1> DEFINE m == [Known EXCEPT !.dfl = pin]
           calls == WriteDefault(pin)
<1>1. /\ todo = <<>> /\ Known # None /\ Run(calls, m)
      /\ UNCHANGED <<culled, cuts>>
  BY DEF Lock, MayChange, Ready
<1>2. GoodMetadata(Known)
  BY <1>1, ReadyFacts
<1>3. pin \in Pin /\ (pin.vid = LATEST => pin = Unpinned)
  BY DEF Locks
<1>4. /\ GoodMetadata(m) /\ m.versions = Known.versions /\ m.dfl = pin
      /\ m.deleted = Known.deleted
  BY <1>2, <1>3 DEF GoodMetadata, Metadata
<1> HIDE DEF m
<1>5. m # None /\ SameList(m, Known) /\ Serials(m) = Serials(Known)
  <2>1. m # None /\ SameList(m, Known)
    BY <1>1, <1>4, NoneAssumption DEF GoodMetadata, SameList
  <2> QED
    BY <2>1, SameListFacts
<1>6. /\ Sequenced(calls) /\ calls # <<>>
      /\ \A i \in DOMAIN calls :
           /\ calls[i].does \in {"open_default", "put_default", "unlink_default"}
           /\ calls[i].does = "put_default" => calls[i].arg = pin
      /\ calls[1].does \in {"open_default", "unlink_default"}
      /\ calls[1].does = "unlink_default" => pin = Unpinned
      /\ calls[Len(calls)].does \in {"put_default", "unlink_default"}
  BY <1>3, WriteDefaultList
<1> HIDE DEF calls
<1>7. Relocks(calls, m, Known)
  BY <1>4, <1>5, <1>6 DEF Relocks, Only, EndsIn
<1>8. ForFile(calls, m)
  BY <1>4, <1>5, <1>6 DEF ForFile
<1>9. Starts(calls, m)
  BY <1>5, <1>6, <1>7, <1>8 DEF Starts, Planned
<1>10. \A i \in DOMAIN calls : calls[i].does # "unlink"
  BY <1>6
<1>11. calls[1].does # "mknod"
  BY <1>6
<1> QED
  BY <1>1, <1>4, <1>9, <1>10, <1>11, QuietRunInv

(* Every version from an index on is unlinked.                             *)
Unlinking(calls, vs, from) ==
  \A j \in from .. Len(vs) :
    \E i \in DOMAIN calls : calls[i] = Call("unlink", vs[j].rfile)

LEMMA UnlinkFromFacts ==
  ASSUME NEW vs \in Seq(Version), NEW from \in 1 .. Len(vs) + 1,
         NEW p, p = UnlinkFrom(vs, from)
  PROVE  /\ p \in Seq(Calls)
         /\ \A i \in DOMAIN p : p[i].does = "unlink"
         /\ Unlinking(p, vs, from)
<1>1. DOMAIN vs = 1 .. Len(vs) /\ Len(vs) \in Nat /\ \A j \in DOMAIN vs : vs[j] \in Version
  BY SeqFacts
<1>2. PICK n \in Nat : n = Len(vs)
  BY <1>1
<1>3. from \in 1 .. n + 1 /\ from \in Int
  BY <1>1, <1>2
<1>4. p = [i \in 1 .. n - from + 1 |-> Call("unlink", vs[from + i - 1].rfile)]
  BY <1>2 DEF UnlinkFrom
<1>5. ASSUME NEW i \in 1 .. n - from + 1
      PROVE  from + i - 1 \in DOMAIN vs
  BY ONLY <1>1, <1>2, <1>3, i \in 1 .. n - from + 1
<1>6. ASSUME NEW i \in 1 .. n - from + 1
      PROVE  Call("unlink", vs[from + i - 1].rfile) \in Calls
  <2>1. vs[from + i - 1] \in Version
    BY <1>1, <1>5
  <2>2. vs[from + i - 1].rfile \in Vids
    BY ONLY <2>1 DEF Version
  <2> QED
    BY <2>2, CallTypes DEF Does
<1>7. n - from + 1 \in Nat
  BY ONLY <1>2, <1>3
<1>8. p \in Seq(Calls) /\ DOMAIN p = 1 .. n - from + 1
  BY ONLY <1>4, <1>6, <1>7
<1>9. \A i \in DOMAIN p : p[i].does = "unlink"
  BY ONLY <1>4, <1>8 DEF Call
<1>10. ASSUME NEW j \in from .. Len(vs)
       PROVE  \E i \in DOMAIN p : p[i] = Call("unlink", vs[j].rfile)
  <2>1. PICK i \in Int : i = j - from + 1
    BY ONLY <1>2, <1>3, j \in from .. Len(vs)
  <2>2. i \in 1 .. n - from + 1 /\ from + i - 1 = j
    BY ONLY <1>2, <1>3, <2>1, j \in from .. Len(vs)
  <2>3. p[i] = Call("unlink", vs[j].rfile)
    BY ONLY <1>4, <2>2
  <2> QED
    BY <1>8, <2>2, <2>3
<1> QED
  BY <1>8, <1>9, <1>10 DEF Unlinking

(* It is a plan with other calls after it.                                 *)
LEMMA UnlinksThen ==
  ASSUME NEW p \in Seq(Calls), \A i \in DOMAIN p : p[i].does = "unlink",
         NEW q, NEW does, NEW s, NEW n, "unlink" \in does, ListOf(q, does, s, n),
         q[1].does \in {"open_meta", "unlink_meta"}
  PROVE  /\ ListOf(p \o q, does, s, n)
         /\ (p \o q)[1].does \in {"unlink", "open_meta", "unlink_meta"}
         /\ (p \o q)[Len(p \o q)] = q[Len(q)]
         /\ \A vs, from : Unlinking(p, vs, from) => Unlinking(p \o q, vs, from)
<1>1. PICK calls : calls = p \o q
  OBVIOUS
<1>2. q \in Seq(Calls)
  BY DEF ListOf, Sequenced
<1>3. CASE p = <<>>
  <2>1. calls = q
    BY ONLY <1>1, <1>2, <1>3
  <2>2. DOMAIN p = {}
    BY ONLY <1>3
  <2> QED
    BY <1>1, <2>1, <2>2 DEF Unlinking
<1>4. CASE p # <<>>
  <2>1. /\ DOMAIN p = 1 .. Len(p)
        /\ 1 \in DOMAIN p /\ Len(p) \in DOMAIN p /\ Len(p) \in Nat \ {0}
    BY ONLY <1>4, p \in Seq(Calls), SeqFacts
  <2>2. Sequenced(p)
    <3>1. ASSUME NEW i \in 1 .. Len(p) - 1
          PROVE  i \in DOMAIN p /\ i + 1 \in DOMAIN p
      BY ONLY <2>1, i \in 1 .. Len(p) - 1
    <3>2. ASSUME NEW i \in 1 .. Len(p) - 1
          PROVE  Follows(p[i], p[i + 1])
      BY <3>1 DEF Follows
    <3> QED
      BY <3>2 DEF Sequenced
  <2>3. ListOf(p, does, s, n)
    BY <1>4, <2>2 DEF ListOf, CallOf
  <2>4. p[1].does = "unlink" /\ p[Len(p)].does = "unlink"
    BY <2>1
  <2>5. Follows(p[Len(p)], q[1])
    BY <2>4 DEF Follows
  <2>6. ListOf(calls, does, s, n) /\ calls[1] = p[1] /\ calls[Len(calls)] = q[Len(q)]
    BY ONLY <1>1, <2>3, <2>5, ListOf(q, does, s, n), Joined
  <2>7. \A i \in DOMAIN p : i \in DOMAIN calls /\ calls[i] = p[i]
    BY ONLY p \in Seq(Calls), <1>1, <1>2
  <2>8. \A vs, from : Unlinking(p, vs, from) => Unlinking(calls, vs, from)
    BY <2>7 DEF Unlinking
  <2> QED
    BY <1>1, <2>4, <2>6, <2>8
<1> QED
  BY <1>3, <1>4

(* setxattr of rcs.purge, of the whole file.                               *)
LEMMA PurgeAllInv ==
  ASSUME IInv, PurgeAll
  PROVE  IInv'
<1> DEFINE c == Call("unlink_meta", None)
           q == <<c>>
           calls == UnlinkFrom(Known.versions, 1) \o q
           does == {"unlink", "unlink_meta"}
           s == Head(Known.versions).rfile
<1>1. /\ todo = <<>> /\ Known # None /\ Run(calls, None)
      /\ culled' = TRUE /\ cuts' = cuts
  BY DEF PurgeAll, MayChange, Ready
<1>2. GoodMetadata(Known)
  BY <1>1, ReadyFacts
<1>3. c \in Calls /\ c.does = "unlink_meta"
  BY CallTypes DEF Call
<1>4. /\ Known.versions \in Seq(Version) /\ 1 \in 1 .. Len(Known.versions) + 1
      /\ DOMAIN Known.versions = 1 .. Len(Known.versions)
  BY <1>2 DEF GoodMetadata, GoodList
<1>5. \A t \in Serials(Known) : \E j \in 1 .. Len(Known.versions) : t = Known.versions[j].rfile
  BY <1>1, <1>4 DEF Serials, Listed
<1> HIDE DEF c
<1>6. PICK x : x = s
  OBVIOUS
<1>7. ListOf(q, does, x, None) /\ q[1] = c /\ q[Len(q)] = c
  <2>1. CallOf(c, does, x, None)
    BY <1>3 DEF CallOf
  <2> QED
    BY <1>3, <2>1, OneCall
<1> HIDE DEF q
<1>8. PICK p :
        /\ calls = p \o q /\ p \in Seq(Calls)
        /\ \A i \in DOMAIN p : p[i].does = "unlink"
        /\ Unlinking(p, Known.versions, 1)
  BY <1>4, UnlinkFromFacts
<1> HIDE DEF calls
<1>9a. q[1].does \in {"open_meta", "unlink_meta"} /\ "unlink" \in does
  BY <1>3, <1>7
<1> HIDE DEF does
<1>9. /\ ListOf(calls, does, x, None)
      /\ calls[1].does \in {"unlink", "open_meta", "unlink_meta"}
      /\ calls[Len(calls)] = q[Len(q)]
      /\ Unlinking(calls, Known.versions, 1)
  BY <1>7, <1>8, <1>9a, UnlinksThen
<1>10. /\ Sequenced(calls) /\ calls # <<>>
       /\ \A i \in DOMAIN calls : calls[i].does \in {"unlink", "unlink_meta"}
  BY <1>9 DEF ListOf, CallOf, does
<1>11. calls[Len(calls)].does = "unlink_meta"
  BY <1>3, <1>7, <1>9
<1>12. Purges(calls, None, Known)
  BY <1>10, <1>11 DEF Purges, Only, EndsIn
<1>13. ForFile(calls, None)
  BY <1>10 DEF ForFile
<1>14. \A t \in Serials(Known) : \E i \in DOMAIN calls : calls[i] = Call("unlink", t)
  BY <1>5, <1>9 DEF Unlinking
<1>15. Starts(calls, None)
  BY <1>9, <1>10, <1>12, <1>13, <1>14, NothingListed DEF Starts, Planned
<1>16. cuts' \in {cuts, cuts + 1} /\ cuts' <= MaxCuts
  BY <1>1, CommitAssumption DEF IInv, Typed
<1>17. calls[1].does # "mknod"
  BY <1>9
<1>18. culled' \in BOOLEAN /\ culled'
  BY <1>1
<1> QED
  BY ONLY <1>1, <1>15, <1>16, <1>17, <1>18, RunInv, IInv

(* And of its oldest versions.                                             *)
LEMMA PurgeOldestInv ==
  ASSUME IInv, NEW n \in 0 .. MaxLen, PurgeOldest(n)
  PROVE  IInv'
<1> DEFINE kept == Len(Known.versions) - n
           m == Culled(Known, kept)
           q == WriteMeta(m)
           calls == UnlinkFrom(Known.versions, kept + 1) \o q
           does == {"unlink", "open_meta", "put_lines"}
<1>1. /\ todo = <<>> /\ Known # None /\ Run(calls, m)
      /\ n < Len(Known.versions)
      /\ culled' = TRUE /\ cuts' = cuts
  BY DEF PurgeOldest, MayChange, Ready
<1>2. GoodMetadata(Known)
  BY <1>1, ReadyFacts
<1>3. /\ Known.versions \in Seq(Version) /\ Len(Known.versions) \in Nat
      /\ DOMAIN Known.versions = 1 .. Len(Known.versions)
  BY <1>2 DEF GoodMetadata, GoodList
<1>4. /\ kept \in 1 .. Len(Known.versions) /\ kept \in 0 .. Len(Known.versions)
      /\ kept # 0 /\ kept + 1 \in 1 .. Len(Known.versions) + 1
  <2>1. PICK l \in Nat : l = Len(Known.versions)
    BY <1>3
  <2>2. n \in Nat /\ n < l
    BY <1>1, <2>1, CommitAssumption
  <2>3. PICK d : d = l - n
    OBVIOUS
  <2>4. d \in 1 .. l /\ d \in 0 .. l /\ d # 0 /\ d + 1 \in 1 .. l + 1
    BY ONLY <2>1, <2>2, <2>3, l \in Nat
  <2> QED
    BY <2>1, <2>3, <2>4
<1>5. /\ m.versions = SubSeq(Known.versions, 1, kept) /\ m.dfl = Known.dfl
      /\ m = [Known EXCEPT !.versions = SubSeq(@, 1, kept)]
  BY <1>2 DEF Culled, GoodMetadata, Metadata
<1>6. GoodMetadata(m)
  <2>1. GoodList(m.versions) /\ m.versions # <<>>
    BY <1>2, <1>4, <1>5, PrefixGood DEF GoodMetadata
  <2>2. m.versions \in Seq(Version)
    BY <2>1 DEF GoodList
  <2>3. m \in Metadata
    BY <1>2, <1>5, <2>2 DEF Metadata, GoodMetadata
  <2> QED
    BY <2>1, <2>3 DEF GoodMetadata
<1> HIDE DEF kept
<1>7. /\ Len(m.versions) = kept /\ DOMAIN m.versions = 1 .. kept
      /\ \A i \in 1 .. kept : m.versions[i] = Known.versions[i]
  BY <1>3, <1>4, <1>5
<1>8. Len(m.versions) <= Len(Known.versions)
  BY <1>3, <1>4, <1>7
<1>9. m \in Metadata
  BY <1>6 DEF GoodMetadata
<1> HIDE DEF m
<1>10. /\ ListOf(q, does, 1, m)
       /\ q[1].does = "open_meta"
       /\ q[Len(q)].does = "put_lines"
  BY <1>9, WriteMetaList
<1> HIDE DEF q
<1>11. PICK p :
         /\ calls = p \o q /\ p \in Seq(Calls)
         /\ \A i \in DOMAIN p : p[i].does = "unlink"
         /\ Unlinking(p, Known.versions, kept + 1)
  BY <1>3, <1>4, UnlinkFromFacts
<1> HIDE DEF calls
<1>11a. q[1].does \in {"open_meta", "unlink_meta"} /\ "unlink" \in does
  BY <1>10
<1> HIDE DEF does
<1>12. /\ ListOf(calls, does, 1, m)
       /\ calls[1].does \in {"unlink", "open_meta", "unlink_meta"}
       /\ calls[Len(calls)] = q[Len(q)]
       /\ Unlinking(calls, Known.versions, kept + 1)
  BY <1>10, <1>11, <1>11a, UnlinksThen
<1>13. calls[1].does \in {"unlink", "open_meta"}
  <2>1. 1 \in DOMAIN calls
    BY <1>12, TailFacts DEF ListOf, Sequenced
  <2>2. calls[1].does \in does
    BY <1>12, <2>1 DEF ListOf, CallOf
  <2> QED
    BY <1>12, <2>2 DEF does
<1>14. ASSUME NEW t \in Serials(Known) \ Serials(m)
       PROVE  \E i \in DOMAIN calls : calls[i] = Call("unlink", t)
  <2>1. PICK j \in 1 .. Len(Known.versions) : t = Known.versions[j].rfile
    BY <1>1, <1>3 DEF Serials, Listed
  <2>2. Serials(m) = { m.versions[i].rfile : i \in DOMAIN m.versions }
    BY <1>6, SerialsFacts DEF Serials
  <2>3. j \notin 1 .. kept
    BY <1>7, <2>1, <2>2
  <2>4. j \in kept + 1 .. Len(Known.versions)
    BY <1>3, <1>4, <2>3
  <2> QED
    BY <1>12, <2>1, <2>4 DEF Unlinking
<1>15. Starts(calls, m)
  <2>1. calls[Len(calls)].does = "put_lines"
    BY <1>10, <1>12
  <2>2. \A i \in DOMAIN m.versions : m.versions[i] = Known.versions[i]
    BY <1>7
  <2>3. m.dfl = Known.dfl
    BY <1>5
  <2>4. ListOf(calls, {"unlink", "open_meta", "put_lines"}, 1, m)
    BY <1>12 DEF does
  <2> QED
    BY <1>2, <1>6, <1>8, <1>13, <1>14, <2>1, <2>2, <2>3, <2>4, KeepStarts
<1>16. cuts' \in {cuts, cuts + 1} /\ cuts' <= MaxCuts
  BY <1>1, CommitAssumption DEF IInv, Typed
<1>17. calls[1].does # "mknod"
  BY <1>13
<1>18. culled' \in BOOLEAN /\ culled'
  BY <1>1
<1> QED
  BY ONLY <1>1, <1>6, <1>15, <1>16, <1>17, <1>18, RunInv, IInv

-----------------------------------------------------------------------------
(* A system call.                                                          *)

(* The call that is made, and those that are left.                         *)
LEMMA CallMade ==
  ASSUME IInv, SystemCall, NEW c, c = Head(todo)
  PROVE  /\ c \in Calls /\ c.does \in Does /\ c.arg \in ArgsOf(c.does) /\ c = todo[1]
         /\ todo # <<>> /\ todo \in Seq(Calls) /\ 1 \in DOMAIN todo
         /\ Planned(todo, md, known)
         /\ todo' \in Seq(Calls)
         /\ \A i \in DOMAIN todo' : i + 1 \in DOMAIN todo /\ todo'[i] = todo[i + 1]
         /\ \A i \in DOMAIN todo : i # 1 => i - 1 \in DOMAIN todo' /\ todo'[i - 1] = todo[i]
         /\ todo' # <<>> =>
              Planned(todo', md, known) /\ Head(todo') = todo'[1] /\ Follows(c, todo'[1])
         /\ todo' = <<>> =>
              Len(todo) = 1 /\ \A does : EndsIn(todo, does) => c.does \in does
<1>1. todo # <<>> /\ todo' = Tail(todo)
  BY DEF SystemCall
<1>2. Planned(todo, md, known) /\ todo \in Seq(Calls)
  BY <1>1 DEF IInv, Planned, Sequenced
<1>3. /\ c = todo[1] /\ 1 \in DOMAIN todo
      /\ todo' \in Seq(Calls)
      /\ Len(todo) \in Nat \ {0}
      /\ Len(todo') = Len(todo) - 1
      /\ DOMAIN todo = 1 .. Len(todo)
      /\ DOMAIN todo' = 1 .. Len(todo) - 1
      /\ \A i \in DOMAIN todo' : i + 1 \in DOMAIN todo /\ todo'[i] = todo[i + 1]
  BY <1>1, <1>2, TailFacts
<1>4. c \in Calls /\ c.does \in Does /\ c.arg \in ArgsOf(c.does)
  BY <1>2, <1>3, CallFacts
<1>5. ASSUME NEW i \in DOMAIN todo, i # 1
      PROVE  i - 1 \in DOMAIN todo' /\ todo'[i - 1] = todo[i]
  <2>1. i - 1 \in DOMAIN todo' /\ i - 1 + 1 = i
    BY <1>3, <1>5
  <2> QED
    BY <1>3, <2>1
<1>6. ASSUME todo' # <<>>
      PROVE  Planned(todo', md, known) /\ Head(todo') = todo'[1] /\ Follows(c, todo'[1])
  <2>1. Planned(todo', md, known)
    BY <1>1, <1>2, <1>6, PlannedTail
  <2>2. Head(todo') = todo'[1] /\ 1 \in DOMAIN todo'
    BY <1>3, <1>6, TailFacts
  <2>3. 1 \in 1 .. Len(todo) - 1 /\ todo'[1] = todo[1 + 1]
    BY <1>3, <2>2
  <2> QED
    BY <1>2, <1>3, <2>1, <2>2, <2>3 DEF Planned, Sequenced
<1>7. ASSUME todo' = <<>>
      PROVE  Len(todo) = 1 /\ \A does : EndsIn(todo, does) => c.does \in does
  <2>1. Len(todo) = 1
    BY <1>3, <1>7
  <2> QED
    BY <1>3, <2>1 DEF EndsIn
<1> QED
  BY <1>1, <1>2, <1>3, <1>4, <1>5, <1>6, <1>7

(* A system call keeps the invariant if it keeps the parts that speak of   *)
(* the disk and no other file comes loose.                                 *)
LEMMA CallKeeps ==
  ASSUME IInv, SystemCall, Typed', OnDisk', Whole', Gone', Loose' \subseteq Loose
  PROVE  IInv'
<1>1. /\ md' = md /\ torn' = torn /\ cuts' = cuts
      /\ known' = IF todo' = <<>> THEN md ELSE known
  BY DEF SystemCall
<1>2. /\ todo' \in Seq(Calls)
      /\ todo' # <<>> => Planned(todo', md, known)
  BY CallMade
<1>3. todo' # <<>> => Planned(todo, md, known)'
  BY <1>1, <1>2
<1>4. ~ torn' => Cardinality(Loose') <= cuts'
  <2> SUFFICES ASSUME ~ torn PROVE Cardinality(Loose') <= cuts
    BY <1>1
  <2>1. Cardinality(Loose) <= cuts /\ cuts \in Nat /\ Loose \in SUBSET Vids
    BY CommitAssumption DEF IInv, Typed, Loose
  <2> QED
    BY <2>1, CardinalitySub
<1> QED
  BY <1>2, <1>3, <1>4 DEF IInv

(* Which callbacks make a call, and with what.                             *)
LEMMA HeadPlan ==
  ASSUME NEW calls, NEW m, NEW k, Planned(calls, m, k), 1 \in DOMAIN calls,
         NEW c, c = calls[1]
  PROVE  /\ c.does \in {"creat", "copied"} =>
              /\ Links(calls, m, k)
              /\ c.arg = Head(m.versions).rfile /\ c.arg \notin Serials(k)
         /\ c.does = "mknod" =>
              \/ (Links(calls, m, k) \/ Makes(calls, m, k)) /\ c.arg = Head(m.versions).rfile
              \/ Skips(calls, m, k)
         /\ c.does = "unlink" => Keeps(calls, m, k) \/ Purges(calls, m, k)
         /\ c.does = "open_meta" =>
              Links(calls, m, k) \/ Makes(calls, m, k) \/ Keeps(calls, m, k)
         /\ c.does = "put_lines" =>
              /\ Links(calls, m, k) \/ Makes(calls, m, k) \/ Keeps(calls, m, k)
              /\ SameList(m, c.arg)
         /\ c.does = "unlink_meta" => Purges(calls, m, k)
         /\ c.does = "open_default" => Relocks(calls, m, k)
         /\ c.does = "put_default" => Relocks(calls, m, k) /\ c.arg = m.dfl
         /\ c.does = "unlink_default" =>
              Links(calls, m, k) \/ (Relocks(calls, m, k) /\ m.dfl = Unpinned)
<1>1. /\ c.does = "put_lines" => SameList(m, c.arg)
      /\ c.does = "put_default" => c.arg = m.dfl
  BY DEF Planned, ForFile
<1>2. CASE Links(calls, m, k)
  BY <1>1, <1>2 DEF Links, Only, ForHead
<1>3. CASE Makes(calls, m, k)
  BY <1>1, <1>3 DEF Makes, Only, ForHead
<1>4. CASE Keeps(calls, m, k)
  BY <1>1, <1>4 DEF Keeps, Only
<1>5. CASE Relocks(calls, m, k)
  BY <1>1, <1>5 DEF Relocks, Only
<1>6. CASE Skips(calls, m, k)
  BY <1>1, <1>6 DEF Skips, Only
<1>7. CASE Purges(calls, m, k)
  BY <1>1, <1>7 DEF Purges, Only
<1> QED
  BY <1>2, <1>3, <1>4, <1>5, <1>6, <1>7 DEF Planned

(* Nothing is unlinked once the metadata file is touched.                  *)
LEMMA UnlinksFirst ==
  ASSUME NEW calls, Sequenced(calls), 1 \in DOMAIN calls,
         calls[1].does \in {"open_meta", "unlink_meta"}
  PROVE  \A i \in DOMAIN calls : calls[i].does # "unlink"
<1> SUFFICES ASSUME NEW i \in DOMAIN calls PROVE calls[i].does # "unlink"
  OBVIOUS
<1>1. calls \in Seq(Calls) /\ \A j \in 1 .. Len(calls) - 1 : Follows(calls[j], calls[j + 1])
  BY DEF Sequenced
<1>2. DOMAIN calls = 1 .. Len(calls) /\ Len(calls) \in Nat
  BY <1>1, SeqFacts
<1>3. i > 1 => Follows(calls[1], calls[2]) /\ Len(calls) > 1
  BY <1>1, <1>2
<1>4. i > 1 => calls[2].does = "put_lines"
  BY <1>3 DEF Follows
<1>5. i > 2 => Follows(calls[2], calls[3]) /\ Len(calls) > 2
  BY <1>1, <1>2
<1>6. i > 2 => calls[3].does = "unlink_default"
  <2>1. i > 2 => i > 1
    BY <1>2
  <2> QED
    BY <1>4, <1>5, <2>1 DEF Follows
<1>7. i > 3 => Follows(calls[3], calls[4])
  BY <1>1, <1>2
<1>8. ~ (i > 3)
  <2>1. i > 3 => i > 2
    BY <1>2
  <2> QED
    BY <1>6, <1>7, <2>1 DEF Follows
<1>9. i = 1 \/ (i = 2 /\ i > 1) \/ (i = 3 /\ i > 2)
  BY <1>2, <1>8
<1> QED
  BY <1>4, <1>6, <1>9

(* What links a version keeps the others.                                  *)
LEMMA LinksKeep ==
  ASSUME NEW calls, NEW m, NEW k, Links(calls, m, k), GoodMetadata(m), GoodMetadata(k)
  PROVE  Serials(k) \subseteq Serials(m)
<1>1. m # None /\ k # None /\ Tail(m.versions) = k.versions
  BY DEF Links
<1>2. /\ m.versions \in Seq(Version) /\ m.versions # <<>>
      /\ DOMAIN m.versions = 1 .. Len(m.versions) /\ Len(m.versions) \in Nat
  BY SeqFacts DEF GoodMetadata, GoodList
<1>3. \A i \in DOMAIN k.versions : i + 1 \in DOMAIN m.versions /\ k.versions[i] = m.versions[i + 1]
  <2>1. PICK vs \in Seq(Version) : vs = m.versions /\ vs # <<>> /\ k.versions = Tail(vs)
    BY <1>1, <1>2
  <2>2. \A i \in DOMAIN Tail(vs) : i + 1 \in DOMAIN vs /\ Tail(vs)[i] = vs[i + 1]
    BY ONLY vs \in Seq(Version), <2>1
  <2> QED
    BY <2>1, <2>2
<1>4. /\ Serials(m) = { m.versions[i].rfile : i \in DOMAIN m.versions }
      /\ Serials(k) = { k.versions[i].rfile : i \in DOMAIN k.versions }
  BY <1>1 DEF Serials, Listed
<1> QED
  BY <1>3, <1>4

(* A backing file is made, filled or unlinked.                             *)
LEMMA StoreCallInv ==
  ASSUME IInv, SystemCall, Head(todo).does \in {"creat", "copied", "mknod", "unlink"}
  PROVE  IInv'
<1>1. PICK c : c = Head(todo)
  OBVIOUS
<1>2. /\ c \in Calls /\ c.does \in Does /\ c.arg \in ArgsOf(c.does) /\ c = todo[1]
      /\ todo # <<>> /\ todo \in Seq(Calls) /\ 1 \in DOMAIN todo
      /\ Planned(todo, md, known)
      /\ todo' \in Seq(Calls)
      /\ \A i \in DOMAIN todo' : i + 1 \in DOMAIN todo /\ todo'[i] = todo[i + 1]
      /\ \A i \in DOMAIN todo : i # 1 => i - 1 \in DOMAIN todo' /\ todo'[i - 1] = todo[i]
      /\ todo' # <<>> => Planned(todo', md, known)
      /\ todo' # <<>> => Head(todo') = todo'[1]
      /\ todo' # <<>> => Follows(c, todo'[1])
      /\ todo' = <<>> => Len(todo) = 1
      /\ todo' = <<>> => \A does : EndsIn(todo, does) => c.does \in does
  BY <1>1, CallMade
<1>3. c.does \in {"creat", "copied", "mknod", "unlink"} /\ c.arg \in Vids
  BY <1>1, <1>2 DEF ArgsOf
<1>4. /\ meta' = meta /\ dfl' = dfl /\ md' = md /\ daemon' = daemon /\ torn' = torn
      /\ culled' = culled /\ cuts' = cuts
      /\ known' = IF todo' = <<>> THEN md ELSE known
      /\ store' = StoreAfter(c)
  BY <1>1, <1>3 DEF SystemCall, MetaAfter, DefaultAfter
<1>5. ReadBack' = ReadBack /\ FilePin' = FilePin
  BY <1>4 DEF ReadBack, FilePin
<1>6. store \in [Vids -> {None, "partial", "whole"}]
  BY DEF IInv, Typed
<1>7. /\ store' \in [Vids -> {None, "partial", "whole"}]
      /\ \A t \in Vids : t # c.arg => store'[t] = store[t]
      /\ c.does \in {"copied", "mknod"} => store'[c.arg] = "whole"
      /\ c.does = "unlink" => store'[c.arg] = None
  BY <1>3, <1>4, <1>6 DEF StoreAfter
<1>8. Agrees(known)
  BY <1>1, <1>2, <1>3 DEF IInv, OnDisk, Doing
<1>9. Serials(known) = Serials(ReadBack)
  BY <1>8, AgreesFacts
<1>10. Links(todo, md, known) => Serials(known) \subseteq Serials(md)
  BY LinksKeep DEF IInv, Typed, Links
<1>11. /\ c.does \in {"creat", "copied"} =>
            /\ Links(todo, md, known)
            /\ c.arg = Head(md.versions).rfile /\ c.arg \notin Serials(known)
       /\ c.does = "mknod" =>
            \/ /\ Links(todo, md, known) \/ Makes(todo, md, known)
               /\ c.arg = Head(md.versions).rfile
            \/ Skips(todo, md, known)
       /\ c.does = "unlink" => Keeps(todo, md, known) \/ Purges(todo, md, known)
  BY <1>2, HeadPlan
<1>12. c.arg = Head(md.versions).rfile /\ md # None => c.arg \in Serials(md)
  BY SerialsFacts DEF IInv, Typed
<1>13. todo' = <<>> => Skips(todo, md, known)
  <2> SUFFICES ASSUME todo' = <<>> PROVE Skips(todo, md, known)
    OBVIOUS
  <2>1. ~ Links(todo, md, known)
    BY <1>2, <1>3 DEF Links
  <2>2. ~ Makes(todo, md, known)
    BY <1>2, <1>3 DEF Makes
  <2>3. ~ Keeps(todo, md, known)
    BY <1>2, <1>3 DEF Keeps
  <2>4. ~ Purges(todo, md, known)
    BY <1>2, <1>3 DEF Purges
  <2> QED
    BY <1>3, <1>11, <2>1, <2>2, <2>3, <2>4
<1>14. todo' # <<>> =>
         \/ c.does = "creat" /\ todo'[1] = Call("copied", c.arg)
         \/ c.does \in {"copied", "mknod"} /\ todo'[1].does = "open_meta"
         \/ c.does = "unlink" /\ todo'[1].does \in {"unlink", "open_meta", "unlink_meta"}
  BY <1>2, <1>3 DEF Follows
<1>15. \A x, s : Call(x, s).does = x /\ Call(x, s).arg = s
  BY DEF Call
<1>16. Typed'
  BY <1>4, <1>7 DEF IInv, Typed, Skips
<1>17. OnDisk'
  <2>1. Agrees(known)' /\ known' = known /\ (todo' = <<>> => known' = Known')
    <3>1. todo' = <<>> => md = known /\ md # None
      BY <1>13 DEF Skips
    <3>2. known' = known
      BY <1>4, <3>1
    <3>3. todo' = <<>> => known' = Known'
      BY <1>4, <3>1 DEF Known
    <3> QED
      BY <1>5, <1>8, <3>2, <3>3 DEF Agrees, PinAgrees
  <2>2. todo' # <<>> => todo'[1].does \in {"copied", "unlink", "open_meta", "unlink_meta"}
    BY <1>14, <1>15
  <2> QED
    BY <1>2, <2>1, <2>2 DEF OnDisk, Doing
<1>18. Whole'
  <2> SUFFICES ASSUME ~ culled
               PROVE  /\ \A i \in DOMAIN todo' : todo'[i].does # "unlink"
                      /\ \A s \in Serials(ReadBack) : store'[s] = "whole"
                      /\ \A s \in Serials(md) :
                           \/ store'[s] = "whole"
                           \/ Doing({"creat", "copied", "mknod"})' /\ Head(todo').arg = s
    BY <1>4, <1>5 DEF Whole
  <2>1. /\ \A i \in DOMAIN todo : todo[i].does # "unlink"
        /\ \A s \in Serials(ReadBack) : store[s] = "whole"
        /\ \A s \in Serials(md) : store[s] = "whole" \/ s = c.arg
    BY <1>1 DEF IInv, Whole
  <2>2. c.does # "unlink"
    BY <1>2, <2>1
  <2>3. Serials(ReadBack) \subseteq Vids /\ Serials(md) \subseteq Vids
    BY <1>8, <1>9, SerialsFacts, NothingListed DEF IInv, Typed
  <2>4. ASSUME NEW s \in Serials(ReadBack) PROVE store'[s] = "whole"
    BY <1>3, <1>7, <1>9, <1>11, <2>1, <2>2, <2>3
  <2>5. ASSUME NEW s \in Serials(md)
        PROVE  \/ store'[s] = "whole"
               \/ Doing({"creat", "copied", "mknod"})' /\ Head(todo').arg = s
    <3>1. CASE c.does \in {"copied", "mknod"}
      BY <1>7, <2>1, <2>3, <3>1
    <3>2. CASE c.does = "creat"
      <4>1. todo' # <<>>
        BY <1>3, <1>13, <3>2, <1>2 DEF Skips, Only
      <4>2. Head(todo') = Call("copied", c.arg)
        BY <1>2, <1>14, <3>2, <4>1
      <4> QED
        BY <1>7, <1>15, <2>1, <2>3, <4>1, <4>2 DEF Doing
    <3> QED
      BY <1>3, <2>2, <3>1, <3>2
  <2> QED
    BY <1>2, <2>1, <2>4, <2>5
<1>19. Gone'
  <2> SUFFICES ASSUME Doing({"unlink", "open_meta", "unlink_meta"})',
                      NEW s \in Serials(ReadBack), s \notin Serials(md)
               PROVE  store'[s] = None \/ \E i \in DOMAIN todo' : todo'[i] = Call("unlink", s)
    BY <1>4, <1>5 DEF Gone
  <2>1. todo' # <<>> /\ c.does # "creat"
    BY <1>2, <1>14, <1>15 DEF Doing
  <2>2. CASE c.does = "unlink"
    <3>1. store[s] = None \/ \E i \in DOMAIN todo : todo[i] = Call("unlink", s)
      BY <1>1, <1>2, <2>2 DEF IInv, Gone, Doing
    <3>2. s \in Vids
      BY <1>8, <1>9, SerialsFacts, NothingListed DEF IInv, Typed
    <3>3. CASE store[s] = None
      BY <1>7, <2>2, <3>2, <3>3
    <3>4. ASSUME NEW i \in DOMAIN todo, todo[i] = Call("unlink", s)
          PROVE  store'[s] = None \/ \E j \in DOMAIN todo' : todo'[j] = Call("unlink", s)
      <4>1. CASE i = 1
        BY <1>2, <1>7, <1>15, <2>2, <3>4, <4>1
      <4>2. CASE i # 1
        BY <1>2, <3>4, <4>2
      <4> QED
        BY <4>1, <4>2
    <3> QED
      BY <3>1, <3>3, <3>4
  <2>3. CASE c.does \in {"copied", "mknod"}
    <3>1. ~ Links(todo, md, known)
      BY <1>9, <1>10
    <3>2. ~ Makes(todo, md, known)
      BY <1>9, NothingListed DEF Makes
    <3>3. ~ Skips(todo, md, known)
      BY <1>9 DEF Skips
    <3> QED
      BY <1>11, <2>3, <3>1, <3>2, <3>3
  <2> QED
    BY <1>3, <2>1, <2>2, <2>3
<1>20. Loose' \subseteq Loose
  <2> SUFFICES ASSUME NEW s \in Vids, s \notin Serials(md),
                      \/ store'[s] # None /\ s \notin Serials(ReadBack)
                      \/ Doing({"mknod"})' /\ Head(todo').arg = s
               PROVE  \/ store[s] # None /\ s \notin Serials(ReadBack)
                      \/ Doing({"mknod"}) /\ Head(todo).arg = s
    BY <1>4, <1>5 DEF Loose
  <2>1. ~ Doing({"mknod"})'
    BY <1>2, <1>14, <1>15 DEF Doing
  <2>2. store'[s] # None /\ s \notin Serials(ReadBack)
    BY <2>1
  <2>3. CASE s = c.arg /\ c.does = "mknod"
    BY <1>1, <1>2, <2>3 DEF Doing
  <2>4. CASE s = c.arg /\ c.does = "unlink"
    BY <1>7, <2>2, <2>4
  <2>5. CASE s = c.arg /\ c.does \in {"creat", "copied"}
    BY <1>11, <1>12, <2>5 DEF Links
  <2>6. CASE s # c.arg
    BY <1>7, <2>2, <2>6
  <2> QED
    BY <1>3, <2>3, <2>4, <2>5, <2>6
<1> QED
  BY <1>16, <1>17, <1>18, <1>19, <1>20, CallKeeps

(* The metadata file is emptied or removed.                                *)
LEMMA MetaGoneInv ==
  ASSUME IInv, SystemCall, Head(todo).does \in {"open_meta", "unlink_meta"}
  PROVE  IInv'
<1>1. PICK c : c = Head(todo)
  OBVIOUS
<1>2. /\ c.does \in {"open_meta", "unlink_meta"} /\ c = todo[1]
      /\ todo # <<>> /\ 1 \in DOMAIN todo
      /\ Planned(todo, md, known) /\ Sequenced(todo)
      /\ \A i \in DOMAIN todo' : i + 1 \in DOMAIN todo /\ todo'[i] = todo[i + 1]
      /\ todo' # <<>> => Head(todo') = todo'[1] /\ Follows(c, todo'[1])
      /\ todo' = <<>> => Len(todo) = 1
      /\ todo' = <<>> => \A does : EndsIn(todo, does) => c.does \in does
  BY <1>1, CallMade DEF Planned
<1>3. /\ dfl' = dfl /\ md' = md /\ store' = store /\ daemon' = daemon /\ torn' = torn
      /\ culled' = culled /\ cuts' = cuts
      /\ known' = IF todo' = <<>> THEN md ELSE known
      /\ meta' = IF c.does = "open_meta" THEN [lines |-> <<>>, killed |-> FALSE] ELSE None
  BY <1>1, <1>2 DEF SystemCall, MetaAfter, DefaultAfter, StoreAfter
<1>4. ReadBack' = None /\ (meta' # None => GoodFile(meta')) /\ FilePin' = FilePin
  <2>1. ReadBack' = Read(meta', dfl') /\ FilePin' = FilePin
    BY <1>3, ReadBackIs
  <2>2. CASE c.does = "open_meta"
    BY <1>3, <2>1, <2>2, EmptyRead
  <2>3. CASE c.does # "open_meta"
    BY <1>3, <2>1, <2>3 DEF Read, Parsed
  <2> QED
    BY <2>1, <2>2, <2>3
<1>5. Agrees(known)
  BY <1>1, <1>2 DEF IInv, OnDisk, Doing
<1>6. /\ c.does = "open_meta" =>
           Links(todo, md, known) \/ Makes(todo, md, known) \/ Keeps(todo, md, known)
      /\ c.does = "unlink_meta" => Purges(todo, md, known)
  BY <1>2, HeadPlan
<1>7. todo' # <<>> => c.does = "open_meta" /\ todo'[1].does = "put_lines"
  BY <1>2 DEF Follows
<1>8. todo' = <<>> => c.does = "unlink_meta" /\ md = None
  BY <1>2, <1>6 DEF Links, Makes, Keeps, Purges
<1>9. \A i \in DOMAIN todo : todo[i].does # "unlink"
  BY <1>2, UnlinksFirst
<1>10. \A i \in DOMAIN todo : \A s : todo[i] # Call("unlink", s)
  BY <1>9 DEF Call
<1>11. Typed'
  BY <1>3, <1>4, <1>8 DEF IInv, Typed
<1>12. OnDisk'
  <2>1. todo' # <<>> => ReadBack' = None /\ PinAgrees(known)'
    <3>1. known # None => PinAgrees(known)
      BY <1>5 DEF Agrees
    <3> QED
      BY <1>3, <1>4, <3>1 DEF PinAgrees
  <2>2. todo' = <<>> => known' = Known' /\ Agrees(known)'
    BY <1>3, <1>4, <1>8 DEF Known, Agrees
  <2> QED
    BY <1>2, <1>7, <2>1, <2>2 DEF OnDisk, Doing
<1>13. Whole'
  BY <1>1, <1>2, <1>3, <1>4, NothingListed DEF IInv, Whole, Doing
<1>14. Gone'
  BY <1>2, <1>7 DEF Gone, Doing
<1>15. Loose' \subseteq Loose
  <2> SUFFICES ASSUME NEW s \in Vids, s \notin Serials(md),
                      store[s] # None \/ Doing({"mknod"})'
               PROVE  store[s] # None /\ s \notin Serials(ReadBack)
    BY <1>3 DEF Loose
  <2>1. store[s] # None
    BY <1>2, <1>7 DEF Doing
  <2>2. s \in Serials(ReadBack) => store[s] = None
    BY <1>1, <1>2, <1>10 DEF IInv, Gone, Doing
  <2> QED
    BY <2>1, <2>2
<1> QED
  BY <1>11, <1>12, <1>13, <1>14, <1>15, CallKeeps

(* The lines are written.                                                  *)
LEMMA PutLinesInv ==
  ASSUME IInv, SystemCall, Head(todo).does = "put_lines"
  PROVE  IInv'
<1>1. PICK c : c = Head(todo)
  OBVIOUS
<1>2. /\ c.does = "put_lines" /\ c.arg \in Metadata /\ c = todo[1]
      /\ todo # <<>> /\ 1 \in DOMAIN todo
      /\ Planned(todo, md, known)
      /\ \A i \in DOMAIN todo' : i + 1 \in DOMAIN todo /\ todo'[i] = todo[i + 1]
      /\ todo' # <<>> => Head(todo') = todo'[1] /\ Follows(c, todo'[1])
      /\ todo' = <<>> => \A does : EndsIn(todo, does) => c.does \in does
  BY <1>1, CallMade DEF ArgsOf
<1>3. /\ dfl' = dfl /\ md' = md /\ store' = store /\ daemon' = daemon /\ torn' = torn
      /\ culled' = culled /\ cuts' = cuts
      /\ known' = IF todo' = <<>> THEN md ELSE known
      /\ meta' = Image(c.arg)
  BY <1>1, <1>2 DEF SystemCall, MetaAfter, DefaultAfter, StoreAfter
<1>4. /\ Links(todo, md, known) \/ Makes(todo, md, known) \/ Keeps(todo, md, known)
      /\ SameList(md, c.arg)
  BY <1>2, HeadPlan
<1>5. md # None /\ GoodMetadata(md) /\ GoodMetadata(c.arg)
  BY <1>2, <1>4 DEF SameList, IInv, Typed, GoodMetadata
<1>6. SameList(md, ReadBack') /\ GoodFile(meta') /\ FilePin' = FilePin
  <2>1. SameList(c.arg, ReadBack')
    BY <1>3, <1>5, ReadBackIs, ImageRead DEF IInv, Typed
  <2>2. SameList(md, ReadBack')
    BY <1>4, <2>1 DEF SameList
  <2>3. FilePin' = FilePin
    BY <1>3 DEF FilePin
  <2> QED
    BY <1>3, <1>5, <2>2, <2>3, ImageGood
<1>7. Serials(ReadBack') = Serials(md)
  BY <1>6, SameListFacts
<1>8. ReadBack = None /\ PinAgrees(known)
  BY <1>1, <1>2 DEF IInv, OnDisk, Doing
<1>9. todo' # <<>> => todo'[1].does = "unlink_default"
  BY <1>2 DEF Follows
<1>10. todo' = <<>> => PinAgrees(md)
  <2>1. CASE Links(todo, md, known)
    BY <1>2, <2>1 DEF Links
  <2>2. CASE Makes(todo, md, known)
    BY <2>2 DEF Makes, PinAgrees
  <2>3. CASE Keeps(todo, md, known)
    <3>1. /\ md.dfl = known.dfl /\ Len(md.versions) <= Len(known.versions)
          /\ known.dfl = FilePin \/ (known.dfl = Unpinned /\ Len(known.versions) = 1)
      BY <1>8, <2>3 DEF Keeps, PinAgrees
    <3>2. Len(md.versions) \in Nat \ {0}
      BY <1>5, SeqFacts DEF GoodMetadata, GoodList
    <3>3. ASSUME Len(known.versions) = 1
          PROVE  Len(md.versions) = 1
      <4>1. PICK n \in Nat \ {0} : n = Len(md.versions)
        BY <3>2
      <4>2. n <= 1
        BY <3>1, <3>3, <4>1
      <4>3. n = 1
        BY ONLY n \in Nat \ {0}, <4>2
      <4> QED
        BY <4>1, <4>3
    <3> QED
      BY <3>1, <3>3 DEF PinAgrees
  <2> QED
    BY <1>4, <2>1, <2>2, <2>3
<1>11. Typed'
  BY <1>3, <1>5, <1>6 DEF IInv, Typed
<1>12. OnDisk'
  <2>1. PinAgrees(known)' /\ (todo' = <<>> => Agrees(known)' /\ known' = Known')
    <3>1. todo' # <<>> => PinAgrees(known)'
      BY <1>3, <1>6, <1>8 DEF PinAgrees
    <3>2. todo' = <<>> => PinAgrees(known)'
      BY <1>3, <1>6, <1>10 DEF PinAgrees
    <3>3. todo' = <<>> => Agrees(known)' /\ known' = Known'
      BY <1>3, <1>5, <1>6, <3>2 DEF Agrees, Known
    <3> QED
      BY <3>1, <3>2, <3>3
  <2>2. SameList(md, ReadBack)'
    BY <1>3, <1>6
  <2> QED
    BY <1>2, <1>9, <2>1, <2>2 DEF OnDisk, Doing
<1>13. Whole'
  <2>1. ~ culled => \A s \in Serials(md) : store[s] = "whole"
    BY <1>1, <1>2 DEF IInv, Whole, Doing
  <2>2. ~ culled => \A i \in DOMAIN todo' : todo'[i].does # "unlink"
    BY <1>2 DEF IInv, Whole
  <2> QED
    BY <1>3, <1>7, <2>1, <2>2 DEF Whole
<1>14. Gone'
  BY <1>2, <1>9 DEF Gone, Doing
<1>15. Loose' \subseteq Loose
  <2> SUFFICES ASSUME NEW s \in Vids, s \notin Serials(md),
                      store[s] # None \/ Doing({"mknod"})'
               PROVE  store[s] # None /\ s \notin Serials(ReadBack)
    BY <1>3 DEF Loose
  <2>1. store[s] # None
    BY <1>2, <1>9 DEF Doing
  <2> QED
    BY <1>8, <2>1, NothingListed
<1> QED
  BY <1>11, <1>12, <1>13, <1>14, <1>15, CallKeeps

(* The default file is made, written or removed.                           *)
LEMMA DefaultCallInv ==
  ASSUME IInv, SystemCall,
         Head(todo).does \in {"open_default", "put_default", "unlink_default"}
  PROVE  IInv'
<1>1. PICK c : c = Head(todo)
  OBVIOUS
<1>2. /\ c.does \in {"open_default", "put_default", "unlink_default"}
      /\ c.does = "put_default" => c.arg \in Pin
      /\ c = todo[1] /\ todo # <<>> /\ 1 \in DOMAIN todo
      /\ Planned(todo, md, known)
      /\ \A i \in DOMAIN todo' : i + 1 \in DOMAIN todo /\ todo'[i] = todo[i + 1]
      /\ todo' # <<>> => Head(todo') = todo'[1] /\ Follows(c, todo'[1])
      /\ todo' = <<>> => \A does : EndsIn(todo, does) => c.does \in does
  BY <1>1, CallMade DEF ArgsOf
<1>3. /\ meta' = meta /\ md' = md /\ store' = store /\ daemon' = daemon /\ torn' = torn
      /\ culled' = culled /\ cuts' = cuts
      /\ known' = IF todo' = <<>> THEN md ELSE known
      /\ dfl' = DefaultAfter(c)
  BY <1>1, <1>2 DEF SystemCall, MetaAfter, StoreAfter
<1>4. /\ c.does = "open_default" => dfl' = Blank
      /\ c.does = "put_default" => dfl' = c.arg
      /\ c.does = "unlink_default" => dfl' = None
  BY <1>3 DEF DefaultAfter
<1>5. dfl' \in Pin \cup {None, Blank}
  BY <1>2, <1>4
<1>6. /\ Links(todo, md, known) \/ Relocks(todo, md, known)
      /\ c.does = "open_default" => Relocks(todo, md, known)
      /\ c.does = "put_default" => c.arg = md.dfl
      /\ c.does = "unlink_default" => md.dfl = Unpinned
  BY <1>2, HeadPlan DEF Links
<1>7. md # None
  BY <1>6 DEF Links, Relocks, SameList
<1>8. SameList(md, ReadBack)
  <2>1. CASE c.does = "open_default"
    <3>1. Agrees(known)
      BY <1>1, <1>2, <2>1 DEF IInv, OnDisk, Doing
    <3>2. SameList(md, known)
      BY <1>6, <2>1 DEF Relocks
    <3> QED
      BY <3>1, <3>2 DEF Agrees, SameList
  <2>2. CASE c.does # "open_default"
    BY <1>1, <1>2, <2>2 DEF IInv, OnDisk, Doing
  <2> QED
    BY <2>1, <2>2
<1>9. SameList(md, ReadBack') /\ Serials(ReadBack') = Serials(ReadBack)
  <2>1. /\ meta # None => GoodFile(meta)
        /\ dfl \in Pin \cup {None, Blank}
        /\ ReadBack = Read(meta, dfl) /\ ReadBack' = Read(meta, dfl')
    BY <1>3, ReadBackIs DEF IInv, Typed
  <2>2. (\A m : SameList(m, ReadBack) => SameList(m, ReadBack'))
        /\ Serials(ReadBack') = Serials(ReadBack)
    BY <1>5, <2>1, DefaultApart
  <2> QED
    BY <1>8, <2>2
<1>10. todo' # <<>> => c.does = "open_default" /\ todo'[1].does = "put_default"
  BY <1>2 DEF Follows
<1>11. todo' = <<>> => c.does # "open_default"
  BY <1>2, <1>6 DEF Links, Relocks
<1>12. todo' = <<>> => PinAgrees(md)'
  <2>1. CASE c.does = "put_default"
    <3>1. FilePin' = md.dfl
      BY <1>2, <1>4, <1>6, <2>1, NoneAssumption, CommitAssumption DEF FilePin
    <3> QED
      BY <1>3, <3>1 DEF PinAgrees
  <2>2. CASE c.does = "unlink_default"
    <3>1. FilePin' = md.dfl
      BY <1>4, <1>6, <2>2 DEF FilePin
    <3> QED
      BY <1>3, <3>1 DEF PinAgrees
  <2> QED
    BY <1>2, <1>11, <2>1, <2>2
<1>13. Typed'
  BY <1>3, <1>5, <1>7 DEF IInv, Typed
<1>14. OnDisk'
  <2>1. todo' = <<>> => Agrees(known)' /\ known' = Known'
    <3>1. todo' = <<>> => known' = md /\ md' = md /\ PinAgrees(md)'
      BY <1>3, <1>12
    <3>2. todo' = <<>> => PinAgrees(known)'
      BY <3>1 DEF PinAgrees
    <3> QED
      BY <1>7, <1>9, <3>1, <3>2 DEF Agrees, Known
  <2>2. SameList(md, ReadBack)'
    BY <1>3, <1>9
  <2>3. todo' # <<>> => dfl' = Blank
    BY <1>4, <1>10
  <2> QED
    BY <1>2, <1>10, <2>1, <2>2, <2>3 DEF OnDisk, Doing
<1>15. Whole'
  <2>1. ~ culled => /\ \A s \in Serials(md) : store[s] = "whole"
                    /\ \A s \in Serials(ReadBack) : store[s] = "whole"
    BY <1>1, <1>2 DEF IInv, Whole, Doing
  <2>2. ~ culled => \A i \in DOMAIN todo' : todo'[i].does # "unlink"
    BY <1>2 DEF IInv, Whole
  <2> QED
    BY <1>3, <1>9, <2>1, <2>2 DEF Whole
<1>16. Gone'
  BY <1>2, <1>10 DEF Gone, Doing
<1>17. Loose' \subseteq Loose
  <2> SUFFICES ASSUME NEW s \in Vids, s \notin Serials(md),
                      \/ store[s] # None /\ s \notin Serials(ReadBack)
                      \/ Doing({"mknod"})'
               PROVE  store[s] # None /\ s \notin Serials(ReadBack)
    BY <1>3, <1>9 DEF Loose
  <2> QED
    BY <1>2, <1>10 DEF Doing
<1> QED
  BY <1>13, <1>14, <1>15, <1>16, <1>17, CallKeeps

LEMMA SystemCallInv ==
  ASSUME IInv, SystemCall
  PROVE  IInv'
<1>1. Head(todo).does \in Does
  BY CallMade
<1> QED
  BY <1>1, StoreCallInv, MetaGoneInv, PutLinesInv, DefaultCallInv DEF Does

-----------------------------------------------------------------------------
(* The daemon dies, or is mounted again.                                   *)

(* A metadata file that was cut short lists versions that it listed.       *)
LEMMA TornListed ==
  ASSUME NEW m, GoodMetadata(m), NEW mf \in Torn(m)
  PROVE  \A i \in DOMAIN Reverse(mf.lines) :
           \E j \in DOMAIN m.versions : Reverse(mf.lines)[i] = m.versions[j]
<1>1. PICK n \in 0 .. Len(m.versions) :
        mf = [lines |-> SubSeq(Reverse(m.versions), 1, n), killed |-> FALSE]
  BY DEF Torn
<1>2. PICK vs \in Seq(Version) : vs = m.versions
  BY DEF GoodMetadata, GoodList
<1>3. /\ n \in 0 .. Len(vs) /\ Len(vs) \in Nat /\ DOMAIN vs = 1 .. Len(vs)
  BY <1>1, <1>2, SeqFacts
<1>4. PICK rev \in Seq(Version) :
        /\ rev = Reverse(vs) /\ Len(rev) = Len(vs)
        /\ \A i \in 1 .. Len(vs) : rev[i] = vs[Len(vs) - i + 1]
  BY <1>2, ReverseFacts
<1>5. PICK cut : cut = SubSeq(rev, 1, n)
  OBVIOUS
<1>6. cut \in Seq(Version) /\ Len(cut) = n /\ \A i \in 1 .. n : cut[i] = rev[i]
  BY ONLY <1>3, <1>4, <1>5
<1>7. PICK back : back = Reverse(cut)
  OBVIOUS
<1>8. /\ back \in Seq(Version) /\ Len(back) = n
      /\ \A i \in 1 .. n : back[i] = cut[n - i + 1]
  BY <1>6, <1>7, ReverseFacts
<1>9. DOMAIN back = 1 .. n
  BY <1>8, SeqFacts
<1>10. mf.lines = cut /\ Reverse(mf.lines) = back
  BY <1>1, <1>2, <1>4, <1>5, <1>7
<1>11. ASSUME NEW i \in DOMAIN back
       PROVE  \E j \in DOMAIN vs : back[i] = vs[j]
  <2>1. i \in 1 .. n
    BY <1>9
  <2>2. n - i + 1 \in 1 .. n /\ n - i + 1 \in 1 .. Len(vs)
        /\ Len(vs) - (n - i + 1) + 1 \in DOMAIN vs
    BY ONLY <1>3, <2>1
  <2>3. back[i] = vs[Len(vs) - (n - i + 1) + 1]
    BY <1>4, <1>6, <1>8, <2>1, <2>2
  <2> QED
    BY <2>2, <2>3
<1> QED
  BY <1>2, <1>10, <1>11

(* A callback adds no more than the backing file of the head.              *)
LEMMA PlannedSerials ==
  ASSUME NEW calls, NEW m, NEW k, Planned(calls, m, k),
         GoodMetadata(m), k # None => GoodMetadata(k)
  PROVE  Serials(m) \subseteq Serials(k) \cup {Head(m.versions).rfile}
<1> DEFINE s == Head(m.versions).rfile
<1>1. /\ m # None /\ Listed(m) = m.versions
      /\ Serials(m) = { m.versions[i].rfile : i \in DOMAIN m.versions }
  BY SerialsFacts DEF Serials
<1>2. k # None => Serials(k) = { k.versions[i].rfile : i \in DOMAIN k.versions }
  BY DEF Serials, Listed
<1>3. Head(m.versions) = m.versions[1]
  BY HeadFacts
<1>4. PICK vs \in Seq(Version) : vs = m.versions /\ vs # <<>>
  BY DEF GoodMetadata, GoodList
<1>5. CASE Links(calls, m, k)
  <2>1. k # None /\ k.versions = Tail(vs)
    BY <1>4, <1>5 DEF Links
  <2>2. \A i \in DOMAIN vs : i = 1 \/ (i - 1 \in DOMAIN Tail(vs) /\ vs[i] = Tail(vs)[i - 1])
    BY ONLY vs \in Seq(Version), <1>4
  <2>3. ASSUME NEW i \in DOMAIN vs
        PROVE  vs[i].rfile \in Serials(k) \/ vs[i].rfile = s
    BY <1>2, <1>3, <1>4, <2>1, <2>2
  <2> QED
    BY <1>1, <1>4, <2>3
<1>6. CASE Makes(calls, m, k)
  <2>1. Len(vs) = 1
    BY <1>4, <1>6 DEF Makes
  <2>2. \A i \in DOMAIN vs : i = 1
    BY ONLY vs \in Seq(Version), <2>1
  <2> QED
    BY <1>1, <1>3, <1>4, <2>2
<1>7. CASE Keeps(calls, m, k)
  <2>1. /\ k # None /\ Len(m.versions) <= Len(k.versions)
        /\ \A i \in DOMAIN m.versions : m.versions[i] = k.versions[i]
    BY <1>7 DEF Keeps
  <2>2. k.versions \in Seq(Version)
    BY <2>1 DEF GoodMetadata, GoodList
  <2>3. \A i \in DOMAIN m.versions : i \in DOMAIN k.versions
    <3>1. /\ DOMAIN m.versions = 1 .. Len(m.versions) /\ Len(m.versions) \in Nat
          /\ DOMAIN k.versions = 1 .. Len(k.versions) /\ Len(k.versions) \in Nat
      BY <1>4, <2>2, SeqFacts
    <3> QED
      BY <2>1, <3>1
  <2> QED
    BY <1>1, <1>2, <2>1, <2>3
<1>8. CASE Relocks(calls, m, k)
  BY <1>8, SameListFacts DEF Relocks
<1>9. CASE Skips(calls, m, k)
  BY <1>9 DEF Skips
<1>10. CASE Purges(calls, m, k)
  BY <1>1, <1>10 DEF Purges
<1> QED
  BY <1>5, <1>6, <1>7, <1>8, <1>9, <1>10 DEF Planned

LEMMA KilledInv ==
  ASSUME IInv, Killed
  PROVE  IInv'
<1>1. /\ md' = None /\ todo' = <<>> /\ daemon' = "killed" /\ dfl' = dfl
      /\ store' = store /\ culled' = culled
      /\ known' = ReadBack' /\ Known' = ReadBack'
      /\ cuts' = (IF todo = <<>> THEN cuts ELSE cuts + 1) /\ cuts' <= MaxCuts
  BY DEF Killed, Down, Known
<1>2. /\ Rewriting => torn' = TRUE /\ meta' \in Torn(Head(todo).arg)
      /\ ~ Rewriting => meta' = meta /\ torn' = torn
  BY DEF Killed
<1>3. Rewriting =>
        /\ GoodMetadata(Head(todo).arg) /\ SameList(md, Head(todo).arg)
        /\ md # None /\ Doing({"put_lines"})
  <2> SUFFICES ASSUME Rewriting
               PROVE  /\ GoodMetadata(Head(todo).arg) /\ SameList(md, Head(todo).arg)
                      /\ md # None /\ Doing({"put_lines"})
    OBVIOUS
  <2>1. /\ todo # <<>> /\ Head(todo).does = "put_lines" /\ Doing({"put_lines"})
        /\ Planned(todo, md, known)
    BY DEF Rewriting, Doing, IInv
  <2>2. Head(todo) = todo[1] /\ 1 \in DOMAIN todo /\ Head(todo) \in Calls
    BY <2>1, TailFacts DEF Planned, Sequenced
  <2>3. Head(todo).arg \in Metadata
    BY <2>1, <2>2, CallFacts DEF ArgsOf
  <2>4. SameList(md, Head(todo).arg)
    BY <2>1, <2>2 DEF Planned, ForFile
  <2>5. md # None /\ GoodMetadata(md)
    BY <2>4 DEF SameList, IInv, Typed
  <2> QED
    BY <2>1, <2>3, <2>4, <2>5 DEF SameList, GoodMetadata
<1>4. meta' # None => GoodFile(meta')
  BY <1>2, <1>3, TornGood DEF IInv, Typed
<1>5. /\ FilePin' = FilePin /\ FilePin \in Pin
      /\ ReadBack' # None => GoodMetadata(ReadBack') /\ ReadBack'.dfl = FilePin'
  <2>1. dfl' \in Pin \cup {None, Blank}
    BY <1>1 DEF IInv, Typed
  <2> QED
    BY <1>1, <1>4, <2>1, ReadBackIs, ReadFacts
<1>6. Typed'
  <2>1. cuts' \in 0 .. MaxCuts
    BY <1>1, CommitAssumption DEF IInv, Typed
  <2>2. torn' \in BOOLEAN
    BY <1>2 DEF IInv, Typed
  <2> QED
    BY <1>1, <1>4, <1>5, <2>1, <2>2 DEF IInv, Typed
<1>7. OnDisk'
  <2>1. Agrees(known)'
    <3>1. known' # None => SameList(known', ReadBack')
      BY <1>1 DEF SameList
    <3>2. PinAgrees(known)'
      BY <1>1, <1>5 DEF PinAgrees
    <3> QED
      BY <1>1, <3>1, <3>2 DEF Agrees
  <2> QED
    BY <1>1, <2>1 DEF OnDisk, Doing
<1>8. Serials(ReadBack') \subseteq Serials(ReadBack) \cup Serials(md)
      /\ (~ Rewriting => Serials(ReadBack') = Serials(ReadBack))
  <2>1. CASE ~ Rewriting
    BY <1>1, <1>2, <2>1, ReadBackIs
  <2>2. CASE Rewriting
    <3>1. PICK m : m = Head(todo).arg /\ GoodMetadata(m) /\ SameList(md, m)
      BY <1>3, <2>2
    <3>2. PICK vs \in Seq(Version) : vs = m.versions
      BY <3>1 DEF GoodMetadata, GoodList
    <3>3. PICK back : back = Reverse(meta'.lines)
      OBVIOUS
    <3>8. \A i \in DOMAIN back : \E j \in DOMAIN vs : back[i] = vs[j]
      BY <1>2, <2>2, <3>1, <3>2, <3>3, TornListed
    <3>9. ReadBack' # None => Listed(ReadBack') = back
      <4>1. dfl' \in Pin \cup {None, Blank}
        BY <1>1 DEF IInv, Typed
      <4>2. ReadBack' # None => ReadBack'.versions = Reverse(meta'.lines)
        BY <1>4, <4>1, ReadBackIs, ReadFacts
      <4> QED
        BY <3>3, <4>2 DEF Listed
    <3>10. Listed(md) = vs
      BY <1>3, <2>2, <3>1, <3>2 DEF SameList, Listed
    <3>11. Serials(ReadBack') \subseteq Serials(md)
      <4>1. CASE ReadBack' = None
        BY <4>1, NothingListed
      <4>2. CASE ReadBack' # None
        <5>1. Serials(ReadBack') = { back[i].rfile : i \in DOMAIN back }
          BY <3>9, <4>2 DEF Serials
        <5>2. Serials(md) = { vs[i].rfile : i \in DOMAIN vs }
          BY <3>10 DEF Serials
        <5> QED
          BY <3>8, <5>1, <5>2
      <4> QED
        BY <4>1, <4>2
    <3> QED
      BY <2>2, <3>11
  <2> QED
    BY <2>1, <2>2
<1>9. Whole'
  <2>1. \A i \in DOMAIN todo' : FALSE
    BY <1>1
  <2>2. Serials(md') = {}
    BY <1>1, NothingListed
  <2>3. ASSUME ~ culled
        PROVE  \A s \in Serials(ReadBack') : store[s] = "whole"
    <3>1. \A s \in Serials(ReadBack) : store[s] = "whole"
      BY <2>3 DEF IInv, Whole
    <3>2. Rewriting => \A s \in Serials(md) : store[s] = "whole"
      BY <1>3, <2>3 DEF IInv, Whole, Doing
    <3> QED
      BY <1>8, <3>1, <3>2
  <2> QED
    BY <1>1, <2>1, <2>2, <2>3 DEF Whole
<1>10. Gone'
  BY <1>1 DEF Gone, Doing
<1>11. (~ torn => Cardinality(Loose) <= cuts)'
  <2> SUFFICES ASSUME ~ torn' PROVE Cardinality(Loose') <= cuts'
    OBVIOUS
  <2>1. ~ Rewriting /\ ~ torn
    BY <1>2
  <2>2. ReadBack' = ReadBack
    BY <1>1, <1>2, <2>1, ReadBackIs
  <2>3. Cardinality(Loose) <= cuts /\ cuts \in Nat /\ Loose \in SUBSET Vids
    BY <2>1, CommitAssumption DEF IInv, Typed, Loose
  <2>4. Loose' = { s \in Vids : store[s] # None /\ s \notin Serials(ReadBack) }
    BY <1>1, <2>2, NothingListed DEF Loose, Doing
  <2>5. CASE md = None \/ Serials(md) = Serials(ReadBack)
    <3>1. Loose' \in SUBSET Loose
      BY <2>4, <2>5, NothingListed DEF Loose
    <3>2. Cardinality(Loose') <= cuts /\ Cardinality(Loose') \in Nat
      <4>1. Loose' \in SUBSET Vids
        BY <2>4
      <4> QED
        BY <2>3, <3>1, <4>1, CardinalitySub, SerialsFinite
    <3> QED
      BY <1>1, <2>3, <3>2
  <2>6. CASE md # None /\ Serials(md) # Serials(ReadBack)
    <3>1. GoodMetadata(md) /\ Head(md.versions).rfile \in Vids
      BY <2>6, HeadFacts DEF IInv, Typed, Version
    <3>2. todo # <<>> /\ Serials(known) = Serials(ReadBack)
      <4>1. todo # <<>>
        <5> SUFFICES ASSUME todo = <<>> PROVE FALSE
          OBVIOUS
        <5> QED
          BY <2>6, ReadyFacts
      <4>2. Head(todo).does \in Does
        <5>1. Head(todo) \in Calls
          BY <4>1, TailFacts DEF IInv, Planned, Sequenced
        <5> QED
          BY <5>1, CallFacts
      <4>3. Head(todo).does \notin {"put_default", "unlink_default"}
        <5> SUFFICES ASSUME Head(todo).does \in {"put_default", "unlink_default"} PROVE FALSE
          OBVIOUS
        <5>1. SameList(md, ReadBack)
          BY <4>1 DEF IInv, OnDisk, Doing
        <5> QED
          BY <2>6, <5>1, SameListFacts
      <4>4. Agrees(known)
        BY <2>1, <4>1, <4>2, <4>3 DEF IInv, OnDisk, Doing, Rewriting, Does
      <4> QED
        BY <4>1, <4>4, AgreesFacts
    <3>3. Serials(md) \subseteq Serials(ReadBack) \cup {Head(md.versions).rfile}
      BY <2>6, <3>1, <3>2, PlannedSerials DEF IInv, Typed
    <3>4. Loose' \in SUBSET (Loose \cup {Head(md.versions).rfile})
      BY <2>4, <3>3 DEF Loose
    <3>5. cuts' = cuts + 1
      BY <1>1, <3>2
    <3> QED
      BY <2>3, <3>1, <3>4, <3>5, CardinalityAdd
  <2> QED
    BY <2>5, <2>6
<1> QED
  BY <1>1, <1>6, <1>7, <1>9, <1>10, <1>11 DEF IInv

(* A lookup that crashes the daemon: memory is empty and nothing is done.  *)
LEMMA LookupCrashesInv ==
  ASSUME IInv, LookupCrashes
  PROVE  IInv'
<1>1. /\ todo = <<>> /\ md = None /\ meta' = meta /\ torn' = torn /\ cuts' = cuts
      /\ md' = None /\ todo' = <<>> /\ daemon' = "crashed" /\ dfl' = dfl
      /\ store' = store /\ culled' = culled /\ known' = ReadBack'
  BY DEF LookupCrashes, Down, ReadingCrashes
<1>2. ReadBack' = ReadBack /\ FilePin' = FilePin
  BY <1>1, ReadBackIs
<1>3. known = ReadBack /\ known' = known /\ Known' = known
  BY <1>1, <1>2 DEF IInv, OnDisk, Known
<1>4. Typed'
  BY <1>1, <1>3 DEF IInv, Typed
<1>5. OnDisk'
  BY <1>1, <1>2, <1>3 DEF IInv, OnDisk, Doing, Agrees, PinAgrees
<1>6. Whole' /\ Gone'
  BY <1>1, <1>2 DEF IInv, Whole, Gone, Doing
<1>7. Loose' = Loose
  BY <1>1, <1>2 DEF Loose, Doing
<1> QED
  BY <1>1, <1>4, <1>5, <1>6, <1>7 DEF IInv

LEMMA MountInv ==
  ASSUME IInv, Mount
  PROVE  IInv'
<1>1. /\ daemon' = "up" /\ UNCHANGED <<md, meta, dfl, store, todo, known, torn, culled, cuts>>
  BY DEF Mount, disk
<1>2. ReadBack' = ReadBack /\ FilePin' = FilePin /\ Known' = Known
  BY <1>1, ReadBackIs DEF Known
<1>3. Typed'
  BY <1>1 DEF IInv, Typed
<1>4. OnDisk'
  BY <1>1, <1>2 DEF IInv, OnDisk, Doing, Agrees, PinAgrees
<1>5. Whole' /\ Gone'
  BY <1>1, <1>2 DEF IInv, Whole, Gone, Doing
<1>6. Loose' = Loose
  BY <1>1, <1>2 DEF Loose, Doing
<1>7. todo' # <<>> => Planned(todo, md, known)'
  BY <1>1 DEF IInv
<1> QED
  BY <1>1, <1>3, <1>4, <1>5, <1>6, <1>7 DEF IInv

(* A second passes.                                                        *)
LEMMA TickInv ==
  ASSUME IInv, Tick
  PROVE  IInv'
<1>1. /\ todo = <<>> /\ md # None /\ todo' = <<>>
      /\ md' = [md EXCEPT !.recent = FALSE] /\ known' = md'
      /\ UNCHANGED <<meta, dfl, store, daemon, torn, culled, cuts>>
  BY DEF Tick, disk
<1>2. ReadBack' = ReadBack /\ FilePin' = FilePin
  BY <1>1, ReadBackIs
<1>3. GoodMetadata(md) /\ md = Known /\ Agrees(md)
  BY <1>1 DEF IInv, Typed, OnDisk, Known
<1>4. GoodMetadata(md') /\ SameList(md', md) /\ md'.dfl = md.dfl
  BY <1>1, <1>3, RecentGood
<1>5. md' # None /\ Serials(md') = Serials(md)
  BY <1>4, SameListFacts DEF SameList
<1>6. Typed'
  BY <1>1, <1>4 DEF IInv, Typed
<1>7. OnDisk'
  <2>1. SameList(md', ReadBack) /\ PinAgrees(md)
    BY <1>1, <1>3, <1>4 DEF Agrees, SameList
  <2>2. md'.dfl = FilePin \/ (md'.dfl = Unpinned /\ Len(md'.versions) = 1)
    BY <1>1, <1>4, <2>1 DEF PinAgrees, SameList
  <2>3. Agrees(known)'
    BY <1>1, <1>2, <1>5, <2>1, <2>2 DEF Agrees, PinAgrees
  <2>4. known' = Known'
    BY <1>1, <1>5 DEF Known
  <2> QED
    BY <1>1, <2>3, <2>4 DEF OnDisk, Doing
<1>8. Whole' /\ Gone'
  BY <1>1, <1>2, <1>5 DEF IInv, Whole, Gone, Doing
<1>9. Loose' = Loose
  BY <1>1, <1>2, <1>5 DEF Loose, Doing
<1> QED
  BY <1>1, <1>6, <1>7, <1>8, <1>9 DEF IInv

-----------------------------------------------------------------------------
(* The inductive invariant.                                                *)

LEMMA InitInv == Init => IInv
<1> SUFFICES ASSUME Init PROVE IInv
  OBVIOUS
<1>1. /\ md = None /\ meta = None /\ dfl = None /\ store = [s \in Vids |-> None]
      /\ todo = <<>> /\ daemon = "up" /\ known = None /\ torn = FALSE
      /\ culled = FALSE /\ cuts = 0
  BY DEF Init
<1>2. ReadBack = None
  BY <1>1 DEF ReadBack, Parsed
<1>3. Typed
  <2>1. store \in [Vids -> {None, "partial", "whole"}]
    BY <1>1
  <2>2. cuts \in 0 .. MaxCuts
    BY <1>1, CommitAssumption
  <2>3. dfl \in Pin \cup {None, Blank}
    BY <1>1
  <2> QED
    BY <1>1, <2>1, <2>2, <2>3 DEF Typed
<1>4. OnDisk
  BY <1>1, <1>2 DEF OnDisk, Agrees, Known, Doing
<1>5. Whole /\ Gone
  <2>1. DOMAIN todo = {}
    BY <1>1
  <2> QED
    BY <1>1, <1>2, <2>1, NothingListed DEF Whole, Gone, Doing
<1>6. Loose = {}
  <2>1. \A s \in Vids : store[s] = None
    BY <1>1
  <2> QED
    BY <1>1, <2>1 DEF Loose, Doing
<1>7. Cardinality(Loose) <= cuts
  BY <1>1, <1>6, FS_EmptySet
<1> QED
  BY <1>1, <1>3, <1>4, <1>5, <1>7 DEF IInv

LEMMA NextInv == IInv /\ [Next]_vars => IInv'
<1> SUFFICES ASSUME IInv, [Next]_vars PROVE IInv'
  OBVIOUS
<1>1. CASE UNCHANGED vars
  <2>1. UNCHANGED <<md, meta, dfl, store, todo, daemon, known, torn, culled, cuts>>
    BY <1>1 DEF vars
  <2>2. ReadBack' = ReadBack /\ FilePin' = FilePin /\ Known' = Known
    BY <2>1, ReadBackIs DEF Known
  <2>3. Typed'
    BY <2>1 DEF IInv, Typed
  <2>4. OnDisk'
    BY <2>1, <2>2 DEF IInv, OnDisk, Doing, Agrees, PinAgrees
  <2>5. Whole' /\ Gone'
    BY <2>1, <2>2 DEF IInv, Whole, Gone, Doing
  <2>6. Loose' = Loose
    BY <2>1, <2>2 DEF Loose, Doing
  <2>7. todo' # <<>> => Planned(todo, md, known)'
    BY <2>1 DEF IInv
  <2> QED
    BY <2>1, <2>3, <2>4, <2>5, <2>6, <2>7 DEF IInv
<1>2. ASSUME NEW mode \in Modes, NEW uid \in Users, Create(mode, uid) PROVE IInv'
  BY <1>2, CreateInv
<1>3. ASSUME NEW mode \in Modes, NEW uid \in Users, Chmod(mode, uid) PROVE IInv'
  BY <1>3, ChmodInv
<1>4. ASSUME NEW cut \in BOOLEAN, OpenOrTruncate(cut) PROVE IInv'
  BY <1>4, OpenOrTruncateInv
<1>5. CASE Unlink
  BY <1>5, UnlinkInv
<1>6. ASSUME NEW pin \in Locks, Lock(pin) PROVE IInv'
  BY <1>6, LockInv
<1>7. CASE PurgeAll
  BY <1>7, PurgeAllInv
<1>8. ASSUME NEW n \in 0 .. MaxLen, PurgeOldest(n) PROVE IInv'
  BY <1>8, PurgeOldestInv
<1>9. CASE SystemCall
  BY <1>9, SystemCallInv
<1>10. CASE Killed
  BY <1>10, KilledInv
<1>11. CASE LookupCrashes
  BY <1>11, LookupCrashesInv
<1>12. CASE Mount
  BY <1>12, MountInv
<1>13. CASE Tick
  BY <1>13, TickInv
<1> QED
  BY <1>1, <1>2, <1>3, <1>4, <1>5, <1>6, <1>7, <1>8, <1>9, <1>10, <1>11, <1>12, <1>13
     DEF Next

(* Every reachable state satisfies the inductive invariant.                *)
LEMMA Invariance == Spec => []IInv
  BY InitInv, NextInv, PTL DEF Spec

-----------------------------------------------------------------------------
(* What the runs check, for every value of the constants.                  *)

(* Memory, the metadata file, the default file and the backing files keep  *)
(* their types in every cut a callback can suffer.                         *)
THEOREM TypeCorrect == Spec => []TypeOK
<1>1. IInv => TypeOK
  <2> SUFFICES ASSUME IInv PROVE TypeOK
    OBVIOUS
  <2>1. md \in Metadata \cup {None} /\ known \in Metadata \cup {None}
    BY DEF IInv, Typed, GoodMetadata
  <2>2. meta \in MetaFile \cup {None}
    BY DEF IInv, Typed, GoodFile
  <2>3. \A i \in DOMAIN todo : todo[i].does \in Does
    <3>1. CASE todo = <<>>
      BY <3>1
    <3>2. CASE todo # <<>>
      <4>1. \A i \in DOMAIN todo : todo[i] \in Calls
        BY <3>2, SeqFacts DEF IInv, Planned, Sequenced
      <4> QED
        BY <4>1, CallFacts
    <3> QED
      BY <3>1, <3>2
  <2> QED
    BY <2>1, <2>2, <2>3 DEF IInv, Typed, TypeOK
<1> QED
  BY <1>1, Invariance, PTL

(* Until a purge begins, every version that a mount would read from the    *)
(* metadata file has a backing file with all of its contents, in every     *)
(* state the daemon can be killed in and however often it was killed.      *)
THEOREM ListedAreWhole == Spec => []ListedIsWhole
<1>1. IInv => ListedIsWhole
  BY DEF IInv, Whole, ListedIsWhole
<1> QED
  BY <1>1, Invariance, PTL

(* Outside the rewriting of the metadata file the disk has what the        *)
(* callback found, or it has the list it leaves and only the lock is       *)
(* missing.                                                                *)
LEMMA Settled ==
  ASSUME IInv, ~ Rewriting
  PROVE  \/ Agrees(known)
         \/ SameList(md, ReadBack) /\ Doing({"put_default", "unlink_default"})
<1>1. CASE todo = <<>>
  BY <1>1 DEF IInv, OnDisk
<1>2. CASE todo # <<>>
  <2>1. Head(todo).does \in Does
    <3>1. Head(todo) \in Calls
      BY <1>2, TailFacts DEF IInv, Planned, Sequenced
    <3> QED
      BY <3>1, CallFacts
  <2> QED
    BY <1>2, <2>1 DEF IInv, OnDisk, Doing, Rewriting, Does
<1> QED
  BY <1>1, <1>2

(* A callback that is cut off has or has not changed the file's history,   *)
(* unless it is cut off while write_metadata_file rewrites the file.       *)
THEOREM HistoryWholeOrNot == Spec => []HistoryOldOrNew
<1>1. IInv => HistoryOldOrNew
  <2> SUFFICES ASSUME IInv, ~ Rewriting
               PROVE  Listed(ReadBack) \in {Listed(known), Listed(md)}
    BY DEF HistoryOldOrNew
  <2> QED
    BY Settled, AgreesFacts, SameListFacts
<1> QED
  BY <1>1, Invariance, PTL

(* The same of what is shown: metadata that agrees with the disk shows     *)
(* what a mount would show.                                                *)
LEMMA AgreesShown ==
  ASSUME IInv, NEW m, m # None => GoodMetadata(m), Agrees(m)
  PROVE  Shown(ReadBack) = Shown(m)
<1>1. CASE m = None
  BY <1>1 DEF Agrees, Shown
<1>2. CASE m # None
  <2>1. PICK r : r = ReadBack
    OBVIOUS
  <2>2. /\ r # None /\ r.versions = m.versions /\ r.deleted = m.deleted
        /\ m.dfl = FilePin \/ (m.dfl = Unpinned /\ Len(m.versions) = 1)
    BY <1>2, <2>1 DEF Agrees, SameList, PinAgrees
  <2>3. GoodMetadata(r) /\ r.dfl = FilePin
    BY <2>1, <2>2, ReadBackIs, ReadFacts DEF IInv, Typed
  <2>4. Current(r) = Current(m)
    <3>1. m.dfl = FilePin => Current(r) = Current(m)
      BY <1>2, <2>2, <2>3, CurrentFollows
    <3>2. Len(m.versions) = 1 =>
            Current(r) = Head(m.versions) /\ Current(m) = Head(m.versions)
      BY <1>2, <2>2, <2>3, CurrentFollows
    <3> QED
      BY <2>2, <3>1, <3>2
  <2> QED
    BY <1>2, <2>1, <2>2, <2>4 DEF Shown
<1> QED
  BY <1>1, <1>2

LEMMA SecondOf ==
  ASSUME NEW S, NEW q \in Seq(S), Len(q) = 2
  PROVE  Head(Tail(q)) = q[2]
<1>1. PICK r : r = Tail(q)
  OBVIOUS
<1>2. /\ r \in Seq(S) /\ Len(r) = 1
      /\ \A i \in DOMAIN r : r[i] = q[i + 1]
  BY <1>1
<1>3. r # <<>> /\ 1 \in DOMAIN r
  BY <1>2
<1>4. Head(r) = r[1]
  BY <1>2, <1>3
<1> QED
  BY <1>1, <1>2, <1>3, <1>4

(* A version is linked and the lock not yet released: what is shown is the *)
(* new version or what was shown before.                                   *)
LEMMA LinkedShown ==
  ASSUME IInv, Doing({"unlink_default"}), Links(todo, md, known),
         known.deleted => dfl = None
  PROVE  Shown(ReadBack) \in {Shown(known), Shown(md)}
<1>1. PICK r : r = ReadBack
  OBVIOUS
<1>2. SameList(md, r) /\ PinAgrees(known)
  BY <1>1 DEF IInv, OnDisk
<1>3. /\ md # None /\ known # None
      /\ Tail(md.versions) = known.versions
      /\ md.dfl = Unpinned
      /\ ~ md.deleted
  BY DEF Links
<1>4. GoodMetadata(md) /\ GoodMetadata(known)
  BY <1>3 DEF IInv, Typed
<1>5. r # None /\ r.versions = md.versions /\ ~ r.deleted
  BY <1>2, <1>3 DEF SameList
<1>6. GoodMetadata(r) /\ r.dfl = FilePin
  BY <1>1, <1>5, ReadBackIs, ReadFacts DEF IInv, Typed
<1>7. Shown(r) = Current(r) /\ Shown(md) = Head(md.versions)
  <2>1. Current(md) = Head(md.versions)
    BY <1>3, <1>4, CurrentFollows
  <2> QED
    BY <1>3, <1>5, <2>1 DEF Shown
<1>8. CASE known.deleted
  <2>1. r.dfl = Unpinned
    BY <1>6, <1>8 DEF FilePin
  <2>2. Current(r) = Head(md.versions)
    BY <1>4, <1>5, <1>6, <2>1, CurrentFollows
  <2> QED
    BY <1>1, <1>7, <2>2
<1>9. CASE ~ known.deleted
  <2>1. Shown(known) = Current(known)
    BY <1>3, <1>9 DEF Shown
  <2>2. CASE known.dfl = FilePin
    <3>1. Tail(r.versions) = known.versions /\ r.dfl = known.dfl
      BY <1>3, <1>5, <1>6, <2>2
    <3>2. Current(r) \in {Head(r.versions), Current(known)}
      BY <1>4, <1>6, <3>1, CurrentOfTail
    <3> QED
      BY <1>1, <1>5, <1>7, <2>1, <3>2
  <2>3. CASE Len(known.versions) = 1
    <3>1. Current(known) = Head(known.versions)
      BY <1>4, <2>3, CurrentFollows
    <3>2. PICK vs \in Seq(Version) :
            vs = r.versions /\ vs # <<>> /\ Tail(vs) = known.versions
      BY <1>3, <1>5, <1>6 DEF GoodMetadata, GoodList
    <3>3. PICK i \in DOMAIN vs : Current(r) = vs[i]
      BY <1>6, <3>2, CurrentListed
    <3>4. Len(Tail(vs)) = 1
      BY <2>3, <3>2
    <3>5. vs[i] \in {Head(vs), Head(Tail(vs))}
      <4>1. Len(vs) = 2
        BY ONLY vs \in Seq(Version), <3>2, <3>4
      <4>2. i = 1 \/ i = 2
        BY <4>1
      <4>3. Head(Tail(vs)) = vs[2]
        BY <3>2, <4>1, SecondOf
      <4> QED
        BY <4>2, <4>3
    <3> QED
      BY <1>1, <1>5, <1>7, <2>1, <3>1, <3>2, <3>3, <3>5
  <2> QED
    BY <1>2, <1>3, <2>2, <2>3 DEF PinAgrees
<1> QED
  BY <1>8, <1>9

(* Nor does it show a third version of the file, locked or not, but for    *)
(* the emptied default file and the file created again beside one.         *)
THEOREM ServedWholeOrNot == Spec => []ServedOldOrNew
<1>1. IInv => ServedOldOrNew
  <2> SUFFICES ASSUME IInv, ~ Rewriting, dfl # Blank, ~ CreatedBesideDefault
               PROVE  Shown(ReadBack) \in {Shown(known), Shown(md)}
    BY DEF ServedOldOrNew
  <2>1. known # None => GoodMetadata(known)
    BY DEF IInv, Typed
  <2>2. CASE Agrees(known)
    BY <2>1, <2>2, AgreesShown
  <2>3. CASE SameList(md, ReadBack) /\ Doing({"unlink_default"})
    <3>1. Links(todo, md, known) \/ Relocks(todo, md, known)
      <4>1. /\ todo # <<>> /\ Planned(todo, md, known) /\ Head(todo) = todo[1]
            /\ 1 \in DOMAIN todo /\ todo[1].does = "unlink_default"
        BY <2>3, TailFacts DEF IInv, Doing, Planned, Sequenced
      <4> QED
        BY <4>1, HeadPlan
    <3>2. CASE Links(todo, md, known)
      <4>1. known.deleted => dfl = None
        BY <3>2 DEF Links, CreatedBesideDefault
      <4> QED
        BY <2>3, <3>2, <4>1, LinkedShown
    <3>3. CASE Relocks(todo, md, known)
      <4>1. SameList(md, known) /\ SameList(md, ReadBack)
        BY <2>3, <3>3 DEF Relocks
      <4>2. PinAgrees(known)
        BY <2>3 DEF IInv, OnDisk
      <4>3. Agrees(known)
        BY <4>1, <4>2 DEF SameList, Agrees
      <4> QED
        BY <2>1, <4>3, AgreesShown
    <3> QED
      BY <3>1, <3>2, <3>3
  <2>4. ~ Doing({"put_default"})
    BY DEF IInv, OnDisk
  <2> QED
    BY <2>2, <2>3, <2>4, Settled DEF Doing
<1> QED
  BY <1>1, Invariance, PTL

(* Each callback that is cut off leaves at most one backing file that no   *)
(* version lists, until lines of a metadata file are lost.                 *)
THEOREM OneStray == Spec => []OneStrayPerCut
<1>1. IInv => OneStrayPerCut
  <2> SUFFICES ASSUME IInv, ~ torn, todo = <<>>
               PROVE  Cardinality(Strays) <= cuts
    BY DEF OneStrayPerCut
  <2>1. ~ Doing({"mknod"})
    BY DEF Doing
  <2>2. md # None => Serials(md) = Serials(ReadBack)
    BY ReadyFacts
  <2>3. Strays = Loose
    BY <2>1, <2>2, NothingListed DEF Strays, Loose
  <2> QED
    BY <2>3 DEF IInv
<1> QED
  BY <1>1, Invariance, PTL
=============================================================================
