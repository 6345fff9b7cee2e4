--------------------------- MODULE VersionsProofs ---------------------------
(***************************************************************************)
(* Facts about the operators of Versions, for lists of any length: what    *)
(* keeps a version list in the order, on the serials and with the sharing  *)
(* that lookup.c and create.c rely on, and what write.c and parse.c make   *)
(* of such a list.  The proofs about the daemon and about the commit of    *)
(* its callbacks rest on them.                                             *)
(***************************************************************************)
EXTENDS Versions, TLAPS

(* Versions with one vid are on one backing file.                          *)
Sharing(vs) ==
  \A i, j \in DOMAIN vs : vs[i].vid = vs[j].vid => vs[i].rfile = vs[j].rfile

(* A version list as rcs_find_version and create_version_name need it.     *)
GoodList(vs) ==
  /\ vs \in Seq(Version)
  /\ Descending(vs)
  /\ SerialsBounded(vs)
  /\ Sharing(vs)

(* A version that may become the head of the list: its number is not below *)
(* the old head's, nor its serial above its number, and with the head's    *)
(* number comes the head's serial.                                         *)
Tops(v, vs) ==
  /\ v.vid >= Head(vs).vid
  /\ v.rfile <= v.vid
  /\ v.vid = Head(vs).vid => v.rfile = Head(vs).rfile

GoodMetadata(md) == md \in Metadata /\ md.versions # <<>> /\ GoodList(md.versions)

GoodFile(mf) == mf \in MetaFile /\ GoodList(Reverse(mf.lines))

-----------------------------------------------------------------------------
(* Lists.                                                                  *)

(* What Reverse of SequencesExt returns: a list of the same length, read   *)
(* from the other end.                                                     *)
LEMMA ReverseFacts ==
  ASSUME NEW S, NEW vs \in Seq(S)
  PROVE  /\ Reverse(vs) \in Seq(S)
         /\ Len(Reverse(vs)) = Len(vs)
         /\ \A i \in 1 .. Len(vs) : Reverse(vs)[i] = vs[Len(vs) - i + 1]
  BY DEF Reverse

(* Reversing a list twice gives it back: what write.c writes is what       *)
(* parse.c reads.                                                          *)
LEMMA ReverseTwice ==
  ASSUME NEW S, NEW vs \in Seq(S)
  PROVE  Reverse(Reverse(vs)) = vs
<1>1. /\ Reverse(Reverse(vs)) \in Seq(S)
      /\ Len(Reverse(Reverse(vs))) = Len(vs)
  BY ReverseFacts
<1>2. ASSUME NEW i \in 1 .. Len(vs)
      PROVE  Reverse(Reverse(vs))[i] = vs[i]
  <2>1. /\ Len(vs) - i + 1 \in 1 .. Len(vs)
        /\ Len(vs) - (Len(vs) - i + 1) + 1 = i
    OBVIOUS
  <2>2. /\ Reverse(vs) \in Seq(S) /\ Len(Reverse(vs)) = Len(vs)
        /\ Reverse(vs)[Len(vs) - i + 1] = vs[i]
    BY <2>1, ReverseFacts
  <2>3. Reverse(Reverse(vs))[i] = Reverse(vs)[Len(vs) - i + 1]
    BY <2>2 DEF Reverse
  <2> QED
    BY <2>2, <2>3
<1> QED
  BY <1>1, <1>2

(* A new head.                                                             *)
LEMMA ConsGood ==
  ASSUME NEW vs, GoodList(vs), vs # <<>>, NEW v \in Version, Tops(v, vs)
  PROVE  GoodList(<<v>> \o vs)
<1> DEFINE new == <<v>> \o vs
<1>1. new \in Seq(Version) /\ Len(new) = Len(vs) + 1
  BY DEF GoodList
<1>2. new[1] = v /\ \A i \in 2 .. Len(new) : i - 1 \in DOMAIN vs /\ new[i] = vs[i - 1]
  BY <1>1 DEF GoodList
<1>3. \A i \in DOMAIN vs : vs[i].vid \in Nat /\ vs[i].rfile \in Nat /\ vs[i].vid <= v.vid
  <2> TAKE i \in DOMAIN vs
  <2>1. vs[i] \in Version /\ vs[1] \in Version /\ Head(vs) = vs[1] /\ i \in 1 .. Len(vs)
    BY DEF GoodList
  <2>2. vs[1].vid >= vs[i].vid
    <3>1. CASE i = 1
      BY <2>1, <3>1, BoundsAssumption DEF Version, Vids
    <3>2. CASE i # 1
      BY <2>1, <3>2 DEF GoodList, Descending
    <3> QED
      BY <3>1, <3>2
  <2> QED
    BY <2>1, <2>2, BoundsAssumption DEF Version, Vids, Tops
<1>4. Descending(new)
  <2> SUFFICES ASSUME NEW i \in DOMAIN new, NEW j \in DOMAIN new, i < j
               PROVE  new[i].vid >= new[j].vid
    BY DEF Descending
  <2>1. j \in 2 .. Len(new) /\ i \in 1 .. Len(new)
    BY <1>1
  <2>2. CASE i = 1
    BY <1>2, <1>3, <2>1, <2>2 DEF Version, Vids
  <2>3. CASE i # 1
    <3>1. /\ i - 1 \in DOMAIN vs /\ new[i] = vs[i - 1]
          /\ j - 1 \in DOMAIN vs /\ new[j] = vs[j - 1]
          /\ i - 1 < j - 1
      BY <1>2, <2>1, <2>3
    <3> QED
      BY <3>1 DEF GoodList, Descending
  <2> QED
    BY <2>2, <2>3
<1>5. SerialsBounded(new)
  BY <1>1, <1>2 DEF GoodList, SerialsBounded, Tops
<1>6. ASSUME NEW i \in DOMAIN vs, vs[i].vid = v.vid
      PROVE  vs[i].rfile = v.rfile
  <2>1. 1 \in DOMAIN vs /\ Head(vs) = vs[1] /\ vs[1].vid \in Nat /\ vs[1].vid <= v.vid
    BY <1>3 DEF GoodList
  <2>2. vs[1].vid >= vs[i].vid
    <3>1. CASE i = 1
      BY <1>6, <2>1, <3>1
    <3>2. CASE i # 1
      BY <2>1, <3>2 DEF GoodList, Descending
    <3> QED
      BY <3>1, <3>2
  <2>3. v.vid \in Nat
    BY BoundsAssumption DEF Version, Vids
  <2>4. vs[1].vid = v.vid
    BY <1>6, <2>1, <2>2, <2>3
  <2>5. v.rfile = vs[1].rfile
    BY <2>1, <2>4 DEF Tops
  <2>6. vs[i].rfile = vs[1].rfile
    BY <1>6, <2>1, <2>4 DEF GoodList, Sharing
  <2> QED
    BY <2>5, <2>6
<1>7. Sharing(new)
  <2> SUFFICES ASSUME NEW i \in DOMAIN new, NEW j \in DOMAIN new,
                      new[i].vid = new[j].vid
               PROVE  new[i].rfile = new[j].rfile
    BY DEF Sharing
  <2>1. i \in 1 .. Len(new) /\ j \in 1 .. Len(new)
    BY <1>1
  <2>2. CASE i = 1 \/ j = 1
    BY <1>2, <1>6, <2>1, <2>2
  <2>3. CASE i # 1 /\ j # 1
    <3>1. /\ i - 1 \in DOMAIN vs /\ new[i] = vs[i - 1]
          /\ j - 1 \in DOMAIN vs /\ new[j] = vs[j - 1]
      BY <1>2, <2>1, <2>3
    <3> QED
      BY <3>1 DEF GoodList, Sharing
  <2> QED
    BY <2>2, <2>3
<1> QED
  BY <1>1, <1>4, <1>5, <1>7 DEF GoodList

(* The newest n versions, as a purge keeps them.                           *)
LEMMA PrefixGood ==
  ASSUME NEW vs, GoodList(vs), NEW n \in 0 .. Len(vs)
  PROVE  GoodList(SubSeq(vs, 1, n)) /\ (n # 0 => SubSeq(vs, 1, n) # <<>>)
<1>1. /\ SubSeq(vs, 1, n) \in Seq(Version)
      /\ Len(SubSeq(vs, 1, n)) = n
      /\ \A i \in 1 .. n : SubSeq(vs, 1, n)[i] = vs[i]
  BY DEF GoodList
<1> QED
  BY <1>1 DEF GoodList, Descending, SerialsBounded, Sharing

(* The oldest n versions, as a cut metadata file keeps them.               *)
LEMMA SuffixGood ==
  ASSUME NEW vs, GoodList(vs), NEW n \in 0 .. Len(vs)
  PROVE  /\ SubSeq(Reverse(vs), 1, n) \in Seq(Version)
         /\ GoodList(Reverse(SubSeq(Reverse(vs), 1, n)))
<1> DEFINE cut == SubSeq(Reverse(vs), 1, n)
           new == Reverse(cut)
<1>1. /\ Reverse(vs) \in Seq(Version) /\ Len(Reverse(vs)) = Len(vs)
      /\ \A i \in 1 .. Len(vs) : Reverse(vs)[i] = vs[Len(vs) - i + 1]
  BY ReverseFacts DEF GoodList
<1>2. /\ cut \in Seq(Version) /\ Len(cut) = n
      /\ \A i \in 1 .. n : cut[i] = vs[Len(vs) - i + 1]
  <2> DEFINE rev == Reverse(vs)
  <2>1. rev \in Seq(Version) /\ n \in 0 .. Len(rev)
    BY <1>1
  <2> HIDE DEF rev
  <2>2. /\ SubSeq(rev, 1, n) \in Seq(Version) /\ Len(SubSeq(rev, 1, n)) = n
        /\ \A i \in 1 .. n : SubSeq(rev, 1, n)[i] = rev[i]
    BY <2>1
  <2> QED
    BY <1>1, <2>2 DEF rev
<1>3. /\ new \in Seq(Version) /\ Len(new) = n
      /\ \A i \in 1 .. n : new[i] = cut[n - i + 1]
  <2> HIDE DEF cut
  <2> QED BY <1>2, ReverseFacts
<1>4. \A i \in 1 .. n : Len(vs) - n + i \in DOMAIN vs /\ new[i] = vs[Len(vs) - n + i]
  <2> HIDE DEF new, cut
  <2> TAKE i \in 1 .. n
  <2>1. n - i + 1 \in 1 .. n /\ Len(vs) \in Nat
    BY DEF GoodList
  <2>2. new[i] = vs[Len(vs) - (n - i + 1) + 1]
    BY <1>2, <1>3, <2>1
  <2>3. Len(vs) - (n - i + 1) + 1 = Len(vs) - n + i
    BY <2>1
  <2> QED
    BY <2>1, <2>2, <2>3 DEF GoodList
<1>5. DOMAIN new = 1 .. n /\ Len(vs) \in Nat
  BY <1>3 DEF GoodList
<1>6. Descending(new)
  <2> HIDE DEF new
  <2> SUFFICES ASSUME NEW i \in DOMAIN new, NEW j \in DOMAIN new, i < j
               PROVE  new[i].vid >= new[j].vid
    BY DEF Descending
  <2>1. Len(vs) - n + i < Len(vs) - n + j
    BY <1>5
  <2> QED
    BY <1>4, <1>5, <2>1 DEF GoodList, Descending
<1>7. SerialsBounded(new)
  <2> HIDE DEF new
  <2> QED BY <1>4, <1>5 DEF GoodList, SerialsBounded
<1>8. Sharing(new)
  <2> HIDE DEF new
  <2> SUFFICES ASSUME NEW i \in 1 .. n, NEW j \in 1 .. n, new[i].vid = new[j].vid
               PROVE  new[i].rfile = new[j].rfile
    BY <1>5 DEF Sharing
  <2>1. /\ Len(vs) - n + i \in DOMAIN vs /\ new[i] = vs[Len(vs) - n + i]
        /\ Len(vs) - n + j \in DOMAIN vs /\ new[j] = vs[Len(vs) - n + j]
    BY <1>4
  <2> QED
    BY <2>1 DEF GoodList, Sharing
<1> QED
  BY <1>2, <1>3, <1>6, <1>7, <1>8 DEF GoodList

-----------------------------------------------------------------------------
(* Metadata, in memory and as files.                                       *)

(* What write_metadata_file writes of good metadata is a good file.        *)
LEMMA ImageGood ==
  ASSUME NEW md, GoodMetadata(md)
  PROVE  GoodFile(Image(md))
<1>1. md.versions \in Seq(Version) /\ md.deleted \in BOOLEAN
  BY DEF GoodMetadata, GoodList, Metadata
<1>2. /\ Reverse(md.versions) \in Seq(Version)
      /\ Reverse(Reverse(md.versions)) = md.versions
  BY <1>1, ReverseFacts, ReverseTwice
<1> QED
  BY <1>1, <1>2 DEF GoodFile, Image, MetaFile, GoodMetadata

(* A metadata file that was cut short is a good file still.                *)
LEMMA TornGood ==
  ASSUME NEW md, GoodMetadata(md), NEW mf \in Torn(md)
  PROVE  GoodFile(mf)
<1>1. PICK n \in 0 .. Len(md.versions) :
        mf = [lines |-> SubSeq(Reverse(md.versions), 1, n), killed |-> FALSE]
  BY DEF Torn
<1>2. /\ SubSeq(Reverse(md.versions), 1, n) \in Seq(Version)
      /\ GoodList(Reverse(SubSeq(Reverse(md.versions), 1, n)))
  BY SuffixGood DEF GoodMetadata
<1> QED
  BY <1>1, <1>2 DEF GoodFile, MetaFile

(* What parse_metadata_for_file makes of a good file is good metadata.     *)
LEMMA ParsedGood ==
  ASSUME NEW mf, mf # None => GoodFile(mf), NEW pin
  PROVE  Parsed(mf, pin) # None => GoodMetadata(Parsed(mf, pin))
<1> SUFFICES ASSUME mf # None, mf.lines # <<>>
             PROVE  GoodMetadata(Parsed(mf, pin))
  BY DEF Parsed
<1> DEFINE dflt == IF pin \in Pin THEN pin ELSE Unpinned
           md == [versions |-> Reverse(mf.lines), deleted |-> mf.killed,
                  dfl |-> dflt, recent |-> FALSE]
<1>1. Parsed(mf, pin) = md
  BY DEF Parsed
<1>2. mf.lines \in Seq(Version) /\ mf.killed \in BOOLEAN /\ GoodList(Reverse(mf.lines))
  BY DEF GoodFile, MetaFile
<1>3. Reverse(mf.lines) # <<>>
  <2>1. Len(mf.lines) # 0
    BY <1>2
  <2> QED
    BY <1>2, <2>1, ReverseFacts
<1>4. dflt \in Pin
  BY DEF Unpinned, Pin
<1>5. md \in Metadata
  BY <1>2, <1>4 DEF Metadata, GoodList
<1> QED
  BY <1>1, <1>2, <1>3, <1>5 DEF GoodMetadata

(* Every serial of a good list is at most the vid of its head.             *)
LEMMA HeadFacts ==
  ASSUME NEW md, GoodMetadata(md)
  PROVE  /\ Head(md.versions) = md.versions[1]
         /\ Head(md.versions) \in Version
         /\ \A i \in DOMAIN md.versions :
              /\ md.versions[i] \in Version
              /\ md.versions[i].rfile <= Head(md.versions).vid
<1>1. /\ md.versions \in Seq(Version) /\ md.versions # <<>>
      /\ Descending(md.versions) /\ SerialsBounded(md.versions)
  BY DEF GoodMetadata, GoodList
<1>2. Head(md.versions) = md.versions[1] /\ md.versions[1] \in Version
      /\ 1 \in DOMAIN md.versions
  BY <1>1
<1>3. ASSUME NEW i \in DOMAIN md.versions
      PROVE  /\ md.versions[i] \in Version
             /\ md.versions[i].rfile <= Head(md.versions).vid
  <2>1. md.versions[i] \in Version /\ md.versions[i].rfile <= md.versions[i].vid
    BY <1>1 DEF SerialsBounded
  <2>2. CASE i = 1
    BY <1>2, <2>1, <2>2
  <2>3. CASE i # 1
    <3>1. md.versions[1].vid >= md.versions[i].vid
      BY <1>1, <1>2, <2>3 DEF Descending
    <3> QED
      BY <1>2, <2>1, <3>1, BoundsAssumption DEF Version, Vids
  <2> QED
    BY <2>2, <2>3
<1> QED
  BY <1>2, <1>3

(* The served version is in the list.                                      *)
LEMMA CurrentListed ==
  ASSUME NEW md, GoodMetadata(md)
  PROVE  \E i \in DOMAIN md.versions : Current(md) = md.versions[i]
<1> DEFINE hits == Hits(md.versions, md.dfl)
<1>1. CASE md.dfl.vid = LATEST \/ hits = {}
  <2>1. Current(md) = Head(md.versions)
    BY <1>1 DEF Current
  <2>2. 1 \in DOMAIN md.versions
    BY DEF GoodMetadata, GoodList
  <2> QED
    BY <2>1, <2>2, HeadFacts
<1>2. CASE ~ (md.dfl.vid = LATEST \/ hits = {})
  <2>1. (CHOOSE j \in hits : TRUE) \in hits
    BY <1>2
  <2>2. hits \subseteq DOMAIN md.versions
    BY DEF Hits
  <2>3. Current(md) = md.versions[CHOOSE j \in hits : TRUE]
    BY <1>2 DEF Current
  <2> QED
    BY <2>1, <2>2, <2>3
<1> QED
  BY <1>1, <1>2

(* The served version's serial is not above the head's vid.                *)
LEMMA CurrentFacts ==
  ASSUME NEW md, GoodMetadata(md)
  PROVE  /\ Current(md) \in Version
         /\ Current(md).rfile <= Head(md.versions).vid
         /\ Head(md.versions).vid \in Vids
  BY CurrentListed, HeadFacts DEF Version

(* A served version with the head's number is on the head's backing file,  *)
(* whatever lock selects it.                                               *)
LEMMA CurrentShares ==
  ASSUME NEW md, GoodMetadata(md), Current(md).vid = Head(md.versions).vid
  PROVE  Current(md).rfile = Head(md.versions).rfile
<1>1. PICK i \in DOMAIN md.versions : Current(md) = md.versions[i]
  BY CurrentListed
<1>2. Head(md.versions) = md.versions[1] /\ 1 \in DOMAIN md.versions
  BY HeadFacts DEF GoodMetadata, GoodList
<1> QED
  BY <1>1, <1>2 DEF GoodMetadata, GoodList, Sharing

(* The search of rcs_find_version finds one version at most.               *)
LEMMA HitUnique ==
  ASSUME NEW vs \in Seq(Version), NEW p \in Pin,
         NEW a \in Hits(vs, p), NEW b \in Hits(vs, p)
  PROVE  ~ (a < b)
<1> SUFFICES ASSUME a < b PROVE FALSE
  OBVIOUS
<1>1. /\ DOMAIN vs = 1 .. Len(vs) /\ Len(vs) \in Nat
      /\ a \in DOMAIN vs /\ b \in DOMAIN vs /\ a \in Int /\ b \in Int
  BY DEF Hits
<1>2. \A k \in DOMAIN vs : vs[k].vid \in Int /\ vs[k].svid \in Int
  <2> SUFFICES ASSUME NEW k \in DOMAIN vs
               PROVE  vs[k].vid \in Int /\ vs[k].svid \in Int
    OBVIOUS
  <2>1. vs[k] \in Version
    BY <1>1
  <2>2. vs[k].vid \in Vids /\ vs[k].svid \in Svids
    BY <2>1 DEF Version
  <2> QED
    BY <2>2, BoundsAssumption DEF Vids, Svids
<1>3. p.vid \in Int /\ p.svid \in Int
  BY BoundsAssumption DEF Pin, Vids, Svids, LATEST
<1>4. PICK i \in 1 .. a :
        /\ \A k \in 1 .. i - 1 : vs[k].vid > p.vid
        /\ \A k \in i .. a : vs[k].vid = p.vid
        /\ IF p.svid = LATEST
           THEN i = a
           ELSE vs[a].svid = p.svid /\ \A k \in i .. a - 1 : vs[k].svid > p.svid
  BY DEF Hits
<1>5. PICK j \in 1 .. b :
        /\ \A k \in 1 .. j - 1 : vs[k].vid > p.vid
        /\ \A k \in j .. b : vs[k].vid = p.vid
        /\ IF p.svid = LATEST
           THEN j = b
           ELSE vs[b].svid = p.svid /\ \A k \in j .. b - 1 : vs[k].svid > p.svid
  BY DEF Hits
<1>6. ~ (i < j)
  <2> SUFFICES ASSUME i < j PROVE FALSE
    OBVIOUS
  <2>1. i \in 1 .. j - 1 /\ i \in i .. a /\ i \in DOMAIN vs
    BY <1>1
  <2>2. vs[i].vid > p.vid
    BY <1>5, <2>1
  <2>3. vs[i].vid = p.vid
    BY <1>4, <2>1
  <2> QED
    BY <1>2, <1>3, <2>1, <2>2, <2>3
<1>7. ~ (j < i)
  <2> SUFFICES ASSUME j < i PROVE FALSE
    OBVIOUS
  <2>1. j \in 1 .. i - 1 /\ j \in j .. b /\ j \in DOMAIN vs
    BY <1>1
  <2>2. vs[j].vid > p.vid
    BY <1>4, <2>1
  <2>3. vs[j].vid = p.vid
    BY <1>5, <2>1
  <2> QED
    BY <1>2, <1>3, <2>1, <2>2, <2>3
<1>8. i = j
  BY <1>1, <1>6, <1>7
<1>9. p.svid # LATEST
  BY <1>1, <1>4, <1>5, <1>8
<1>10. a \in j .. b - 1
  BY <1>1, <1>8
<1>11. vs[a].svid = p.svid /\ vs[a].svid > p.svid
  BY <1>4, <1>5, <1>9, <1>10
<1> QED
  BY <1>1, <1>2, <1>3, <1>11

(* With a new head it finds the head or what it found without it.          *)
LEMMA HitTail ==
  ASSUME NEW new \in Seq(Version), new # <<>>, NEW vs, vs = Tail(new),
         NEW p \in Pin, NEW b \in Hits(new, p), b # 1
  PROVE  b - 1 \in Hits(vs, p) /\ new[b] = vs[b - 1]
<1>1. /\ DOMAIN new = 1 .. Len(new) /\ Len(new) \in Nat \ {0}
      /\ DOMAIN vs = 1 .. Len(new) - 1
      /\ \A k \in 1 .. Len(new) - 1 : vs[k] = new[k + 1]
  OBVIOUS
<1>2. b \in DOMAIN new /\ b \in Int /\ b > 1 /\ b - 1 \in DOMAIN vs
  <2>1. b \in DOMAIN new
    BY DEF Hits
  <2> QED
    BY <1>1, <2>1
<1>3. PICK i \in 1 .. b :
        /\ \A k \in 1 .. i - 1 : new[k].vid > p.vid
        /\ \A k \in i .. b : new[k].vid = p.vid
        /\ IF p.svid = LATEST
           THEN i = b
           ELSE new[b].svid = p.svid /\ \A k \in i .. b - 1 : new[k].svid > p.svid
  BY DEF Hits
<1>4. PICK j \in 1 .. b - 1 : j = IF i = 1 THEN 1 ELSE i - 1
  BY <1>2
<1>5. \A k \in 1 .. j - 1 : vs[k].vid > p.vid
  <2> TAKE k \in 1 .. j - 1
  <2>1. k + 1 \in 1 .. i - 1 /\ k \in 1 .. Len(new) - 1
    BY <1>1, <1>2, <1>4
  <2> QED
    BY <1>1, <1>3, <2>1
<1>6. \A k \in j .. b - 1 : vs[k].vid = p.vid
  <2> TAKE k \in j .. b - 1
  <2>1. k + 1 \in i .. b /\ k \in 1 .. Len(new) - 1
    BY <1>1, <1>2, <1>4
  <2> QED
    BY <1>1, <1>3, <2>1
<1>7. IF p.svid = LATEST
      THEN j = b - 1
      ELSE vs[b - 1].svid = p.svid /\ \A k \in j .. b - 1 - 1 : vs[k].svid > p.svid
  <2>1. CASE p.svid = LATEST
    BY <1>2, <1>3, <1>4, <2>1
  <2>2. CASE p.svid # LATEST
    <3>1. vs[b - 1].svid = p.svid
      BY <1>1, <1>2, <1>3, <2>2
    <3>2. ASSUME NEW k \in j .. b - 1 - 1
          PROVE  vs[k].svid > p.svid
      <4>1. k + 1 \in i .. b - 1 /\ k \in 1 .. Len(new) - 1
        BY <1>1, <1>2, <1>4
      <4> QED
        BY <1>1, <1>3, <2>2, <4>1
    <3> QED
      BY <2>2, <3>1, <3>2
  <2> QED
    BY <2>1, <2>2
<1>8. b - 1 \in Hits(vs, p)
  BY <1>2, <1>5, <1>6, <1>7 DEF Hits
<1> QED
  BY <1>1, <1>2, <1>8

(* So a new head never shows a third version through an old lock.          *)
LEMMA CurrentOfTail ==
  ASSUME NEW md, GoodMetadata(md), NEW new, GoodMetadata(new),
         Tail(new.versions) = md.versions, new.dfl = md.dfl
  PROVE  Current(new) \in {Head(new.versions), Current(md)}
<1>1. PICK p \in Pin : p = md.dfl
  BY DEF GoodMetadata, Metadata
<1>2. PICK vs \in Seq(Version) : vs = md.versions /\ vs # <<>>
  BY DEF GoodMetadata, GoodList
<1>3. PICK ns \in Seq(Version) : ns = new.versions /\ ns # <<>> /\ vs = Tail(ns)
  BY <1>2 DEF GoodMetadata, GoodList
<1>4. CASE p.vid = LATEST \/ Hits(ns, p) = {}
  BY <1>1, <1>3, <1>4 DEF Current
<1>5. CASE ~ (p.vid = LATEST \/ Hits(ns, p) = {})
  <2>1. PICK b : b \in Hits(ns, p) /\ Current(new) = ns[b]
    BY <1>1, <1>3, <1>5 DEF Current
  <2>2. CASE b = 1
    BY <1>3, <2>1, <2>2
  <2>3. CASE b # 1
    <3>1. b - 1 \in Hits(vs, p) /\ ns[b] = vs[b - 1]
      BY <1>3, <2>1, <2>3, HitTail
    <3>2. PICK a : a \in Hits(vs, p) /\ Current(md) = vs[a]
      BY <1>1, <1>2, <1>5, <3>1 DEF Current
    <3>3. a = b - 1
      <4>1. ~ (a < b - 1) /\ ~ (b - 1 < a)
        BY <3>1, <3>2, HitUnique
      <4>2. a \in DOMAIN vs /\ b - 1 \in DOMAIN vs
        BY <3>1, <3>2 DEF Hits
      <4>3. a \in Int /\ b - 1 \in Int
        BY <4>2
      <4> QED
        BY <4>1, <4>3
    <3> QED
      BY <2>1, <3>1, <3>2, <3>3
  <2> QED
    BY <2>2, <2>3
<1> QED
  BY <1>4, <1>5

(* The version that is served follows from the list and the lock, and from *)
(* the list alone if it has one version or nothing is locked.              *)
LEMMA CurrentFollows ==
  ASSUME NEW md, GoodMetadata(md), NEW new, GoodMetadata(new),
         new.versions = md.versions
  PROVE  /\ new.dfl = md.dfl => Current(new) = Current(md)
         /\ Len(md.versions) = 1 => Current(new) = Head(md.versions)
         /\ new.dfl = Unpinned => Current(new) = Head(md.versions)
<1>1. new.dfl = md.dfl => Current(new) = Current(md)
  BY DEF Current
<1>2. ASSUME Len(md.versions) = 1
      PROVE  Current(new) = Head(md.versions)
  <2>1. PICK vs \in Seq(Version) : vs = md.versions /\ Len(vs) = 1
    BY <1>2 DEF GoodMetadata, GoodList
  <2>2. PICK i \in DOMAIN vs : Current(new) = vs[i]
    BY <2>1, CurrentListed
  <2>3. vs[i] = Head(vs)
    BY ONLY vs \in Seq(Version), <2>1, <2>2
  <2> QED
    BY <2>1, <2>2, <2>3
<1>3. new.dfl = Unpinned => Current(new) = Head(md.versions)
  BY DEF Current, Unpinned
<1> QED
  BY <1>1, <1>2, <1>3

(* It finds the first version in the list that is like it.                 *)
LEMMA HitFirst ==
  ASSUME NEW vs \in Seq(Version), NEW p \in Pin, NEW a \in Hits(vs, p),
         NEW i \in 1 .. a - 1
  PROVE  vs[i] # vs[a]
<1>1. a \in Int /\ i \in DOMAIN vs /\ a \in DOMAIN vs /\ a \in i + 1 .. a
  <2>1. DOMAIN vs = 1 .. Len(vs) /\ Len(vs) \in Nat /\ a \in DOMAIN vs
    BY DEF Hits
  <2> QED
    BY <2>1
<1>2. vs[i].vid \in Int /\ vs[a].vid \in Int /\ vs[i].svid \in Int /\ vs[a].svid \in Int
  <2>1. vs[i] \in Version /\ vs[a] \in Version
    BY <1>1
  <2>2. \A v \in Version : v.vid \in Int /\ v.svid \in Int
    BY BoundsAssumption DEF Version, Vids, Svids
  <2> QED
    BY <2>1, <2>2
<1>3. p.vid \in Int /\ p.svid \in Int
  BY BoundsAssumption DEF Pin, Vids, Svids, LATEST
<1>4. PICK j \in 1 .. a :
        /\ \A k \in 1 .. j - 1 : vs[k].vid > p.vid
        /\ \A k \in j .. a : vs[k].vid = p.vid
        /\ IF p.svid = LATEST
           THEN j = a
           ELSE vs[a].svid = p.svid /\ \A k \in j .. a - 1 : vs[k].svid > p.svid
  BY DEF Hits
<1>5. CASE i < j
  <2>1. i \in 1 .. j - 1 /\ a \in j .. a
    BY <1>1, <1>5
  <2>2. vs[i].vid > p.vid /\ vs[a].vid = p.vid
    BY <1>4, <2>1
  <2> QED
    BY <1>2, <1>3, <2>2
<1>6. CASE ~ (i < j)
  <2>1. i \in j .. a - 1 /\ j # a
    BY <1>1, <1>6
  <2>2. vs[i].svid > p.svid /\ vs[a].svid = p.svid
    BY <1>4, <2>1
  <2> QED
    BY <1>2, <1>3, <2>2
<1> QED
  BY <1>5, <1>6

(* In what is left of a list it finds what it found, or nothing.           *)
LEMMA HitPrefix ==
  ASSUME NEW vs \in Seq(Version), NEW p \in Pin, NEW n \in 1 .. Len(vs),
         NEW ks, ks = SubSeq(vs, 1, n)
  PROVE  \A j : j \in Hits(ks, p) <=> j \in Hits(vs, p) /\ j <= n
<1>1. /\ DOMAIN ks = 1 .. n /\ \A i \in 1 .. n : ks[i] = vs[i]
      /\ DOMAIN vs = 1 .. Len(vs) /\ n \in Nat /\ Len(vs) \in Nat
  OBVIOUS
<1> DEFINE At(qs, i, j) ==
             /\ \A k \in 1 .. i - 1 : qs[k].vid > p.vid
             /\ \A k \in i .. j : qs[k].vid = p.vid
             /\ IF p.svid = LATEST
                THEN i = j
                ELSE qs[j].svid = p.svid /\ \A k \in i .. j - 1 : qs[k].svid > p.svid
           FoundAt(qs, j) == \E i \in 1 .. j : At(qs, i, j)
<1>2. ASSUME NEW j \in 1 .. n
      PROVE  FoundAt(ks, j) <=> FoundAt(vs, j)
  <2>1. \A k \in 1 .. j : ks[k] = vs[k]
    <3>1. \A k \in 1 .. j : k \in 1 .. n
      BY <1>1
    <3> QED
      BY <1>1, <3>1
  <2>2. ASSUME NEW i \in 1 .. j
        PROVE  At(ks, i, j) <=> At(vs, i, j)
    <3>1. /\ \A k \in 1 .. i - 1 : k \in 1 .. j
          /\ \A k \in i .. j : k \in 1 .. j
          /\ \A k \in i .. j - 1 : k \in 1 .. j
          /\ j \in 1 .. j
      BY <1>1
    <3>2. (\A k \in 1 .. i - 1 : ks[k].vid > p.vid)
          <=> \A k \in 1 .. i - 1 : vs[k].vid > p.vid
      BY <2>1, <3>1
    <3>3. (\A k \in i .. j : ks[k].vid = p.vid) <=> \A k \in i .. j : vs[k].vid = p.vid
      BY <2>1, <3>1
    <3>4. (\A k \in i .. j - 1 : ks[k].svid > p.svid)
          <=> \A k \in i .. j - 1 : vs[k].svid > p.svid
      BY <2>1, <3>1
    <3>5. ks[j] = vs[j]
      BY <2>1, <3>1
    <3> QED
      BY <3>2, <3>3, <3>4, <3>5
  <2> HIDE DEF At
  <2> QED
    BY <2>2
<1>3. \A j : j \in Hits(ks, p) <=> j \in 1 .. n /\ FoundAt(ks, j)
  BY <1>1 DEF Hits
<1>4. \A j : j \in Hits(vs, p) <=> j \in 1 .. Len(vs) /\ FoundAt(vs, j)
  BY <1>1 DEF Hits
<1> HIDE DEF FoundAt
<1>5. \A j : j \in 1 .. n <=> j \in 1 .. Len(vs) /\ j <= n
  BY <1>1
<1> QED
  BY <1>2, <1>3, <1>4, <1>5

(* So a cull serves what was served, or the head if that has gone.         *)
LEMMA CurrentOfPrefix ==
  ASSUME NEW md, GoodMetadata(md), NEW n \in 1 .. Len(md.versions),
         NEW m, m.versions = SubSeq(md.versions, 1, n), m.dfl = md.dfl
  PROVE  Current(m) = IF \E i \in 1 .. n : md.versions[i] = Current(md)
                      THEN Current(md) ELSE Head(md.versions)
<1>1. PICK vs \in Seq(Version), p \in Pin :
        vs = md.versions /\ p = md.dfl /\ vs # <<>>
  BY DEF GoodMetadata, GoodList, Metadata
<1>2. PICK ks : ks = m.versions /\ ks = SubSeq(vs, 1, n)
  BY <1>1
<1>3. /\ DOMAIN ks = 1 .. n /\ \A i \in 1 .. n : ks[i] = vs[i]
      /\ DOMAIN vs = 1 .. Len(vs) /\ n \in Nat /\ 1 \in 1 .. n
      /\ n \in 1 .. Len(vs)
  BY <1>1, <1>2
<1>4. Head(ks) = Head(vs) /\ Head(vs) = vs[1]
  <2>1. ks \in Seq(Version) /\ ks # <<>>
    BY <1>2, <1>3
  <2>2. Head(ks) = ks[1]
    BY <2>1
  <2>3. Head(vs) = vs[1]
    BY <1>1
  <2> QED
    BY <1>3, <2>2, <2>3
<1>5. /\ Current(md) = IF p.vid = LATEST \/ Hits(vs, p) = {} THEN Head(vs)
                       ELSE vs[CHOOSE j \in Hits(vs, p) : TRUE]
      /\ Current(m) = IF p.vid = LATEST \/ Hits(ks, p) = {} THEN Head(ks)
                      ELSE ks[CHOOSE j \in Hits(ks, p) : TRUE]
  BY <1>1, <1>2 DEF Current
<1>6. \A j : j \in Hits(ks, p) <=> j \in Hits(vs, p) /\ j <= n
  BY <1>2, <1>3, HitPrefix
<1>7. CASE p.vid = LATEST \/ Hits(vs, p) = {}
  <2>1. Current(md) = Head(vs) /\ Current(m) = Head(vs)
    BY <1>4, <1>5, <1>6, <1>7
  <2> QED
    BY <1>1, <1>3, <1>4, <2>1
<1>8. CASE ~ (p.vid = LATEST \/ Hits(vs, p) = {})
  <2>1. PICK a : a \in Hits(vs, p) /\ Current(md) = vs[a]
    BY <1>5, <1>8
  <2>2. a \in DOMAIN vs /\ a \in Int
    BY <1>3, <2>1 DEF Hits
  <2>3. \A b \in Hits(vs, p) : b = a
    <3> TAKE b \in Hits(vs, p)
    <3>1. ~ (a < b) /\ ~ (b < a)
      BY <2>1, HitUnique
    <3>2. b \in Int
      BY <1>3 DEF Hits
    <3> QED
      BY <2>2, <3>1, <3>2
  <2>4. CASE a <= n
    <3>1. Hits(ks, p) = {a}
      BY <1>6, <2>1, <2>3, <2>4
    <3>2. Current(m) = ks[a] /\ a \in 1 .. n
      BY <1>3, <1>5, <1>8, <2>2, <2>4, <3>1
    <3> QED
      BY <1>1, <1>3, <2>1, <3>2
  <2>5. CASE ~ (a <= n)
    <3>1. Hits(ks, p) = {}
      BY <1>6, <2>3, <2>5
    <3>2. \A i \in 1 .. n : i \in 1 .. a - 1
      BY <1>3, <2>2, <2>5
    <3>3. \A i \in 1 .. n : vs[i] # vs[a]
      BY <2>1, <3>2, HitFirst
    <3> QED
      BY <1>1, <1>4, <1>5, <2>1, <3>1, <3>3
  <2> QED
    BY <2>4, <2>5
<1> QED
  BY <1>7, <1>8

-----------------------------------------------------------------------------
(* The constructors of create.c.                                           *)

(* create_link_version of a version that fits keeps the list good.         *)
LEMMA LinkedGood ==
  ASSUME NEW md, GoodMetadata(md), NEW v \in Version, Tops(v, md.versions)
  PROVE  /\ GoodMetadata(Linked(md, v))
         /\ Head(Linked(md, v).versions) = v
         /\ Current(Linked(md, v)) = v
<1> DEFINE new == <<v>> \o md.versions
<1>1. GoodList(new)
  BY ConsGood DEF GoodMetadata
<1>2. /\ Linked(md, v) \in Metadata
      /\ Linked(md, v).versions = new
      /\ Linked(md, v).dfl = Unpinned
  BY <1>1 DEF Linked, GoodMetadata, GoodList, Metadata, Unpinned, Pin
<1>3. new # <<>> /\ Head(new) = v
  BY DEF GoodMetadata, GoodList
<1>4. Current(Linked(md, v)) = Head(new)
  BY <1>2 DEF Current, Unpinned
<1> QED
  BY <1>1, <1>2, <1>3, <1>4 DEF GoodMetadata

(* The version create_new_version makes fits at the head of the list.      *)
LEMMA NextVersionGood ==
  ASSUME NEW md, GoodMetadata(md), NEW uid \in Users,
         NextVersion(md, uid).vid <= MaxVid
  PROVE  /\ NextVersion(md, uid) \in Version
         /\ NextVersion(md, uid).vid = Head(md.versions).vid + 1
         /\ NextVersion(md, uid).rfile = Head(md.versions).vid + 1
         /\ Tops(NextVersion(md, uid), md.versions)
<1>1. Head(md.versions).vid \in Vids /\ Current(md) \in Version
  BY CurrentFacts
<1>2. Head(md.versions).vid + 1 <= MaxVid
  BY DEF NextVersion
<1>3. Head(md.versions).vid + 1 \in Vids /\ 0 \in Svids
  BY <1>1, <1>2, BoundsAssumption DEF Vids, Svids
<1>4. Tops(NextVersion(md, uid), md.versions)
  BY <1>1, BoundsAssumption DEF NextVersion, Tops, Vids
<1> QED
  BY <1>1, <1>3, <1>4 DEF NextVersion, Version

(* The version create_new_subversion makes fits at the head of the list.   *)
LEMMA NextSubversionGood ==
  ASSUME NEW md, GoodMetadata(md), NEW mode \in Modes, NEW uid \in Users,
         NextSubversion(md, mode, uid).vid <= MaxVid,
         NextSubversion(md, mode, uid).svid <= MaxSvid
  PROVE  /\ NextSubversion(md, mode, uid) \in Version
         /\ Tops(NextSubversion(md, mode, uid), md.versions)
<1> DEFINE v == NextSubversion(md, mode, uid)
           head == Head(md.versions)
           cur == Current(md)
<1>1. /\ head \in Version /\ cur \in Version /\ cur.rfile <= head.vid
      /\ cur.vid = head.vid => cur.rfile = head.rfile
  BY CurrentFacts, CurrentShares, HeadFacts
<1>2. v.vid <= MaxVid /\ v.svid <= MaxSvid
  OBVIOUS
<1>3. /\ v.vid = IF cur.vid # head.vid THEN head.vid + 1 ELSE cur.vid
      /\ v.svid = IF cur.vid # head.vid THEN 0 ELSE cur.svid + 1
      /\ v.mode = mode /\ v.uid = uid /\ v.rfile = cur.rfile
      /\ v = [vid |-> v.vid, svid |-> v.svid, mode |-> v.mode, uid |-> v.uid,
              rfile |-> v.rfile]
  BY DEF NextSubversion
<1> HIDE DEF v, head, cur
<1>4. /\ head.vid \in Vids /\ cur.vid \in Vids
      /\ cur.svid \in Svids /\ cur.rfile \in Vids
  BY <1>1 DEF Version
<1>5. v.vid \in Vids /\ v.svid \in Svids /\ v.rfile \in Vids
      /\ v.vid >= head.vid /\ v.rfile <= v.vid
  BY <1>1, <1>2, <1>3, <1>4, BoundsAssumption DEF Vids, Svids
<1>6. v \in Version
  BY <1>3, <1>5 DEF Version
<1>7. v.vid = head.vid => v.rfile = head.rfile
  BY <1>1, <1>3, <1>4 DEF Vids
<1> QED
  BY <1>5, <1>6, <1>7 DEF v, head, Tops
=============================================================================
