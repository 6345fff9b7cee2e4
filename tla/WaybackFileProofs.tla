-------------------------- MODULE WaybackFileProofs --------------------------
(***************************************************************************)
(* Type correctness of WaybackFile; that no earlier state of the file is   *)
(* lost, RecordsRestore; that vrevert, undisturbed, brings the file back,  *)
(* RevertRestores; and that it reads from the version file the records the *)
(* daemon wrote, LogReadsBack.                                             *)
(***************************************************************************)
EXTENDS WaybackFormat, SequenceTheorems, WellFoundedInduction, TLAPS

-----------------------------------------------------------------------------
(* The functions of UndoLog, for every contents and offset: what they      *)
(* return, and that a record gives back the contents it was made of, from  *)
(* the contents after the change and from those before it.                 *)

(* What the functions return.                                              *)
LEMMA ReadFacts ==
  ASSUME NEW c \in Contents, NEW from \in Nat, NEW n \in Nat
  PROVE  /\ Read(c, from, n) \in Contents
         /\ from <= Len(c) =>
              Len(Read(c, from, n)) = IF from + n < Len(c) THEN n ELSE Len(c) - from
         /\ \A i \in 1 .. Len(Read(c, from, n)) : Read(c, from, n)[i] = c[from + i]
<1> DEFINE last == IF from + n < Len(c) THEN from + n ELSE Len(c)
<1>1. last \in Int /\ from + 1 \in Int /\ \A i \in from + 1 .. last : c[i] \in Bytes
  BY DEF Contents
<1>2. Read(c, from, n) = SubSeq(c, from + 1, last)
  BY DEF Read
<1> HIDE DEF last
<1>3. /\ SubSeq(c, from + 1, last) \in Seq(Bytes)
      /\ Len(SubSeq(c, from + 1, last)) =
           IF from + 1 <= last THEN last - (from + 1) + 1 ELSE 0
      /\ \A i \in 1 .. last - (from + 1) + 1 :
           SubSeq(c, from + 1, last)[i] = c[from + 1 + i - 1]
  BY <1>1, SubSeqProperties
<1> QED
  BY <1>1, <1>2, <1>3 DEF last, Contents

LEMMA OverwrittenFacts ==
  ASSUME NEW c \in Contents, NEW at \in Nat, NEW d \in Contents, d # <<>>
  PROVE  /\ Overwritten(c, at, d) \in Contents
         /\ Len(Overwritten(c, at, d)) =
              IF at + Len(d) > Len(c) THEN at + Len(d) ELSE Len(c)
         /\ \A i \in 1 .. Len(Overwritten(c, at, d)) :
              Overwritten(c, at, d)[i] =
                IF i \in at + 1 .. at + Len(d) THEN d[i - at]
                ELSE IF i <= Len(c) THEN c[i] ELSE Zero
<1> DEFINE n == IF at + Len(d) > Len(c) THEN at + Len(d) ELSE Len(c)
           f == [i \in 1 .. n |-> IF i \in at + 1 .. at + Len(d) THEN d[i - at]
                                  ELSE IF i <= Len(c) THEN c[i] ELSE Zero]
<1>1. n \in Nat
  BY DEF Contents
<1>2. \A i \in 1 .. n : f[i] \in Bytes
  BY ByteAssumption DEF Contents
<1>3. Overwritten(c, at, d) = f
  BY DEF Overwritten
<1>4. f \in Seq(Bytes) /\ Len(f) = n
  <2> HIDE DEF n
  <2> QED
    BY <1>1, <1>2
<1> QED
  BY <1>3, <1>4 DEF Contents

LEMMA ResizedFacts ==
  ASSUME NEW c \in Contents, NEW n \in Nat
  PROVE  /\ Resized(c, n) \in Contents
         /\ Len(Resized(c, n)) = n
         /\ \A i \in 1 .. n : Resized(c, n)[i] = IF i <= Len(c) THEN c[i] ELSE Zero
<1> DEFINE f == [i \in 1 .. n |-> IF i <= Len(c) THEN c[i] ELSE Zero]
<1>1. \A i \in 1 .. n : f[i] \in Bytes
  BY ByteAssumption DEF Contents
<1> QED
  BY <1>1 DEF Resized, Contents

(* Without data nothing is written.                                        *)
LEMMA NothingOverwritten ==
  ASSUME NEW c, NEW at
  PROVE  Overwritten(c, at, <<>>) = c
  BY DEF Overwritten

-----------------------------------------------------------------------------
LEMMA RecordTypes ==
  ASSUME NEW c \in Contents, NEW at \in Nat, NEW n \in Nat
  PROVE  WriteRecord(c, at, n) \in Record /\ TruncateRecord(c, n) \in Record
<1>1. Len(c) \in Nat
  BY DEF Contents
<1>2. Read(c, at, n) \in Contents /\ Read(c, n, Len(c)) \in Contents
  BY <1>1, ReadFacts
<1> QED
  BY <1>2 DEF WriteRecord, TruncateRecord, Record

(* The cut is never beyond the end of the record, and at it below 4 GiB.   *)
LEMMA CutPlaceFacts ==
  ASSUME NEW r \in Record
  PROVE  /\ CutPlace(r) \in Nat
         /\ CutPlace(r) <= r.offset + Len(r.data)
         /\ r.offset < Wrap => CutPlace(r) = r.offset + Len(r.data)
<1>1. r.offset \in Nat /\ Len(r.data) \in Nat
  BY DEF Record, Contents
<1>2. PICK low : low = r.offset % Wrap
  OBVIOUS
<1>3. low \in Nat /\ low <= r.offset /\ (r.offset < Wrap => low = r.offset)
  BY ONLY <1>1, <1>2, WrapAssumption
<1>4. CutPlace(r) = low + Len(r.data)
  BY <1>2 DEF CutPlace
<1> QED
  BY ONLY <1>1, <1>3, <1>4, WrapAssumption

LEMMA UndoneTypes ==
  ASSUME NEW c \in Contents, NEW r \in Record
  PROVE  Undone(r, c) \in Contents
<1>1. r.offset \in Nat /\ r.data \in Contents
  BY DEF Record
<1>2. Overwritten(c, r.offset, r.data) \in Contents
  BY <1>1, OverwrittenFacts, NothingOverwritten
<1>3. CutPlace(r) \in Nat
  BY CutPlaceFacts
<1> QED
  BY <1>2, <1>3, ResizedFacts DEF Undone

(* What a write of d changes in contents of which the record was made is   *)
(* between at and the end of d; the record has all there was.              *)
LEMMA WriteUndone ==
  ASSUME NEW c \in Contents, NEW at \in Nat, NEW d \in Contents, at <= Len(c),
         CutsAtEnd(WriteRecord(c, at, Len(d)))
  PROVE  Undone(WriteRecord(c, at, Len(d)), Overwritten(c, at, d)) = c
<1>1. CASE d = <<>>
  <2>1. Len(d) = 0 /\ ~ at + 0 > Len(c)
    BY <1>1 DEF Contents
  <2>2. Read(c, at, 0) = <<>>
    <3>1. Len(c) \in Nat
      BY DEF Contents
    <3>2. /\ Read(c, at, 0) \in Contents
          /\ Len(Read(c, at, 0)) = IF at + 0 < Len(c) THEN 0 ELSE Len(c) - at
      BY ReadFacts
    <3>3. Len(Read(c, at, 0)) = 0
      BY <3>1, <3>2
    <3> QED
      BY <3>2, <3>3 DEF Contents
  <2> QED
    BY <1>1, <2>1, <2>2, NothingOverwritten DEF Undone, WriteRecord
<1>2. CASE d # <<>>
  <2> DEFINE old == Read(c, at, Len(d))
             w == Overwritten(c, at, d)
             v == Overwritten(w, at, old)
  <2>1. Len(d) \in Nat /\ Len(d) > 0 /\ Len(c) \in Nat
    BY <1>2 DEF Contents
  <2>2. /\ old \in Contents
        /\ Len(old) = IF at + Len(d) < Len(c) THEN Len(d) ELSE Len(c) - at
        /\ \A i \in 1 .. Len(old) : old[i] = c[at + i]
    BY <2>1, ReadFacts
  <2>3. /\ w \in Contents
        /\ Len(w) = IF at + Len(d) > Len(c) THEN at + Len(d) ELSE Len(c)
        /\ \A i \in 1 .. Len(w) :
             w[i] = IF i \in at + 1 .. at + Len(d) THEN d[i - at]
                    ELSE IF i <= Len(c) THEN c[i] ELSE Zero
    BY <1>2, OverwrittenFacts
  <2>4. /\ v \in Contents
        /\ Len(v) = Len(w)
        /\ \A i \in 1 .. Len(c) : v[i] = c[i]
    <3>1. CASE old = <<>>
      <4>1. at = Len(c) /\ v = w
        BY <2>1, <2>2, <3>1, NothingOverwritten
      <4>2. \A i \in 1 .. Len(c) : w[i] = c[i]
        BY <2>1, <2>3, <4>1
      <4> QED
        BY <2>3, <4>1, <4>2
    <3>2. CASE old # <<>>
      <4>1. /\ v \in Contents
            /\ Len(v) = IF at + Len(old) > Len(w) THEN at + Len(old) ELSE Len(w)
            /\ \A i \in 1 .. Len(v) :
                 v[i] = IF i \in at + 1 .. at + Len(old) THEN old[i - at]
                        ELSE IF i <= Len(w) THEN w[i] ELSE Zero
        BY <2>2, <2>3, <3>2, OverwrittenFacts
      <4> HIDE DEF v, w, old
      <4>2. Len(v) = Len(w)
        BY <2>1, <2>2, <2>3, <4>1
      <4>3. ASSUME NEW i \in 1 .. Len(c)
            PROVE  v[i] = c[i]
        <5>1. i \in 1 .. Len(v) /\ i \in 1 .. Len(w)
          BY <2>1, <2>3, <4>2
        <5>2. CASE i \in at + 1 .. at + Len(old)
          <6>1. v[i] = old[i - at] /\ i - at \in 1 .. Len(old)
            <7>1. v[i] = old[i - at]
              BY ONLY <4>1, <5>1, <5>2
            <7>2. Len(old) \in Nat
              BY <2>2 DEF Contents
            <7>3. i - at \in 1 .. Len(old)
              BY ONLY <5>1, <5>2, <7>2, at \in Nat, i \in 1 .. Len(c), Len(c) \in Nat, <2>1
            <7> QED
              BY <7>1, <7>3
          <6>2. old[i - at] = c[at + (i - at)]
            BY <2>2, <6>1
          <6> QED
            BY <6>1, <6>2
        <5>3. CASE i \notin at + 1 .. at + Len(old)
          <6>1. v[i] = w[i]
            BY <2>1, <2>3, <4>1, <5>1, <5>3
          <6>2. i \notin at + 1 .. at + Len(d)
            BY <2>1, <2>2, <5>3
          <6> QED
            BY <2>1, <2>3, <5>1, <6>1, <6>2
        <5> QED
          BY <5>2, <5>3
      <4> QED
        BY <4>1, <4>2, <4>3
    <3> QED
      BY <3>1, <3>2
  <2> DEFINE r == WriteRecord(c, at, Len(d))
  <2>5. r.offset = at /\ r.data = old /\ r.extendseof = (at + Len(d) > Len(c))
    BY DEF WriteRecord
  <2>6. Undone(r, w) = IF at + Len(d) > Len(c) THEN Resized(v, at + Len(old)) ELSE v
    <3>1. r \in Record
      BY <2>1, RecordTypes
    <3>2. at + Len(d) > Len(c) => CutPlace(r) = at + Len(old)
      BY <2>5, <3>1, CutPlaceFacts DEF CutsAtEnd
    <3> QED
      BY <2>5, <3>2 DEF Undone
  <2> HIDE DEF v, w, old, r
  <2>7. CASE at + Len(d) > Len(c)
    <3>1. at + Len(old) = Len(c)
      BY <2>1, <2>2, <2>7
    <3>2. /\ Resized(v, Len(c)) \in Contents
          /\ Len(Resized(v, Len(c))) = Len(c)
          /\ \A i \in 1 .. Len(c) : Resized(v, Len(c))[i] = IF i <= Len(v) THEN v[i] ELSE Zero
      BY <2>1, <2>4, ResizedFacts
    <3>3. \A i \in 1 .. Len(c) : Resized(v, Len(c))[i] = c[i]
      BY <2>1, <2>3, <2>4, <2>7, <3>2
    <3>4. Resized(v, Len(c)) = c
      BY <3>2, <3>3, SeqEqual DEF Contents
    <3> QED
      BY <2>6, <2>7, <3>1, <3>4 DEF r, w
  <2>8. CASE ~ at + Len(d) > Len(c)
    <3>1. Len(v) = Len(c)
      BY <2>1, <2>3, <2>4, <2>8
    <3>2. v = c
      BY <2>4, <3>1, SeqEqual DEF Contents
    <3> QED
      BY <2>6, <2>8, <3>2 DEF r, w
  <2> QED
    BY <2>7, <2>8
<1> QED
  BY <1>1, <1>2

(* Bytes of a file put back where they are, and the file cut where it ends, *)
(* change nothing.                                                         *)
LEMMA RewriteNothing ==
  ASSUME NEW c \in Contents, NEW at \in Nat, NEW n \in Nat, at <= Len(c)
  PROVE  Overwritten(c, at, Read(c, at, n)) = c
<1> DEFINE old == Read(c, at, n)
           v == Overwritten(c, at, old)
<1>1. /\ old \in Contents
      /\ Len(old) = IF at + n < Len(c) THEN n ELSE Len(c) - at
      /\ \A i \in 1 .. Len(old) : old[i] = c[at + i]
  BY ReadFacts
<1>2. CASE old = <<>>
  BY <1>2, NothingOverwritten
<1>3. CASE old # <<>>
  <2>1. /\ v \in Contents
        /\ Len(v) = IF at + Len(old) > Len(c) THEN at + Len(old) ELSE Len(c)
        /\ \A i \in 1 .. Len(v) :
             v[i] = IF i \in at + 1 .. at + Len(old) THEN old[i - at]
                    ELSE IF i <= Len(c) THEN c[i] ELSE Zero
    BY <1>1, <1>3, OverwrittenFacts
  <2> HIDE DEF v, old
  <2>2. Len(v) = Len(c) /\ Len(c) \in Nat
    BY <1>1, <2>1 DEF Contents
  <2>3. ASSUME NEW i \in 1 .. Len(c)
        PROVE  v[i] = c[i]
    <3>1. CASE i \in at + 1 .. at + Len(old)
      <4>1. v[i] = old[i - at] /\ i - at \in 1 .. Len(old)
        BY <1>1, <2>1, <2>2, <3>1
      <4>2. old[i - at] = c[at + (i - at)]
        BY <1>1, <4>1
      <4> QED
        BY <4>1, <4>2
    <3>2. CASE i \notin at + 1 .. at + Len(old)
      BY <2>1, <2>2, <3>2
    <3> QED
      BY <3>1, <3>2
  <2>4. v = c
    BY <2>1, <2>2, <2>3, SeqEqual DEF Contents
  <2> QED
    BY <2>4 DEF v, old
<1> QED
  BY <1>2, <1>3

LEMMA ResizeNothing ==
  ASSUME NEW c \in Contents
  PROVE  Resized(c, Len(c)) = c
<1>1. Len(c) \in Nat
  BY DEF Contents
<1>2. /\ Resized(c, Len(c)) \in Contents
      /\ Len(Resized(c, Len(c))) = Len(c)
      /\ \A i \in 1 .. Len(c) : Resized(c, Len(c))[i] = c[i]
  BY <1>1, ResizedFacts
<1> QED
  BY <1>1, <1>2, SeqEqual DEF Contents

(* The change was not made.                                                *)
LEMMA UndoneUnchanged ==
  ASSUME NEW c \in Contents, NEW at \in Nat, NEW n \in Nat, at <= Len(c)
  PROVE  /\ CutsAtEnd(WriteRecord(c, at, n)) => Undone(WriteRecord(c, at, n), c) = c
         /\ CutsAtEnd(TruncateRecord(c, at)) => Undone(TruncateRecord(c, at), c) = c
<1>1. Len(c) \in Nat
  BY DEF Contents
<1>2. /\ Overwritten(c, at, Read(c, at, n)) = c
      /\ Overwritten(c, at, Read(c, at, Len(c))) = c
  BY <1>1, RewriteNothing
<1>3. at + n > Len(c) => at + Len(Read(c, at, n)) = Len(c)
  <2>1. Len(Read(c, at, n)) = IF at + n < Len(c) THEN n ELSE Len(c) - at
    BY ReadFacts
  <2> QED
    BY <1>1, <2>1
<1>4. at + Len(Read(c, at, Len(c))) = Len(c)
  <2>1. Len(Read(c, at, Len(c))) = IF at + Len(c) < Len(c) THEN Len(c) ELSE Len(c) - at
    BY <1>1, ReadFacts
  <2> QED
    BY <1>1, <2>1
<1>5. WriteRecord(c, at, n) \in Record /\ TruncateRecord(c, at) \in Record
  BY RecordTypes
<1>6. ASSUME CutsAtEnd(WriteRecord(c, at, n))
      PROVE  Undone(WriteRecord(c, at, n), c) = c
  <2>1. at + n > Len(c) => CutPlace(WriteRecord(c, at, n)) = Len(c)
    BY <1>3, <1>5, <1>6, CutPlaceFacts DEF CutsAtEnd, WriteRecord
  <2> QED
    BY <1>2, <2>1, ResizeNothing DEF Undone, WriteRecord
<1>7. ASSUME CutsAtEnd(TruncateRecord(c, at))
      PROVE  Undone(TruncateRecord(c, at), c) = c
  <2>1. CutPlace(TruncateRecord(c, at)) = Len(c)
    BY <1>4, <1>5, <1>7, CutPlaceFacts DEF CutsAtEnd, TruncateRecord
  <2> QED
    BY <1>2, <2>1, ResizeNothing DEF Undone, TruncateRecord
<1> QED
  BY <1>6, <1>7

LEMMA TruncateUndone ==
  ASSUME NEW c \in Contents, NEW n \in Nat, n <= Len(c), CutsAtEnd(TruncateRecord(c, n))
  PROVE  Undone(TruncateRecord(c, n), Resized(c, n)) = c
<1> DEFINE old == Read(c, n, Len(c))
           w == Resized(c, n)
           v == Overwritten(w, n, old)
<1>1. Len(c) \in Nat
  BY DEF Contents
<1>2. /\ old \in Contents
      /\ Len(old) = Len(c) - n
      /\ \A i \in 1 .. Len(old) : old[i] = c[n + i]
  BY <1>1, ReadFacts
<1>3. /\ w \in Contents
      /\ Len(w) = n
      /\ \A i \in 1 .. n : w[i] = c[i]
  BY <1>1, ResizedFacts
<1>4. v = c
  <2>1. CASE old = <<>>
    <3>1. n = Len(c) /\ v = w
      BY <1>1, <1>2, <2>1, NothingOverwritten
    <3> QED
      BY <3>1, ResizeNothing
  <2>2. CASE old # <<>>
    <3>1. /\ v \in Contents
          /\ Len(v) = IF n + Len(old) > Len(w) THEN n + Len(old) ELSE Len(w)
          /\ \A i \in 1 .. Len(v) :
               v[i] = IF i \in n + 1 .. n + Len(old) THEN old[i - n]
                      ELSE IF i <= Len(w) THEN w[i] ELSE Zero
      BY <1>2, <1>3, <2>2, OverwrittenFacts
    <3> HIDE DEF v, w, old
    <3>2. Len(v) = Len(c)
      BY <1>1, <1>2, <1>3, <3>1
    <3>3. ASSUME NEW i \in 1 .. Len(c)
          PROVE  v[i] = c[i]
      <4>1. CASE i <= n
        BY <1>1, <1>2, <1>3, <3>1, <3>2, <4>1
      <4>2. CASE i > n
        <5>1. v[i] = old[i - n] /\ i - n \in 1 .. Len(old)
          BY <1>1, <1>2, <3>1, <3>2, <4>2
        <5>2. old[i - n] = c[n + (i - n)]
          BY <1>2, <5>1
        <5> QED
          BY <5>1, <5>2
      <4> QED
        BY <1>1, <4>1, <4>2
    <3> QED
      BY <3>1, <3>2, <3>3, SeqEqual DEF Contents
  <2> QED
    BY <2>1, <2>2
<1>5. n + Len(old) = Len(c)
  BY <1>1, <1>2
<1>6. CutPlace(TruncateRecord(c, n)) = n + Len(old)
  BY RecordTypes, CutPlaceFacts DEF CutsAtEnd, TruncateRecord
<1> QED
  BY <1>4, <1>5, <1>6, ResizeNothing DEF Undone, TruncateRecord

-----------------------------------------------------------------------------
Active == {"open", "write", "writing", "truncate", "truncating"}

(* The invariant.  Typed adds to the types how the variables go together:  *)
(* every record has the contents it was made of, the daemon works on a     *)
(* file that exists, and vrevert on a record it has read.                  *)
Typed ==
  /\ TypeOK
  /\ Len(past) = Len(log)
  /\ busy # None => content # None
  /\ pc \in Active => next \in 1 .. Len(todo) /\ stop \in 1 .. next

(* The change the daemon is about to make has the last record, unless that *)
(* could not be written, and will be undone by it.                         *)
Covered ==
  busy # None /\ Len(log) \notin silent =>
    /\ Len(log) # 0
    /\ Within(log[Len(log)], past[Len(log)]) /\ CutsAtEnd(log[Len(log)]) =>
         Undone(log[Len(log)], BytesOf(Changed(busy, content))) = past[Len(log)]

IInv == Typed /\ RecordsRestore /\ Covered

-----------------------------------------------------------------------------
LEMMA NoneIsNot ==
  None \notin Contents /\ None \notin Request
  BY FileAssumption, RequestAssumption

LEMMA BytesOfTypes ==
  ASSUME NEW c \in Contents \cup {None}
  PROVE  /\ BytesOf(c) \in Contents
         /\ BytesOf(BytesOf(c)) = BytesOf(c)
         /\ c # None => BytesOf(c) = c
  BY NoneIsNot DEF BytesOf, Contents

LEMMA RequestFacts ==
  ASSUME NEW req \in Request
  PROVE  req.kind \in {"write", "truncate", "unlink"} /\ req.at \in Nat /\ req.data \in Contents
  BY DEF Request

LEMMA ChangedTypes ==
  ASSUME NEW req \in Request, NEW c \in Contents
  PROVE  Changed(req, c) \in Contents \cup {None}
<1>1. Overwritten(c, req.at, req.data) \in Contents
  BY RequestFacts, OverwrittenFacts, NothingOverwritten
<1>2. Resized(c, req.at) \in Contents
  BY RequestFacts, ResizedFacts
<1> QED
  BY <1>1, <1>2, RequestFacts DEF Changed

(* A record undoes the change it was made for, and does nothing when that  *)
(* was not made.                                                           *)
LEMMA RecordUndoes ==
  ASSUME NEW req \in Request, NEW c \in Contents, req.kind = "unlink" => req.at = 0
  PROVE  /\ RecordOf(req, c) \in Record
         /\ Within(RecordOf(req, c), c) /\ CutsAtEnd(RecordOf(req, c)) =>
              /\ Undone(RecordOf(req, c), c) = c
              /\ Undone(RecordOf(req, c), BytesOf(Changed(req, c))) = c
<1>1. /\ req.kind \in {"write", "truncate", "unlink"}
      /\ req.at \in Nat
      /\ req.data \in Contents
      /\ Len(req.data) \in Nat
  BY RequestFacts DEF Contents
<1>2. RecordOf(req, c).offset = req.at
  BY DEF RecordOf, WriteRecord, TruncateRecord
<1>3. RecordOf(req, c) \in Record
  BY <1>1, RecordTypes DEF RecordOf
<1>4. ASSUME req.at <= Len(c), CutsAtEnd(RecordOf(req, c))
      PROVE  Undone(RecordOf(req, c), c) = c
  BY <1>1, <1>4, UndoneUnchanged DEF RecordOf
<1>5. ASSUME req.at <= Len(c), CutsAtEnd(RecordOf(req, c))
      PROVE  Undone(RecordOf(req, c), BytesOf(Changed(req, c))) = c
  <2>1. CASE req.kind = "write"
    <3>1. Changed(req, c) = Overwritten(c, req.at, req.data)
      BY <2>1 DEF Changed
    <3>2. Overwritten(c, req.at, req.data) \in Contents
      BY <1>1, OverwrittenFacts, NothingOverwritten
    <3>3. BytesOf(Changed(req, c)) = Overwritten(c, req.at, req.data)
      BY <3>1, <3>2, NoneIsNot DEF BytesOf
    <3> QED
      BY <1>1, <1>5, <2>1, <3>3, WriteUndone DEF RecordOf
  <2>2. CASE req.kind = "truncate"
    <3>1. Changed(req, c) = Resized(c, req.at)
      BY <2>2 DEF Changed
    <3>2. Resized(c, req.at) \in Contents
      BY <1>1, ResizedFacts
    <3>3. BytesOf(Changed(req, c)) = Resized(c, req.at)
      BY <3>1, <3>2, NoneIsNot DEF BytesOf
    <3> QED
      BY <1>1, <1>5, <2>2, <3>3, TruncateUndone DEF RecordOf
  <2>3. CASE req.kind = "unlink"
    <3>1. BytesOf(Changed(req, c)) = <<>>
      BY <2>3 DEF Changed, BytesOf
    <3>2. Resized(c, 0) = <<>>
      <4>1. Resized(c, 0) \in Contents /\ Len(Resized(c, 0)) = 0
        BY ResizedFacts
      <4> QED
        BY <4>1 DEF Contents
    <3> QED
      BY <1>1, <1>5, <2>3, <3>1, <3>2, TruncateUndone DEF RecordOf
  <2> QED
    BY <1>1, <2>1, <2>2, <2>3
<1> QED
  BY <1>2, <1>3, <1>4, <1>5 DEF Within

-----------------------------------------------------------------------------
(* The first half of a callback, whoever asks.                             *)
Filed ==
  /\ content \in Contents \cup {None}
  /\ log \in Seq(Record)
  /\ busy \in Request \cup {None}
  /\ past \in Seq(Contents)
  /\ silent \in SUBSET Nat
  /\ Len(past) = Len(log)
  /\ busy # None => content # None

LEMMA BeginTypes ==
  ASSUME Typed, NEW req \in Request, req.kind = "unlink" => req.at = 0, Begin(req)
  PROVE  Filed' /\ faults' \in Nat
<1>1. content \in Contents /\ content' = content /\ busy' = req
  BY DEF Typed, TypeOK, Begin
<1>2. /\ log \in Seq(Record)
      /\ past \in Seq(Contents)
      /\ silent \in SUBSET Nat
      /\ faults \in Nat
      /\ Len(past) = Len(log)
      /\ Len(log) \in Nat
  BY DEF Typed, TypeOK
<1>3. RecordOf(req, content) \in Record
  BY <1>1, RecordUndoes
<1>4. content' # None
  BY <1>1, NoneIsNot
<1>5. CASE log' = Append(log, RecordOf(req, content)) /\ past' = Append(past, content)
           /\ UNCHANGED <<silent, faults>>
  <2>1. log' \in Seq(Record) /\ Len(log') = Len(log) + 1
    BY <1>2, <1>3, <1>5
  <2>2. past' \in Seq(Contents) /\ Len(past') = Len(past) + 1
    BY <1>1, <1>2, <1>5
  <2> QED
    BY <1>1, <1>2, <1>4, <1>5, <2>1, <2>2 DEF Filed
<1>6. CASE Fault("log") /\ silent' = silent \cup {Len(log)} /\ UNCHANGED <<log, past>>
  <2>1. faults' \in Nat
    BY <1>2, <1>6 DEF Fault
  <2>2. silent' \in SUBSET Nat
    BY <1>2, <1>6
  <2> QED
    BY <1>1, <1>2, <1>4, <1>6, <2>1, <2>2 DEF Filed
<1> QED
  BY <1>5, <1>6 DEF Begin

LEMMA BeginKeeps ==
  ASSUME IInv, NEW req \in Request, req.kind = "unlink" => req.at = 0, Begin(req)
  PROVE  RecordsRestore' /\ Covered'
<1> DEFINE n == Len(log)
           r == RecordOf(req, content)
<1>1. /\ content \in Contents
      /\ content' = content
      /\ busy = None
      /\ busy' = req
      /\ BytesOf(content) = content
  BY BytesOfTypes DEF IInv, Typed, TypeOK, Begin
<1>2. /\ log \in Seq(Record)
      /\ past \in Seq(Contents)
      /\ Len(past) = n
      /\ n \in Nat
  BY DEF IInv, Typed, TypeOK
<1>3. CASE log' = Append(log, r) /\ past' = Append(past, content)
           /\ UNCHANGED <<silent, faults>>
  <2>1. /\ r \in Record
        /\ Within(r, content) /\ CutsAtEnd(r) =>
             /\ Undone(r, content) = content
             /\ Undone(r, BytesOf(Changed(req, content))) = content
    BY <1>1, RecordUndoes
  <2> HIDE DEF r
  <2>2. /\ Len(log') = n + 1
        /\ log'[n + 1] = r
        /\ past'[n + 1] = content
        /\ \A k \in 1 .. n : log'[k] = log[k] /\ past'[k] = past[k]
        /\ DOMAIN log' = 1 .. n + 1
        /\ DOMAIN log = 1 .. n
    BY <1>1, <1>2, <1>3, <2>1
  <2>3. ASSUME NEW k \in 1 .. n + 1, Within(log'[k], past'[k]), CutsAtEnd(log'[k]),
               k \notin silent'
        PROVE  Undone(log'[k], After(k)') = past'[k]
    <3>1. CASE k = n + 1
      <4>1. After(k)' = content
        BY <1>1, <2>2, <3>1 DEF After
      <4> QED
        BY <2>1, <2>2, <2>3, <3>1, <4>1
    <3>2. CASE k # n + 1
      <4>1. k \in 1 .. n /\ k # n + 1
        BY <1>2, <3>2
      <4>2. After(k)' = After(k)
        <5>1. CASE k = n
          <6>1. After(k)' = past'[n + 1] /\ After(k) = content
            BY <1>1, <2>2, <4>1, <5>1 DEF After
          <6> QED
            BY <2>2, <6>1
        <5>2. CASE k # n
          <6>1. k + 1 \in 1 .. n
            BY <1>2, <4>1, <5>2
          <6>2. After(k)' = past'[k + 1] /\ After(k) = past[k + 1]
            BY <2>2, <4>1, <5>2 DEF After
          <6> QED
            BY <2>2, <6>1, <6>2
        <5> QED
          BY <5>1, <5>2
      <4>3. Undone(log[k], After(k)) = past[k]
        <5>1. /\ Within(log[k], past[k]) /\ CutsAtEnd(log[k])
              /\ k \notin silent /\ k \in DOMAIN log
          BY <1>3, <2>2, <2>3, <4>1
        <5> QED
          BY <5>1 DEF IInv, RecordsRestore
      <4> QED
        BY <2>2, <4>1, <4>2, <4>3
    <3> QED
      BY <3>1, <3>2
  <2>4. RecordsRestore'
    BY <2>2, <2>3 DEF RecordsRestore
  <2>5. Covered'
    BY <1>1, <1>2, <2>1, <2>2 DEF Covered
  <2> QED
    BY <2>4, <2>5
<1>4. CASE Fault("log") /\ silent' = silent \cup {n} /\ UNCHANGED <<log, past>>
  <2>1. \A k : After(k)' = After(k)
    BY <1>1, <1>4 DEF After
  <2>2. RecordsRestore'
    BY <1>4, <2>1 DEF IInv, RecordsRestore
  <2>3. Covered'
    BY <1>4 DEF Covered
  <2> QED
    BY <2>2, <2>3
<1> QED
  BY <1>3, <1>4 DEF Begin

(* Nothing of this has changed.                                            *)
LEMMA SameFile ==
  ASSUME IInv, UNCHANGED <<log, past, silent>>,
         BytesOf(content)' = BytesOf(content),
         busy' = None \/ (busy' = busy /\ content' = content)
  PROVE  RecordsRestore' /\ Covered'
<1>1. \A k : After(k)' = After(k)
  BY DEF After
<1>2. RecordsRestore'
  BY <1>1 DEF IInv, RecordsRestore
<1>3. Covered'
  BY DEF IInv, Covered
<1> QED
  BY <1>2, <1>3

-----------------------------------------------------------------------------
(* The part of Typed that is about vrevert and the bounds.                 *)
Placed ==
  /\ pc \in Steps
  /\ next \in Nat
  /\ pc \in Active => next \in 1 .. Len(todo) /\ stop \in 1 .. next

Noted ==
  /\ todo \in Seq(Record)
  /\ stop \in Nat
  /\ stages \in Seq(Contents)
  /\ clean \in BOOLEAN
  /\ changes \in Nat
  /\ faults \in Nat

LEMMA TypedParts ==
  /\ Typed <=> Filed /\ Placed /\ Noted
  /\ Typed' <=> Filed' /\ Placed' /\ Noted'
  BY DEF Typed, TypeOK, Filed, Placed, Noted

LEMMA NextRecordPlaced ==
  ASSUME Placed, Noted, pc \in Active, NextRecord, UNCHANGED <<todo, stop>>
  PROVE  Placed'
  BY DEF Placed, Noted, NextRecord, Active, Steps

LEMMA AnsweredPlaced ==
  ASSUME Placed, Noted, Answered, UNCHANGED <<todo, stop>>
  PROVE  Placed'
<1>1. CASE pc = "writing" /\ todo[next].extendseof
  <2>1. pc' = "truncate" /\ next' = next
    BY <1>1 DEF Answered
  <2> QED
    BY <1>1, <2>1 DEF Placed, Active, Steps
<1>2. CASE pc \in {"writing", "truncating"} /\ ~ (pc = "writing" /\ todo[next].extendseof)
  <2>1. NextRecord
    BY <1>2 DEF Answered
  <2> QED
    BY <1>2, <2>1, NextRecordPlaced DEF Active
<1>3. CASE pc \notin {"writing", "truncating"}
  <2>1. pc' = pc /\ next' = next
    BY <1>3 DEF Answered
  <2> QED
    BY <2>1 DEF Placed
<1> QED
  BY <1>1, <1>2, <1>3

LEMMA GivesUpPlaced ==
  ASSUME Placed, Noted, GivesUpRecord, UNCHANGED <<todo, stop>>
  PROVE  Placed'
<1>1. CASE pc \in {"writing", "truncating"}
  BY <1>1, NextRecordPlaced DEF GivesUpRecord, Active
<1>2. CASE pc \notin {"writing", "truncating"}
  BY <1>2 DEF GivesUpRecord, Placed
<1> QED
  BY <1>1, <1>2

LEMMA FaultTypes ==
  ASSUME Noted, NEW kind, Fault(kind)
  PROVE  faults' \in Nat
  BY DEF Noted, Fault

-----------------------------------------------------------------------------
(* One lemma per action, or per group of actions that change the same.     *)
LEMMA InitIInv == Init => IInv
<1> SUFFICES ASSUME Init PROVE IInv
  OBVIOUS
<1>0. <<>> \in Seq(Record) /\ <<>> \in Seq(Contents) /\ Len(<<>>) = 0
  OBVIOUS
<1>1. Filed /\ Placed /\ Noted
  <2>1. Filed
    BY <1>0 DEF Init, Filed
  <2>2. Placed
    BY <1>0 DEF Init, Placed, Steps, Active
  <2>3. Noted
    BY <1>0 DEF Init, Noted
  <2> QED
    BY <2>1, <2>2, <2>3
<1>2. RecordsRestore /\ Covered
  BY DEF Init, RecordsRestore, Covered
<1> QED
  BY <1>1, <1>2, TypedParts DEF IInv

LEMMA UserIInv ==
  ASSUME IInv, NEW req \in Request, req.kind = "unlink" => req.at = 0, UserBegins(req)
  PROVE  IInv'
<1>1. Begin(req) /\ changes' = changes + 1 /\ clean' = FALSE /\ UNCHANGED vrevert
  BY DEF UserBegins
<1>2. Filed' /\ faults' \in Nat
  BY <1>1, BeginTypes DEF IInv
<1>3. Placed' /\ Noted'
  <2>1. Placed /\ Noted
    BY TypedParts DEF IInv
  <2>2. Placed'
    BY <1>1, <2>1 DEF Placed, vrevert
  <2>3. Noted'
    <3>1. changes' \in Nat
      BY <1>1, <2>1 DEF Noted
    <3>2. clean' \in BOOLEAN
      BY <1>1
    <3>3. todo' \in Seq(Record) /\ stop' \in Nat /\ stages' \in Seq(Contents)
      BY <1>1, <2>1 DEF Noted, vrevert
    <3> QED
      BY <1>2, <3>1, <3>2, <3>3 DEF Noted
  <2> QED
    BY <2>2, <2>3
<1> QED
  BY <1>1, <1>2, <1>3, BeginKeeps, TypedParts DEF IInv

LEMMA CreateIInv ==
  ASSUME IInv, Create
  PROVE  IInv'
<1>1. <<>> \in Contents
  BY DEF Contents
<1>2. Filed' /\ Placed' /\ Noted'
  BY <1>1, TypedParts DEF IInv, Create, Filed, Placed, Noted, vrevert
<1>3. BytesOf(content)' = BytesOf(content)
  BY DEF Create, BytesOf
<1>4. RecordsRestore' /\ Covered'
  BY <1>3, SameFile DEF Create
<1> QED
  BY <1>2, <1>4, TypedParts DEF IInv

LEMMA RemoveLogIInv ==
  ASSUME IInv, RemoveLog
  PROVE  IInv'
<1>1. Filed'
  BY TypedParts DEF IInv, RemoveLog, Filed
<1>2. Placed' /\ Noted'
  BY TypedParts DEF IInv, RemoveLog, Placed, Noted, vrevert
<1>3. RecordsRestore' /\ Covered'
  BY DEF RemoveLog, RecordsRestore, Covered
<1> QED
  BY <1>1, <1>2, <1>3, TypedParts DEF IInv

LEMMA StartIInv ==
  ASSUME IInv, NEW from \in DOMAIN log, Start(from)
  PROVE  IInv'
<1>1. Filed /\ Placed /\ Noted
  BY TypedParts DEF IInv
<1>2. Filed'
  BY <1>1 DEF Start, file, Filed
<1>3. BytesOf(content) \in Contents
  BY <1>1, BytesOfTypes DEF Filed
<1>4. stages' \in Seq(Contents)
  BY <1>1, <1>3 DEF Start, Filed
<1>5. from \in 1 .. Len(log) /\ Len(log) \in Nat
  BY <1>1 DEF Filed
<1>6. Placed'
  BY <1>5 DEF Start, Placed, Steps, Active
<1>7. clean' \in BOOLEAN
  BY DEF Start, Restorable
<1>8. Noted'
  BY <1>1, <1>4, <1>5, <1>7 DEF Start, Noted, Filed
<1>9. RecordsRestore' /\ Covered'
  BY SameFile DEF Start, file, BytesOf
<1> QED
  BY <1>2, <1>6, <1>8, <1>9, TypedParts DEF IInv

LEMMA OpenIInv ==
  ASSUME IInv, OpenForRecord
  PROVE  IInv'
<1>1. Filed /\ Placed /\ Noted
  BY TypedParts DEF IInv
<1>2. content' = BytesOf(content) /\ content' \in Contents /\ busy' = None
  BY <1>1, BytesOfTypes DEF Filed, OpenForRecord
<1>3. Filed'
  BY <1>1, <1>2 DEF OpenForRecord, Filed
<1>4. Noted'
  BY <1>1 DEF OpenForRecord, Noted
<1>5. Placed'
  <2>1. CASE todo[next].data # <<>>
    <3>1. pc' = "write" /\ next' = next
      BY <2>1 DEF OpenForRecord
    <3> QED
      BY <1>1, <3>1 DEF OpenForRecord, Placed, Active, Steps
  <2>2. CASE todo[next].data = <<>> /\ todo[next].extendseof
    <3>1. pc' = "truncate" /\ next' = next
      BY <2>2 DEF OpenForRecord
    <3> QED
      BY <1>1, <3>1 DEF OpenForRecord, Placed, Active, Steps
  <2>3. CASE todo[next].data = <<>> /\ ~ todo[next].extendseof
    <3>1. NextRecord
      BY <2>3 DEF OpenForRecord
    <3> QED
      BY <1>1, <3>1, NextRecordPlaced DEF OpenForRecord, Active
  <2> QED
    BY <2>1, <2>2, <2>3
<1>6. BytesOf(content)' = BytesOf(content)
  BY <1>1, <1>2, BytesOfTypes DEF Filed
<1>7. RecordsRestore' /\ Covered'
  BY <1>2, <1>6, SameFile DEF OpenForRecord
<1> QED
  BY <1>3, <1>4, <1>5, <1>7, TypedParts DEF IInv

LEMMA RecordRequests ==
  ASSUME Typed, pc \in Active
  PROVE  /\ todo[next] \in Record
         /\ [kind |-> "write", at |-> todo[next].offset, data |-> todo[next].data]
              \in Request
         /\ [kind |-> "truncate", at |-> CutPlace(todo[next]), data |-> <<>>] \in Request
<1>1. todo[next] \in Record
  BY DEF Typed, TypeOK
<1>2. todo[next].offset \in Nat /\ todo[next].data \in Contents
  BY <1>1 DEF Record
<1>3. CutPlace(todo[next]) \in Nat /\ <<>> \in Contents
  BY <1>1, CutPlaceFacts DEF Contents
<1> QED
  BY <1>1, <1>2, <1>3 DEF Request

LEMMA WriteBackIInv ==
  ASSUME IInv, WriteBack
  PROVE  IInv'
<1> DEFINE req == [kind |-> "write", at |-> todo[next].offset, data |-> todo[next].data]
<1>1. Placed /\ Noted /\ pc \in Active
  BY TypedParts DEF IInv, WriteBack, Active
<1>2. req \in Request /\ req.kind # "unlink" /\ Begin(req)
  BY <1>1, RecordRequests DEF IInv, WriteBack
<1>3. Filed' /\ faults' \in Nat
  BY <1>2, BeginTypes DEF IInv
<1>4. Placed' /\ Noted'
  BY <1>1, <1>3 DEF WriteBack, Placed, Noted, Active, Steps
<1> QED
  BY <1>2, <1>3, <1>4, BeginKeeps, TypedParts DEF IInv

LEMMA CutBackIInv ==
  ASSUME IInv, CutBack
  PROVE  IInv'
<1> DEFINE req == [kind |-> "truncate", at |-> CutPlace(todo[next]), data |-> <<>>]
<1>1. Placed /\ Noted /\ pc \in Active
  BY TypedParts DEF IInv, CutBack, Active
<1>2. req \in Request /\ req.kind # "unlink" /\ Begin(req)
  BY <1>1, RecordRequests DEF IInv, CutBack
<1>3. Filed' /\ faults' \in Nat
  BY <1>2, BeginTypes DEF IInv
<1>4. Placed' /\ Noted'
  BY <1>1, <1>3 DEF CutBack, Placed, Noted, Active, Steps
<1> QED
  BY <1>2, <1>3, <1>4, BeginKeeps, TypedParts DEF IInv

LEMMA GoneIInv ==
  ASSUME IInv, Gone
  PROVE  IInv'
<1>0. <<>> \in Seq(Record) /\ <<>> \in Seq(Contents) /\ Len(<<>>) = 0
  OBVIOUS
<1>1. Filed' /\ Placed' /\ Noted'
  <2>1. Filed /\ Noted
    BY TypedParts DEF IInv
  <2>2. Filed'
    BY <2>1 DEF Gone, file, Filed
  <2>3. Placed'
    BY <1>0 DEF Gone, Placed, Active, Steps
  <2>4. Noted'
    BY <1>0, <2>1 DEF Gone, Noted
  <2> QED
    BY <2>2, <2>3, <2>4
<1>2. RecordsRestore' /\ Covered'
  BY SameFile DEF Gone, file, BytesOf
<1> QED
  BY <1>1, <1>2, TypedParts DEF IInv

(* The change is made: what Covered said of it, RecordsRestore says now.   *)
LEMMA ApplyIInv ==
  ASSUME IInv, Apply
  PROVE  IInv'
<1>1. Filed /\ Placed /\ Noted
  BY TypedParts DEF IInv
<1>2. /\ busy \in Request
      /\ content \in Contents
      /\ content' = Changed(busy, content)
      /\ busy' = None
  BY <1>1 DEF Filed, Apply
<1>3. Filed'
  BY <1>1, <1>2, ChangedTypes DEF Filed, Apply
<1>4. Placed'
  BY <1>1, AnsweredPlaced DEF Apply
<1>5. Noted'
  BY <1>1 DEF Noted, Apply
<1>6. ASSUME NEW k \in DOMAIN log, Within(log[k], past[k]), CutsAtEnd(log[k]),
             k \notin silent
      PROVE  Undone(log[k], After(k)') = past[k]
  <2>1. CASE k = Len(log)
    <3>1. After(k)' = BytesOf(Changed(busy, content))
      BY <1>2, <2>1 DEF After, Apply, BytesOf
    <3> QED
      BY <1>2, <1>6, <2>1, <3>1, NoneIsNot DEF IInv, Covered
  <2>2. CASE k # Len(log)
    <3>1. After(k)' = After(k)
      BY <2>2 DEF After, Apply
    <3> QED
      BY <1>6, <3>1 DEF IInv, RecordsRestore
  <2> QED
    BY <2>1, <2>2
<1>7. RecordsRestore'
  BY <1>6 DEF RecordsRestore, Apply
<1>8. Covered'
  BY <1>2 DEF Covered
<1> QED
  BY <1>3, <1>4, <1>5, <1>7, <1>8, TypedParts DEF IInv

LEMMA FailIInv ==
  ASSUME IInv, ChangeFails \/ Crash
  PROVE  IInv'
<1>1. Filed /\ Placed /\ Noted
  BY TypedParts DEF IInv
<1>2. /\ busy' = None
      /\ clean' = FALSE
      /\ UNCHANGED <<content, log, past, silent, todo, stop, stages, changes>>
      /\ GivesUpRecord \/ (pc \in Active /\ NextRecord) \/ UNCHANGED <<pc, next>>
      /\ \E kind \in {"change", "crash"} : Fault(kind)
  <2>1. CASE ChangeFails
    BY <2>1 DEF ChangeFails
  <2>2. CASE Crash
    <3>1. pc \in Steps
      BY <1>1 DEF Placed
    <3>2. UNCHANGED <<pc, next>> \/ (pc \in Active /\ NextRecord)
      BY <2>2, <3>1 DEF Crash, Active, Steps
    <3> QED
      BY <2>2, <3>2 DEF Crash
  <2> QED
    BY <2>1, <2>2
<1>3. Filed'
  BY <1>1, <1>2 DEF Filed
<1>4. Noted'
  BY <1>1, <1>2, FaultTypes DEF Noted
<1>5. Placed'
  <2>1. CASE UNCHANGED <<pc, next>>
    BY <1>1, <1>2, <2>1 DEF Placed
  <2>2. CASE ~ UNCHANGED <<pc, next>>
    BY <1>1, <1>2, <2>2, GivesUpPlaced, NextRecordPlaced
  <2> QED
    BY <2>1, <2>2
<1>6. RecordsRestore' /\ Covered'
  BY <1>2, SameFile DEF BytesOf
<1> QED
  BY <1>3, <1>4, <1>5, <1>6, TypedParts DEF IInv

(* The file may have been made; nothing else is touched.                   *)
LEMMA OpenFailsIInv ==
  ASSUME IInv, OpenFails
  PROVE  IInv'
<1>1. Filed /\ Placed /\ Noted
  BY TypedParts DEF IInv
<1>2. /\ busy = None /\ busy' = None /\ pc \in Active /\ NextRecord
      /\ content' \in {content, BytesOf(content)} /\ Fault("open")
      /\ UNCHANGED <<log, past, silent, todo, stop, stages, changes>> /\ clean' = FALSE
  BY DEF OpenFails, Active
<1>3. content' \in Contents \cup {None} /\ BytesOf(content)' = BytesOf(content)
  <2>1. content \in Contents \cup {None}
    BY <1>1 DEF Filed
  <2>2. CASE content' = content
    BY <2>1, <2>2 DEF BytesOf
  <2>3. CASE content' = BytesOf(content)
    BY <2>1, <2>3, BytesOfTypes
  <2> QED
    BY <1>2, <2>2, <2>3
<1>4. Filed'
  BY <1>1, <1>2, <1>3 DEF Filed
<1>5. Placed'
  BY <1>1, <1>2, NextRecordPlaced
<1>6. faults' \in Nat
  BY <1>1, <1>2, FaultTypes
<1>7. Noted'
  BY <1>1, <1>2, <1>6 DEF Noted
<1>8. RecordsRestore' /\ Covered'
  BY <1>2, <1>3, SameFile
<1> QED
  BY <1>4, <1>5, <1>7, <1>8, TypedParts DEF IInv

(* The last record is from now on one after which a change has none.       *)
LEMMA RenameIInv ==
  ASSUME IInv, content' \in Contents \cup {None}, Renamed
  PROVE  IInv'
<1>1. Filed /\ Placed /\ Noted
  BY TypedParts DEF IInv
<1>2. /\ busy = None /\ busy' = None /\ changes' = changes + 1 /\ clean' = FALSE
      /\ silent' = silent \cup {Len(log)}
      /\ UNCHANGED <<log, past, pc, todo, next, stop, stages, faults>>
  BY DEF Renamed, vrevert
<1>3. Filed'
  <2>1. Len(log) \in Nat
    BY <1>1 DEF Filed
  <2>2. silent' \in SUBSET Nat
    BY <1>1, <1>2, <2>1 DEF Filed
  <2> QED
    BY <1>1, <1>2, <2>2 DEF Filed
<1>4. Placed'
  BY <1>1, <1>2 DEF Placed
<1>5. changes' \in Nat
  BY <1>1, <1>2 DEF Noted
<1>6. Noted'
  BY <1>1, <1>2, <1>5 DEF Noted
<1>7. ASSUME NEW k \in DOMAIN log, Within(log[k], past[k]), CutsAtEnd(log[k]),
             k \notin silent'
      PROVE  Undone(log[k], After(k)') = past[k]
  <2>1. k # Len(log) /\ k \notin silent
    BY <1>2, <1>7
  <2>2. After(k)' = After(k)
    BY <1>2, <2>1 DEF After
  <2> QED
    BY <1>7, <2>1, <2>2 DEF IInv, RecordsRestore
<1>8. RecordsRestore' /\ Covered'
  BY <1>2, <1>7 DEF RecordsRestore, Covered
<1> QED
  BY <1>3, <1>4, <1>6, <1>8, TypedParts DEF IInv

LEMMA StutterIInv ==
  ASSUME IInv, UNCHANGED vars
  PROVE  IInv'
<1>1. Filed' /\ Placed' /\ Noted'
  BY TypedParts DEF IInv, vars, Filed, Placed, Noted
<1>2. RecordsRestore' /\ Covered'
  BY DEF IInv, vars, RecordsRestore, Covered, After, BytesOf
<1> QED
  BY <1>1, <1>2, TypedParts DEF IInv

LEMMA NextIInv == IInv /\ [Next]_vars => IInv'
<1> SUFFICES ASSUME IInv, [Next]_vars PROVE IInv'
  OBVIOUS
<1>1. CASE Create
  BY <1>1, CreateIInv
<1>2. ASSUME NEW at \in 0 .. MaxSize, NEW d \in Payloads, Write(at, d)
      PROVE  IInv'
  <2>1. [kind |-> "write", at |-> at, data |-> d] \in Request
    BY FileAssumption DEF Request
  <2> QED
    BY <1>2, <2>1, UserIInv DEF Write
<1>3. ASSUME NEW n \in 0 .. MaxSize, Truncate(n)
      PROVE  IInv'
  <2>1. <<>> \in Contents
    BY DEF Contents
  <2>2. [kind |-> "truncate", at |-> n, data |-> <<>>] \in Request
    BY <2>1, FileAssumption DEF Request
  <2> QED
    BY <1>3, <2>2, UserIInv DEF Truncate
<1>4. CASE Unlink
  <2>1. <<>> \in Contents
    BY DEF Contents
  <2>2. [kind |-> "unlink", at |-> 0, data |-> <<>>] \in Request
    BY <2>1 DEF Request
  <2> QED
    BY <1>4, <2>2, UserIInv DEF Unlink
<1>5. CASE RemoveLog
  BY <1>5, RemoveLogIInv
<1>6. ASSUME NEW from \in DOMAIN log, Start(from)
      PROVE  IInv'
  BY <1>6, StartIInv
<1>7. CASE OpenForRecord
  BY <1>7, OpenIInv
<1>8. CASE WriteBack
  BY <1>8, WriteBackIInv
<1>9. CASE CutBack
  BY <1>9, CutBackIInv
<1>10. CASE Exit \/ Interrupt
  BY <1>10, GoneIInv DEF Exit, Interrupt
<1>11. CASE Apply
  BY <1>11, ApplyIInv
<1>12. CASE ChangeFails \/ Crash
  BY <1>12, FailIInv
<1>13. CASE UNCHANGED vars
  BY <1>13, StutterIInv
<1>14. CASE OpenFails
  BY <1>14, OpenFailsIInv
<1>15. CASE RenameAway
  BY <1>15, RenameIInv DEF RenameAway
<1>16. ASSUME NEW d \in Payloads, RenameOnto(d)
       PROVE  IInv'
  <2>1. content' \in Contents
    BY <1>16, FileAssumption DEF RenameOnto
  <2> QED
    BY <1>16, <2>1, RenameIInv DEF RenameOnto
<1> QED
  BY <1>1, <1>2, <1>3, <1>4, <1>5, <1>6, <1>7, <1>8, <1>9, <1>10, <1>11, <1>12,
     <1>13, <1>14, <1>15, <1>16 DEF Next

LEMMA Always == Spec => []IInv
  BY InitIInv, NextIInv, PTL DEF Spec

-----------------------------------------------------------------------------
(* Every reachable state of the daemon and of vrevert is well typed, for   *)
(* any bytes, bounds and faults.                                           *)
THEOREM TypeCorrect == Spec => []TypeOK
<1>1. IInv => TypeOK
  BY DEF IInv, Typed
<1> QED
  BY <1>1, Always, PTL

(* No earlier state of the file is lost: ver_updateversion's record gives  *)
(* it back, whatever came of the change, a crash or a failure included,    *)
(* unless vutils.pl:323 cuts the file elsewhere (CutsAtEnd, 4 GiB and up). *)
THEOREM NoStateIsLost == Spec => []RecordsRestore
<1>1. IInv => RecordsRestore
  BY DEF IInv
<1> QED
  BY <1>1, Always, PTL

-----------------------------------------------------------------------------
(* An undisturbed vrevert goes down the stages of the file one by one: what *)
(* it has read takes each stage to the one before.                         *)
Ladder ==
  /\ pc # "idle"
  /\ Len(stages) = Len(todo) + 1
  /\ stop \in 1 .. Len(todo)
  /\ \A k \in stop .. Len(todo) : Undone(todo[k], stages[k + 1]) = stages[k]

WriteOf(r) == [kind |-> "write", at |-> r.offset, data |-> r.data]
CutOf(r) == [kind |-> "truncate", at |-> CutPlace(r), data |-> <<>>]

(* Where it stands between two stages, and what the daemon does for it.    *)
Rung ==
  /\ pc \notin {"writing", "truncating"} => busy = None
  /\ pc = "open" => BytesOf(content) = stages[next + 1]
  /\ pc \in {"write", "writing"} => content = stages[next + 1]
  /\ pc = "writing" => busy = WriteOf(todo[next])
  /\ pc \in {"truncate", "truncating"} =>
       /\ todo[next].extendseof
       /\ content = Overwritten(stages[next + 1], todo[next].offset, todo[next].data)
  /\ pc = "truncating" => busy = CutOf(todo[next])
  /\ pc = "done" => BytesOf(content) = stages[stop]

Staged == clean => Ladder /\ Rung

LEMMA LadderStays ==
  ASSUME Ladder, pc' # "idle", UNCHANGED <<todo, stop, stages>>
  PROVE  Ladder'
  BY DEF Ladder

LEMMA StepDown ==
  ASSUME Typed, pc \in Active, NextRecord, UNCHANGED <<todo, stop, stages>>,
         busy' = None, BytesOf(content') = stages[next]
  PROVE  Rung' /\ pc' # "idle"
<1>1. next \in Nat /\ next' = next - 1 /\ next' + 1 = next
  BY DEF Typed, TypeOK, NextRecord
<1>2. BytesOf(content)' = stages[next]
  BY DEF BytesOf
<1>3. CASE next = stop
  <2>1. pc' = "done"
    BY <1>3 DEF NextRecord
  <2> QED
    BY <1>2, <1>3, <2>1 DEF Rung
<1>4. CASE next # stop
  <2>1. pc' = "open"
    BY <1>4 DEF NextRecord
  <2> QED
    BY <1>1, <1>2, <2>1 DEF Rung
<1> QED
  BY <1>3, <1>4

(* The record at hand, and the stages on its two sides.                    *)
LEMMA AtRecord ==
  ASSUME Typed, Ladder, pc \in Active
  PROVE  /\ todo[next] \in Record
         /\ todo[next].offset \in Nat
         /\ todo[next].data \in Contents
         /\ todo[next].extendseof \in BOOLEAN
         /\ stages[next + 1] \in Contents
         /\ Undone(todo[next], stages[next + 1]) = stages[next]
<1>1. todo \in Seq(Record) /\ stages \in Seq(Contents) /\ stop \in Nat /\ next \in Nat
  BY DEF Typed, TypeOK
<1>2. Len(todo) \in Nat /\ next \in 1 .. Len(todo) /\ next \in stop .. Len(todo)
  BY <1>1 DEF Typed
<1>3. todo[next] \in Record
  BY <1>1, <1>2
<1>4. next + 1 \in 1 .. Len(stages)
  BY <1>2 DEF Ladder
<1>5. stages[next + 1] \in Contents
  BY <1>1, <1>4
<1>6. Undone(todo[next], stages[next + 1]) = stages[next]
  BY <1>2 DEF Ladder
<1> QED
  BY <1>3, <1>5, <1>6 DEF Record

LEMMA StartStaged ==
  ASSUME IInv, NEW from \in DOMAIN log, Start(from)
  PROVE  Staged'
<1> SUFFICES ASSUME clean' PROVE Ladder' /\ Rung'
  BY DEF Staged
<1>1. /\ log \in Seq(Record) /\ past \in Seq(Contents) /\ Len(past) = Len(log)
      /\ content \in Contents \cup {None}
      /\ from \in 1 .. Len(log) /\ Len(log) \in Nat
  BY DEF IInv, Typed, TypeOK
<1>2. /\ pc' = "open" /\ todo' = log /\ next' = Len(log) /\ stop' = from
      /\ stages' = Append(past, BytesOf(content)) /\ busy' = None /\ content' = content
  BY DEF Start, file
<1>3. BytesOf(content) \in Contents
  BY <1>1, BytesOfTypes
<1> HIDE DEF Contents
<1>4. /\ Len(stages') = Len(log) + 1
      /\ stages'[Len(log) + 1] = BytesOf(content)
      /\ \A k \in 1 .. Len(log) : stages'[k] = past[k]
  BY <1>1, <1>2, <1>3
<1>5. Restorable(from)
  BY DEF Start
<1>6. ASSUME NEW k \in from .. Len(log)
      PROVE  Undone(todo'[k], stages'[k + 1]) = stages'[k]
  <2>1. k \in 1 .. Len(log) /\ k \in DOMAIN log /\ k \in Nat
    BY <1>1
  <2>2. Within(log[k], past[k]) /\ CutsAtEnd(log[k]) /\ k \notin silent
    BY <1>5 DEF Restorable
  <2>3. Undone(log[k], After(k)) = past[k]
    BY <2>1, <2>2 DEF IInv, RecordsRestore
  <2>4. stages'[k + 1] = After(k)
    <3>1. CASE k = Len(log)
      BY <1>4, <3>1 DEF After
    <3>2. CASE k # Len(log)
      <4>1. k + 1 \in 1 .. Len(log)
        BY <1>1, <2>1, <3>2
      <4> QED
        BY <1>4, <3>2, <4>1 DEF After
    <3> QED
      BY <3>1, <3>2
  <2> QED
    BY <1>2, <1>4, <2>1, <2>3, <2>4
<1>7. Ladder'
  BY <1>1, <1>2, <1>4, <1>6 DEF Ladder
<1>8. BytesOf(content)' = stages'[next' + 1]
  BY <1>2, <1>4 DEF BytesOf
<1>9. Rung'
  BY <1>2, <1>8 DEF Rung
<1> QED
  BY <1>7, <1>9

LEMMA OpenStaged ==
  ASSUME IInv, Staged, OpenForRecord
  PROVE  Staged'
<1> SUFFICES ASSUME clean' PROVE Ladder' /\ Rung'
  BY DEF Staged
<1>1. /\ Typed /\ Ladder /\ Rung /\ pc = "open" /\ pc \in Active
      /\ UNCHANGED <<todo, stop, stages>>
      /\ content' = BytesOf(content) /\ busy' = None
  BY DEF IInv, Staged, OpenForRecord, Active
<1>2. content \in Contents \cup {None} /\ content' = stages[next + 1]
  BY <1>1 DEF Typed, TypeOK, Rung
<1>3. /\ stages[next + 1] \in Contents
      /\ todo[next].extendseof \in BOOLEAN
      /\ Undone(todo[next], stages[next + 1]) = stages[next]
  BY <1>1, AtRecord
<1>4. CASE todo[next].data # <<>>
  <2>1. pc' = "write" /\ next' = next
    BY <1>4 DEF OpenForRecord
  <2>2. Rung'
    BY <1>1, <1>2, <2>1 DEF Rung
  <2> QED
    BY <1>1, <2>1, <2>2, LadderStays
<1>5. CASE todo[next].data = <<>>
  <2>1. Overwritten(stages[next + 1], todo[next].offset, todo[next].data) = stages[next + 1]
    BY <1>5, NothingOverwritten
  <2>2. CASE todo[next].extendseof
    <3>1. pc' = "truncate" /\ next' = next
      BY <1>5, <2>2 DEF OpenForRecord
    <3>2. Rung'
      BY <1>1, <1>2, <2>1, <2>2, <3>1 DEF Rung
    <3> QED
      BY <1>1, <3>1, <3>2, LadderStays
  <2>3. CASE ~ todo[next].extendseof
    <3>1. NextRecord
      BY <1>5, <2>3 DEF OpenForRecord
    <3>2. stages[next] = stages[next + 1]
      BY <1>3, <2>1, <2>3 DEF Undone
    <3>3. BytesOf(content') = stages[next]
      BY <1>2, <1>3, <3>2, BytesOfTypes, NoneIsNot
    <3>4. Rung' /\ pc' # "idle"
      BY <1>1, <3>1, <3>3, StepDown
    <3> QED
      BY <1>1, <3>4, LadderStays
  <2> QED
    BY <2>2, <2>3
<1> QED
  BY <1>4, <1>5

LEMMA BackStaged ==
  ASSUME IInv, Staged, WriteBack \/ CutBack
  PROVE  Staged'
<1> SUFFICES ASSUME clean' PROVE Ladder' /\ Rung'
  BY DEF Staged
<1>1. /\ Ladder /\ Rung
      /\ UNCHANGED <<content, todo, next, stop, stages>>
  BY DEF Staged, WriteBack, CutBack, Begin
<1>2. CASE WriteBack
  <2>1. pc = "write" /\ pc' = "writing" /\ busy' = WriteOf(todo[next])
    BY <1>2 DEF WriteBack, Begin, WriteOf
  <2>2. busy' = WriteOf(todo[next])'
    BY <1>1, <2>1 DEF WriteOf
  <2>3. content' = stages'[next' + 1]
    BY <1>1, <2>1 DEF Rung
  <2>4. Rung'
    BY <2>1, <2>2, <2>3 DEF Rung
  <2> QED
    BY <1>1, <2>1, <2>4, LadderStays
<1>3. CASE CutBack
  <2>1. pc = "truncate" /\ pc' = "truncating" /\ busy' = CutOf(todo[next])
    BY <1>3 DEF CutBack, Begin, CutOf
  <2>2. busy' = CutOf(todo[next])'
    BY <1>1, <2>1 DEF CutOf
  <2>3. todo'[next'].extendseof
        /\ content' = Overwritten(stages'[next' + 1], todo'[next'].offset, todo'[next'].data)
    BY <1>1, <2>1 DEF Rung
  <2>4. Rung'
    BY <2>1, <2>2, <2>3 DEF Rung
  <2> QED
    BY <1>1, <2>1, <2>4, LadderStays
<1> QED
  BY <1>2, <1>3

LEMMA ApplyStaged ==
  ASSUME IInv, Staged, Apply
  PROVE  Staged'
<1> SUFFICES ASSUME clean' PROVE Ladder' /\ Rung'
  BY DEF Staged
<1>1. /\ Typed /\ Ladder /\ Rung
      /\ content' = Changed(busy, content) /\ busy # None /\ busy' = None /\ Answered
      /\ UNCHANGED <<todo, stop, stages>>
  BY DEF IInv, Staged, Apply
<1>2. pc \in {"writing", "truncating"} /\ pc \in Active
  BY <1>1 DEF Rung, Active
<1> DEFINE r == todo[next]
           s == stages[next + 1]
<1>3. /\ r \in Record /\ r.offset \in Nat /\ r.data \in Contents /\ s \in Contents
      /\ r.extendseof \in BOOLEAN
      /\ Undone(r, s) = stages[next]
  BY <1>1, <1>2, AtRecord
<1>4. Undone(r, s) \in Contents
  BY <1>3, UndoneTypes
<1>5. CASE pc = "writing"
  <2>1. content' = Overwritten(s, r.offset, r.data)
    BY <1>1, <1>5 DEF Rung, WriteOf, Changed
  <2>2. CASE r.extendseof
    <3>1. pc' = "truncate" /\ next' = next
      BY <1>1, <1>5, <2>2 DEF Answered
    <3>2. Rung'
      BY <1>1, <2>1, <2>2, <3>1 DEF Rung
    <3> QED
      BY <1>1, <3>1, <3>2, LadderStays
  <2>3. CASE ~ r.extendseof
    <3>1. NextRecord
      BY <1>1, <1>5, <2>3 DEF Answered
    <3>2. content' = stages[next]
      BY <1>3, <2>1, <2>3 DEF Undone
    <3>3. BytesOf(content') = stages[next]
      BY <1>3, <1>4, <3>2, BytesOfTypes, NoneIsNot
    <3>4. Rung' /\ pc' # "idle"
      BY <1>1, <1>2, <3>1, <3>3, StepDown
    <3> QED
      BY <1>1, <3>4, LadderStays
  <2> QED
    BY <2>2, <2>3
<1>6. CASE pc = "truncating"
  <2>1. /\ r.extendseof
        /\ content = Overwritten(s, r.offset, r.data)
        /\ busy = CutOf(r)
    BY <1>1, <1>6 DEF Rung
  <2>2. content' = Resized(content, CutPlace(r))
    BY <1>1, <2>1 DEF CutOf, Changed
  <2>3. content' = stages[next]
    BY <1>3, <2>1, <2>2 DEF Undone
  <2>4. NextRecord
    BY <1>1, <1>6 DEF Answered
  <2>5. BytesOf(content') = stages[next]
    BY <1>3, <1>4, <2>3, BytesOfTypes, NoneIsNot
  <2>6. Rung' /\ pc' # "idle"
    BY <1>1, <1>2, <2>4, <2>5, StepDown
  <2> QED
    BY <1>1, <2>6, LadderStays
<1> QED
  BY <1>2, <1>5, <1>6

(* A file that is made while vrevert runs was missing, and was not one of  *)
(* the stages.                                                             *)
LEMMA CreateStaged ==
  ASSUME IInv, Staged, Create
  PROVE  Staged'
<1> SUFFICES ASSUME clean' PROVE Ladder' /\ Rung'
  BY DEF Staged
<1>1. /\ Typed /\ Ladder /\ Rung /\ content = None /\ content' = <<>> /\ busy = None
      /\ UNCHANGED <<busy, pc, todo, next, stop, stages>>
  BY DEF IInv, Staged, Create, vrevert
<1>2. Ladder'
  BY <1>1, LadderStays DEF Ladder
<1>3. BytesOf(content)' = BytesOf(content)
  BY <1>1 DEF BytesOf
<1>4. CASE pc \in {"write", "writing", "truncate", "truncating"}
  <2>1. /\ stages[next + 1] \in Contents
        /\ todo[next].offset \in Nat
        /\ todo[next].data \in Contents
    BY <1>1, <1>4, AtRecord DEF Active
  <2>2. Overwritten(stages[next + 1], todo[next].offset, todo[next].data) \in Contents
    BY <2>1, OverwrittenFacts, NothingOverwritten
  <2>3. content \in Contents
    BY <1>1, <1>4, <2>1, <2>2 DEF Rung
  <2> QED
    BY <1>1, <2>3, NoneIsNot
<1>5. CASE pc \notin {"write", "writing", "truncate", "truncating"}
  <2>1. Rung'
    BY <1>1, <1>3, <1>5 DEF Rung
  <2> QED
    BY <1>2, <2>1
<1> QED
  BY <1>4, <1>5

LEMMA SameStaged ==
  ASSUME Staged, UNCHANGED <<content, busy, pc, todo, next, stop, stages, clean>>
  PROVE  Staged'
  BY DEF Staged, Ladder, Rung, BytesOf, WriteOf, CutOf

LEMMA NextStaged == IInv /\ Staged /\ [Next]_vars => Staged'
<1> SUFFICES ASSUME IInv, Staged, [Next]_vars PROVE Staged'
  OBVIOUS
<1>1. CASE Create
  BY <1>1, CreateStaged
<1>2. ASSUME NEW at \in 0 .. MaxSize, NEW d \in Payloads, Write(at, d)
      PROVE  Staged'
  BY <1>2 DEF Write, UserBegins, Staged
<1>3. ASSUME NEW n \in 0 .. MaxSize, Truncate(n)
      PROVE  Staged'
  BY <1>3 DEF Truncate, UserBegins, Staged
<1>4. CASE Unlink
  BY <1>4 DEF Unlink, UserBegins, Staged
<1>5. CASE RemoveLog
  BY <1>5, SameStaged DEF RemoveLog, vrevert
<1>6. ASSUME NEW from \in DOMAIN log, Start(from)
      PROVE  Staged'
  BY <1>6, StartStaged
<1>7. CASE OpenForRecord
  BY <1>7, OpenStaged
<1>8. CASE WriteBack \/ CutBack
  BY <1>8, BackStaged
<1>9. CASE Exit \/ Interrupt
  BY <1>9 DEF Exit, Interrupt, Gone, Staged
<1>10. CASE Apply
  BY <1>10, ApplyStaged
<1>11. CASE ChangeFails \/ Crash
  BY <1>11 DEF ChangeFails, Crash, Staged
<1>12. CASE UNCHANGED vars
  BY <1>12, SameStaged DEF vars
<1>13. CASE OpenFails
  BY <1>13 DEF OpenFails, Staged
<1>14. CASE RenameAway
  BY <1>14 DEF RenameAway, Renamed, Staged
<1>15. ASSUME NEW d \in Payloads, RenameOnto(d)
       PROVE  Staged'
  BY <1>15 DEF RenameOnto, Renamed, Staged
<1> QED
  BY <1>1, <1>2, <1>3, <1>4, <1>5, <1>6, <1>7, <1>8, <1>9, <1>10, <1>11, <1>12,
     <1>13, <1>14, <1>15 DEF Next

(* vrevert restores: when it is done with the records it was told to       *)
(* revert, each of which RecordsRestore speaks of, and nobody came between, *)
(* the file is as it was before the first of them, however many it reverted *)
(* and wherever the daemon was stopped before.                             *)
THEOREM UndisturbedRevertRestores == Spec => []RevertRestores
<1>1. Init => Staged
  BY DEF Init, Staged
<1>2. Staged => RevertRestores
  BY DEF Staged, Rung, RevertRestores
<1> QED
  BY <1>1, <1>2, NextStaged, Always, PTL DEF Spec

-----------------------------------------------------------------------------
(* The log as bytes.                                                       *)

(* Among numbers there is a least one: what induction over a log rests on. *)
LEMMA Least ==
  ASSUME NEW S, S \subseteq Nat, S # {}
  PROVE  \E m \in S : \A j \in Nat : j < m => j \notin S
<1>1. PICK below : below = OpToRel(<, Nat)
  OBVIOUS
<1>2. PICK m \in S : \A j \in S : ~ (<<j, m>> \in below)
  BY <1>1, NatLessThanWellFounded, WFMin
<1>3. \A j \in Nat : j < m => <<j, m>> \in below
  BY <1>1, <1>2 DEF OpToRel
<1> QED
  BY <1>2, <1>3

TwoTo32 == 4294967296

LEMMA FourBytes ==
  ASSUME NEW n \in Nat, n < TwoTo32
  PROVE  (n % 256) + 256 * ((n \div 256) % 256) + 65536 * ((n \div 65536) % 256)
           + 16777216 * ((n \div 16777216) % 256) = n
  BY DEF TwoTo32

LEMMA PlaceFacts ==
  Place[1] = 1 /\ Place[2] = 256 /\ Place[3] = 65536 /\ Place[4] = 16777216
  BY DEF Place

(* Four bytes that are a number, the lowest first.                         *)
Spells(p, n) == p[1] + 256 * p[2] + 65536 * p[3] + 16777216 * p[4] = n

IsWide(w, n, width) ==
  /\ w \in Seq(Nat) /\ Len(w) = width
  /\ n < TwoTo32 => Spells(w, n)
  /\ \A i \in 5 .. width : w[i] = 0

LEMMA WideFacts ==
  ASSUME NEW n \in Nat, NEW width \in Nat, width >= 4
  PROVE  IsWide(Wide(n, width), n, width)
<1>1. PICK w : w = Wide(n, width)
  OBVIOUS
<1>2. w = [i \in 1 .. width |-> IF i > 4 THEN 0 ELSE (n \div Place[i]) % 256]
  BY <1>1 DEF Wide
<1>3. \A i \in 1 .. 4 : (n \div Place[i]) % 256 \in Nat
  <2> TAKE i \in 1 .. 4
  <2>1. i = 1 \/ i = 2 \/ i = 3 \/ i = 4
    OBVIOUS
  <2>2. PICK p \in Nat : p = Place[i] /\ p > 0
    BY <2>1, PlaceFacts
  <2> QED
    BY <2>2
<1>4. \A i \in 1 .. width : (IF i > 4 THEN 0 ELSE (n \div Place[i]) % 256) \in Nat
  <2> TAKE i \in 1 .. width
  <2>1. CASE i > 4
    BY <2>1
  <2>2. CASE ~ (i > 4)
    <3>1. i \in 1 .. 4
      BY <2>2
    <3> QED
      BY <1>3, <2>2, <3>1
  <2> QED
    BY <2>1, <2>2
<1>5. w \in [1 .. width -> Nat]
  BY <1>2, <1>4
<1>6. w \in Seq(Nat) /\ Len(w) = width
  BY <1>5
<1>7. \A i \in 5 .. width : w[i] = 0
  BY <1>2
<1>8. /\ w[1] = (n \div 1) % 256 /\ w[2] = (n \div 256) % 256
      /\ w[3] = (n \div 65536) % 256 /\ w[4] = (n \div 16777216) % 256
  <2>1. 1 \in 1 .. width /\ 2 \in 1 .. width /\ 3 \in 1 .. width /\ 4 \in 1 .. width
    OBVIOUS
  <2>2. w[1] = (n \div Place[1]) % 256
    BY <1>2, <2>1
  <2>3. w[2] = (n \div Place[2]) % 256
    BY <1>2, <2>1
  <2>4. w[3] = (n \div Place[3]) % 256
    BY <1>2, <2>1
  <2>5. w[4] = (n \div Place[4]) % 256
    BY <1>2, <2>1
  <2> QED
    BY <2>2, <2>3, <2>4, <2>5, PlaceFacts
<1>9. n < TwoTo32 => Spells(w, n)
  <2>1. n \div 1 = n
    OBVIOUS
  <2> QED
    BY <1>8, <2>1, FourBytes DEF Spells
<1> QED
  BY <1>1, <1>6, <1>7, <1>9 DEF IsWide

Small(r) == r \in Record /\ r.offset < TwoTo32 /\ Len(r.data) < TwoTo32

LEMMA SmallFacts ==
  ASSUME NEW r, Small(r)
  PROVE  /\ r.offset \in Nat /\ r.data \in Seq(Bytes) /\ r.data \in Seq(Nat)
         /\ Len(r.data) \in Nat /\ r.extendseof \in BOOLEAN
<1>1. r.offset \in Nat /\ r.data \in Seq(Bytes) /\ r.extendseof \in BOOLEAN
  BY DEF Small, Record, Contents
<1>2. Bytes \subseteq Nat
  BY FormatAssumption
<1>3. r.data \in Seq(Nat)
  <2>1. PICK d \in Seq(Bytes) : d = r.data
    BY <1>1
  <2>2. Len(d) \in Nat /\ d \in [1 .. Len(d) -> Bytes]
    BY ElementOfSeq, LenProperties
  <2>3. d \in [1 .. Len(d) -> Nat]
    BY <1>2, <2>2
  <2>4. d \in Seq(Nat)
    BY <2>2, <2>3
  <2> QED
    BY <2>1, <2>4
<1> QED
  BY <1>1, <1>3

(* Four numbers of a string at a place of another.                         *)
LEMMA UIntFacts ==
  ASSUME NEW s \in Seq(Nat), NEW at \in Nat, at >= 1
  PROVE  UInt(s, at) \in Nat
<1>1. CASE at + 3 > Len(s)
  <2>1. UInt(s, at) = 0
    BY <1>1 DEF UInt
  <2> QED
    BY <2>1
<1>2. CASE ~ (at + 3 > Len(s))
  <2>1. UInt(s, at) = s[at] + 256 * s[at + 1] + 65536 * s[at + 2] + 16777216 * s[at + 3]
    BY <1>2 DEF UInt
  <2>2. PICK a \in Nat : a = s[at]
    BY <1>2
  <2>3. PICK b \in Nat : b = s[at + 1]
    BY <1>2
  <2>4. PICK c \in Nat : c = s[at + 2]
    BY <1>2
  <2>5. PICK d \in Nat : d = s[at + 3]
    BY <1>2
  <2>6. UInt(s, at) = a + 256 * b + 65536 * c + 16777216 * d
    BY ONLY <2>1, <2>2, <2>3, <2>4, <2>5
  <2>7. a + 256 * b + 65536 * c + 16777216 * d \in Nat
    BY ONLY a \in Nat, b \in Nat, c \in Nat, d \in Nat
  <2>8. UInt(s, at) \in Nat
    BY ONLY <2>6, <2>7
  <2> QED
    BY <2>8
<1> QED
  BY <1>1, <1>2

(* The four bytes of a number at a place of a string are that number.      *)
LEMMA UIntOf ==
  ASSUME NEW s \in Seq(Nat), NEW at \in Nat, at >= 1, at + 3 <= Len(s),
         NEW p \in Seq(Nat), NEW n, Spells(p, n),
         \A i \in 1 .. 4 : s[at - 1 + i] = p[i]
  PROVE  UInt(s, at) = n
<1>1. UInt(s, at) = s[at] + 256 * s[at + 1] + 65536 * s[at + 2] + 16777216 * s[at + 3]
  BY DEF UInt
<1>2. at - 1 + 1 = at /\ at - 1 + 2 = at + 1 /\ at - 1 + 3 = at + 2 /\ at - 1 + 4 = at + 3
  OBVIOUS
<1>3. s[at] = p[1] /\ s[at + 1] = p[2] /\ s[at + 2] = p[3] /\ s[at + 3] = p[4]
  <2>1. 1 \in 1 .. 4 /\ 2 \in 1 .. 4 /\ 3 \in 1 .. 4 /\ 4 \in 1 .. 4
    OBVIOUS
  <2>2. /\ s[at - 1 + 1] = p[1] /\ s[at - 1 + 2] = p[2] 
        /\ s[at - 1 + 3] = p[3] /\ s[at - 1 + 4] = p[4]
    BY <2>1
  <2> QED
    BY ONLY <1>2, <2>2
<1> QED
  BY ONLY <1>1, <1>3, Spells(p, n) DEF Spells

(* A sequence after another.                                               *)
Joined(u, s, t) ==
  /\ u \in Seq(Nat) /\ Len(u) = Len(s) + Len(t)
  /\ \A i \in 1 .. Len(s) : u[i] = s[i]
  /\ \A i \in 1 .. Len(t) : u[Len(s) + i] = t[i]

LEMMA Behind ==
  ASSUME NEW s \in Seq(Nat), NEW t \in Seq(Nat)
  PROVE  Joined(s \o t, s, t)
<1>1. /\ s \o t \in Seq(Nat)
      /\ Len(s \o t) = Len(s) + Len(t)
      /\ \A i \in 1 .. Len(s) + Len(t) : (s \o t)[i] =
            IF i <= Len(s) THEN s[i] ELSE t[i - Len(s)]
  BY ConcatProperties
<1>2. \A i \in 1 .. Len(s) : (s \o t)[i] = s[i]
  BY <1>1
<1>3. ASSUME NEW i \in 1 .. Len(t)
      PROVE  (s \o t)[Len(s) + i] = t[i]
  <2>1. PICK k : k = Len(s) + i
    OBVIOUS
  <2>2. k \in 1 .. Len(s) + Len(t) /\ ~ (k <= Len(s)) /\ k - Len(s) = i
    BY <2>1
  <2> QED
    BY <1>1, <2>1, <2>2
<1> QED
  BY <1>1, <1>2, <1>3 DEF Joined

(* The header of 17 bytes that readfile expects is the one the daemon      *)
(* writes where its words have four bytes.                                 *)
LEMMA HeaderFacts ==
  ASSUME Word = 4, NEW r, Small(r)
  PROVE  /\ Header(r) \in Seq(Nat) /\ Len(Header(r)) = 17
         /\ Unpacked(Header(r)) = AsRead(r).fields
<1>1. /\ r.offset \in Nat /\ r.offset < TwoTo32
      /\ Len(r.data) \in Nat /\ Len(r.data) < TwoTo32 /\ Time \in Nat
  BY SmallFacts, FormatAssumption DEF Small
<1>2. 4 \in Nat /\ 4 >= 4 /\ 8 \in Nat /\ 8 >= 4
  OBVIOUS
<1>3. PICK t : t = Wide(Time, 4)
  OBVIOUS
<1>4. t \in Seq(Nat) /\ Len(t) = 4
  <2>1. IsWide(t, Time, 4)
    BY ONLY <1>1, <1>2, <1>3, WideFacts
  <2> QED
    BY ONLY <2>1 DEF IsWide
<1>5. PICK o : o = Wide(r.offset, 8)
  OBVIOUS
<1>6. /\ o \in Seq(Nat) /\ Len(o) = 8
      /\ Spells(o, r.offset)
      /\ \A i \in 5 .. 8 : o[i] = 0
  <2>1. IsWide(o, r.offset, 8)
    BY ONLY <1>1, <1>2, <1>5, WideFacts
  <2> QED
    BY ONLY <1>1, <2>1 DEF IsWide
<1>7. PICK l : l = Wide(Len(r.data), 4)
  OBVIOUS
<1>8. /\ l \in Seq(Nat) /\ Len(l) = 4
      /\ Spells(l, Len(r.data))
  <2>1. IsWide(l, Len(r.data), 4)
    BY ONLY <1>1, <1>2, <1>7, WideFacts
  <2> QED
    BY ONLY <1>1, <2>1 DEF IsWide
<1>9. PICK f \in Seq(Nat) : /\ f = Flag(r.extendseof) /\ Len(f) = 1
                            /\ f[1] = IF r.extendseof THEN 1 ELSE 0
  <2>1. CASE r.extendseof
    <3>1. Flag(r.extendseof) = <<1>>
      BY <2>1 DEF Flag
    <3>2. <<1>> \in Seq(Nat) /\ Len(<<1>>) = 1 /\ <<1>>[1] = 1
      OBVIOUS
    <3> QED
      BY <2>1, <3>1, <3>2
  <2>2. CASE ~ r.extendseof
    <3>1. Flag(r.extendseof) = <<0>>
      BY <2>2 DEF Flag
    <3>2. <<0>> \in Seq(Nat) /\ Len(<<0>>) = 1 /\ <<0>>[1] = 0
      OBVIOUS
    <3> QED
      BY <2>2, <3>1, <3>2
  <2> QED
    BY <2>1, <2>2
<1>10. PICK h : h = Header(r)
  OBVIOUS
<1>11. h = t \o o \o l \o f
  <2>1. h = Wide(Time, Word) \o Wide(r.offset, 8) \o Wide(Len(r.data), Word)
              \o Flag(r.extendseof)
    BY <1>10 DEF Header
  <2> QED
    BY ONLY <2>1, Word = 4, <1>3, <1>5, <1>7, <1>9
<1>12. PICK a : a = t \o o
  OBVIOUS
<1>13. a \in Seq(Nat) /\ Len(a) = 12 /\ \A i \in 1 .. 8 : a[4 + i] = o[i]
  <2>1. Joined(a, t, o)
    BY ONLY <1>4, <1>6, <1>12, Behind
  <2> QED
    BY ONLY <1>4, <1>6, <2>1 DEF Joined
<1>14. PICK b : b = a \o l
  OBVIOUS
<1>15. /\ b \in Seq(Nat) /\ Len(b) = 16
       /\ \A i \in 1 .. 12 : b[i] = a[i]
       /\ \A i \in 1 .. 4 : b[12 + i] = l[i]
  <2>1. Joined(b, a, l)
    BY ONLY <1>8, <1>13, <1>14, Behind
  <2> QED
    BY ONLY <1>8, <1>13, <2>1 DEF Joined
<1>16. h = b \o f
  BY ONLY <1>11, <1>12, <1>14
<1>17. /\ h \in Seq(Nat) /\ Len(h) = 17
       /\ \A i \in 1 .. 16 : h[i] = b[i]
       /\ \A i \in 1 .. 1 : h[16 + i] = f[i]
  <2>1. f \in Seq(Nat) /\ Len(f) = 1
    BY <1>9
  <2>2. Joined(h, b, f)
    BY ONLY <1>15, <1>16, <2>1, Behind
  <2> QED
    BY ONLY <1>15, <2>1, <2>2 DEF Joined
<1>18. h[17] = f[1]
  BY <1>17
<1>19. \A i \in 1 .. 8 : h[4 + i] = o[i]
  <2> TAKE i \in 1 .. 8
  <2>1. 4 + i \in 1 .. 12 /\ 4 + i \in 1 .. 16
    OBVIOUS
  <2> QED
    BY ONLY <1>13, <1>15, <1>17, <2>1
<1>20. \A i \in 1 .. 4 : h[12 + i] = l[i]
  <2> TAKE i \in 1 .. 4
  <2>1. 12 + i \in 1 .. 16
    OBVIOUS
  <2> QED
    BY ONLY <1>15, <1>17, <2>1
<1>21. UInt(h, 5) = r.offset
  <2>1. \A i \in 1 .. 4 : h[5 - 1 + i] = o[i]
    BY <1>19
  <2>2. 5 \in Nat /\ 5 >= 1 /\ 5 + 3 <= Len(h)
    BY <1>17
  <2> QED
    BY ONLY <1>6, <1>17, <2>1, <2>2, UIntOf
<1>22. UInt(h, 9) = 0
  <2>1. h[9] = o[5] /\ h[10] = o[6] /\ h[11] = o[7] /\ h[12] = o[8]
    <3>1. 4 + 5 = 9 /\ 4 + 6 = 10 /\ 4 + 7 = 11 /\ 4 + 8 = 12
      OBVIOUS
    <3>2. h[4 + 5] = o[5] /\ h[4 + 6] = o[6] /\ h[4 + 7] = o[7] /\ h[4 + 8] = o[8]
      BY <1>19
    <3> QED
      BY ONLY <3>1, <3>2
  <2>2. o[5] = 0 /\ o[6] = 0 /\ o[7] = 0 /\ o[8] = 0
    BY <1>6
  <2>3. UInt(h, 9) = h[9] + 256 * h[10] + 65536 * h[11] + 16777216 * h[12]
    <3>1. 9 \in Nat /\ 9 >= 1 /\ 9 + 3 <= Len(h) /\ 9 + 1 = 10 /\ 9 + 2 = 11 /\ 9 + 3 = 12
      BY <1>17
    <3>2. UInt(h, 9) = h[9] + 256 * h[9 + 1] + 65536 * h[9 + 2] + 16777216 * h[9 + 3]
      BY <1>17, <3>1 DEF UInt
    <3> QED
      BY ONLY <3>1, <3>2
  <2> QED
    BY ONLY <2>1, <2>2, <2>3
<1>23. UInt(h, 13) = Len(r.data)
  <2>1. \A i \in 1 .. 4 : h[13 - 1 + i] = l[i]
    BY <1>20
  <2>2. 13 \in Nat /\ 13 >= 1 /\ 13 + 3 <= Len(h)
    BY <1>17
  <2> QED
    BY ONLY <1>8, <1>17, <2>1, <2>2, UIntOf
<1>24. (Len(h) >= 17 /\ h[17] # 0) = r.extendseof
  <2>1. Len(h) >= 17
    BY <1>17
  <2>2. h[17] # 0 <=> r.extendseof
    BY <1>9, <1>18
  <2>3. r.extendseof \in BOOLEAN
    BY SmallFacts
  <2> QED
    BY ONLY <2>1, <2>2, <2>3
<1> QED
  <2>1. Unpacked(h) = [offset |-> UInt(h, 5), more |-> UInt(h, 9), size |-> UInt(h, 13),
                       trunc |-> Len(h) >= 17 /\ h[17] # 0]
    BY DEF Unpacked
  <2>2. AsRead(r).fields = [offset |-> r.offset, more |-> 0, size |-> Len(r.data),
                            trunc |-> r.extendseof]
    BY DEF AsRead
  <2>3. Unpacked(h) = AsRead(r).fields
    BY ONLY <1>21, <1>22, <1>23, <1>24, <2>1, <2>2
  <2> QED
    BY ONLY <1>10, <1>17, <2>3

(* A version file is its records one after the other.                      *)
Parts(f, records) ==
  /\ f \in [0 .. Len(records) -> Seq(Nat)]
  /\ f[0] = <<>>
  /\ \A k \in 1 .. Len(records) : f[k] = f[k - 1] \o Header(records[k]) \o records[k].data

LEMMA WrittenFacts ==
  ASSUME Word = 4, NEW records, records \in Seq(Record),
         \A k \in DOMAIN records : Small(records[k])
  PROVE  \E f : Parts(f, records) /\ Written(records) = f[Len(records)]
<1> DEFINE Upto(f, k) == IF k = 0 THEN <<>>
                         ELSE f[k - 1] \o Header(records[k]) \o records[k].data
<1>1. PICK n \in Nat : n = Len(records)
  OBVIOUS
<1>2. PICK bad : bad = { m \in 0 .. n : \A f : f # [k \in 0 .. m |-> Upto(f, k)] }
  OBVIOUS
<1>3. bad = {}
  <2> SUFFICES ASSUME bad # {} PROVE FALSE
    OBVIOUS
  <2>1. bad \subseteq Nat
    <3> HIDE DEF Upto
    <3>1. \A m \in 0 .. n : m \in Nat
      OBVIOUS
    <3> QED
      BY ONLY <1>2, <3>1, Zenon
  <2>2. PICK m \in bad : \A j \in Nat : j < m => j \notin bad
    BY ONLY <2>1, bad # {}, Least
  <2>3. m \in 0 .. n /\ \A f : f # [k \in 0 .. m |-> Upto(f, k)]
    BY <1>2
  <2>4. CASE m = 0
    <3>1. PICK f : f = [k \in 0 .. 0 |-> <<>>]
      OBVIOUS
    <3>2. \A k \in 0 .. 0 : Upto(f, k) = <<>>
      OBVIOUS
    <3>3. f = [k \in 0 .. 0 |-> Upto(f, k)]
      BY <3>1, <3>2
    <3> QED
      BY <2>3, <2>4, <3>3
  <2>5. CASE m # 0
    <3>1. m \in Nat /\ m - 1 \in Nat /\ m - 1 < m /\ m - 1 \in 0 .. n
      BY <2>3, <2>5
    <3>2. m - 1 \notin bad
      BY <2>2, <3>1
    <3>3. PICK g : g = [k \in 0 .. m - 1 |-> Upto(g, k)]
      BY <1>2, <3>1, <3>2
    <3>4. PICK x : x = Upto(g, m)
      OBVIOUS
    <3>5. PICK f : f = [k \in 0 .. m |-> IF k = m THEN x ELSE g[k]]
      OBVIOUS
    <3>6. ASSUME NEW k \in 0 .. m
          PROVE  f[k] = Upto(f, k)
      <4>1. k # 0 => k - 1 \in 0 .. m - 1 /\ k - 1 \in 0 .. m /\ k - 1 # m
        BY <3>1
      <4>2. k # 0 => f[k - 1] = g[k - 1]
        BY <3>5, <4>1
      <4>3. Upto(f, k) = Upto(g, k)
        BY <4>2
      <4>4. CASE k = m
        BY <3>4, <3>5, <4>3, <4>4
      <4>5. CASE k # m
        <5>1. k \in 0 .. m - 1
          BY <3>1, <4>5
        <5>2. g[k] = Upto(g, k)
          <6> HIDE DEF Upto
          <6> QED
            BY <3>3, <5>1
        <5> QED
          BY <3>5, <4>3, <4>5, <5>2
      <4> QED
        BY <4>4, <4>5
    <3>7. f = [k \in 0 .. m |-> Upto(f, k)]
      <4> HIDE DEF Upto
      <4> QED
        BY <3>5, <3>6
    <3> QED
      BY <2>3, <3>7
  <2> QED
    BY <2>4, <2>5
<1>4. PICK f : f = CHOOSE g : g = [k \in 0 .. n |-> Upto(g, k)]
  OBVIOUS
<1>5. f = [k \in 0 .. n |-> Upto(f, k)]
  <2>1. n \in 0 .. n /\ n \notin bad
    BY <1>3
  <2>2. \E g : g = [k \in 0 .. n |-> Upto(g, k)]
    BY <1>2, <2>1
  <2> QED
    BY <1>4, <2>2
<1>6. Written(records) = f[n]
  BY <1>1, <1>4 DEF Written
<1>7. \A k \in 0 .. n : f[k] = Upto(f, k)
  <2> HIDE DEF Upto
  <2> QED
    BY <1>5
<1>8. f[0] = <<>>
  <2>1. 0 \in 0 .. n
    BY <1>1
  <2>2. f[0] = Upto(f, 0)
    <3> HIDE DEF Upto
    <3> QED
      BY <1>7, <2>1
  <2> QED
    BY <2>2
<1>9. \A k \in 1 .. n : f[k] = f[k - 1] \o Header(records[k]) \o records[k].data
  <2> TAKE k \in 1 .. n
  <2>1. k \in 0 .. n /\ k # 0
    BY <1>1
  <2>2. f[k] = Upto(f, k)
    <3> HIDE DEF Upto
    <3> QED
      BY <1>7, <2>1
  <2> QED
    BY <2>1, <2>2
<1>10. PICK wrong : wrong = { m \in 0 .. n : f[m] \notin Seq(Nat) }
  OBVIOUS
<1>11. wrong = {}
  <2> SUFFICES ASSUME wrong # {} PROVE FALSE
    OBVIOUS
  <2>1. wrong \subseteq Nat
    BY <1>1, <1>10
  <2>2. PICK m \in wrong : \A j \in Nat : j < m => j \notin wrong
    BY ONLY <2>1, wrong # {}, Least
  <2>3. m \in 0 .. n /\ f[m] \notin Seq(Nat)
    BY <1>10
  <2>4. m # 0
    <3>1. <<>> \in Seq(Nat)
      OBVIOUS
    <3> QED
      BY ONLY <1>8, <2>3, <3>1
  <2>5. m \in 1 .. n /\ m - 1 \in Nat /\ m - 1 < m /\ m - 1 \in 0 .. n
    BY <2>3, <2>4
  <2>6. f[m - 1] \in Seq(Nat)
    BY <1>10, <2>2, <2>5
  <2>7. Small(records[m])
    BY <1>1, <2>5
  <2>8. Header(records[m]) \in Seq(Nat) /\ records[m].data \in Seq(Nat)
    BY <2>7, HeaderFacts, SmallFacts
  <2>9. f[m - 1] \o Header(records[m]) \o records[m].data \in Seq(Nat)
    BY <2>6, <2>8
  <2> QED
    BY ONLY <1>9, <2>3, <2>5, <2>9
<1>12. f \in [0 .. n -> Seq(Nat)]
  <2>1. \A k \in 0 .. n : f[k] \in Seq(Nat)
    BY <1>10, <1>11
  <2>2. DOMAIN f = 0 .. n /\ f = [k \in 0 .. n |-> f[k]]
    <3> HIDE DEF Upto
    <3> QED
      BY <1>5
  <2> QED
    BY <2>1, <2>2
<1> QED
  <2>1. Parts(f, records)
    BY ONLY <1>1, <1>8, <1>9, <1>12 DEF Parts
  <2> QED
    BY ONLY <1>1, <1>6, <2>1

(* pread of a string of numbers.                                           *)
LEMMA ReadOf ==
  ASSUME NEW c \in Seq(Nat), NEW from \in Nat, NEW n \in Nat
  PROVE  /\ Read(c, from, n) \in Seq(Nat)
         /\ from + n <= Len(c) =>
              /\ Len(Read(c, from, n)) = n
              /\ \A i \in 1 .. n : Read(c, from, n)[i] = c[from + i]
<1> DEFINE last == IF from + n < Len(c) THEN from + n ELSE Len(c)
<1>1. last \in Int /\ from + 1 \in Int /\ \A i \in from + 1 .. last : c[i] \in Nat
  OBVIOUS
<1>2. Read(c, from, n) = SubSeq(c, from + 1, last)
  BY DEF Read
<1>3. from + n <= Len(c) => last = from + n
  OBVIOUS
<1> HIDE DEF last
<1>4. /\ SubSeq(c, from + 1, last) \in Seq(Nat)
      /\ Len(SubSeq(c, from + 1, last)) =
           IF from + 1 <= last THEN last - (from + 1) + 1 ELSE 0
      /\ \A i \in 1 .. last - (from + 1) + 1 :
           SubSeq(c, from + 1, last)[i] = c[from + 1 + i - 1]
  BY <1>1, SubSeqProperties
<1>5. PICK t : t = SubSeq(c, from + 1, last)
  OBVIOUS
<1>6. ASSUME from + n <= Len(c)
      PROVE  Len(t) = n /\ \A i \in 1 .. n : t[i] = c[from + i]
  <2>1. /\ last - (from + 1) + 1 = n
        /\ n = 0 \/ from + 1 <= last
        /\ n = 0 => ~ (from + 1 <= last)
    BY <1>3, <1>6
  <2>2. Len(t) = n
    BY <1>4, <1>5, <2>1
  <2>3. ASSUME NEW i \in 1 .. n
        PROVE  t[i] = c[from + i]
    <3>1. from + 1 + i - 1 = from + i
      OBVIOUS
    <3>2. t[i] = c[from + 1 + i - 1]
      BY <1>4, <1>5, <2>1
    <3> QED
      BY ONLY <3>1, <3>2
  <2> QED
    BY <2>2, <2>3
<1> QED
  BY <1>2, <1>4, <1>5, <1>6

(* What readfile makes of the bytes from a place on: the header, the data, *)
(* the place of the next record, and all the records, where g is what it   *)
(* makes of the rest.                                                      *)
FieldsAt(b, i) == Unpacked(Read(b, i - 1, 17))

DataAt(b, i) == Read(b, i + 16, FieldsAt(b, i).size)

RestAt(b, i) == i + 17 + Len(DataAt(b, i))

RecordsAt(b, g, i) ==
  IF i > Len(b) \/ (FieldsAt(b, i).size > 0 /\ DataAt(b, i) = <<>>) THEN <<>>
  ELSE <<[fields |-> FieldsAt(b, i), data |-> DataAt(b, i)]>>
         \o (IF RestAt(b, i) > Len(b) THEN <<>> ELSE g[RestAt(b, i)])

LEMMA RestIsBehind ==
  ASSUME NEW b \in Seq(Nat), NEW i \in 1 .. Len(b) + 1
  PROVE  RestAt(b, i) \in Nat /\ RestAt(b, i) > i
<1>1. i - 1 \in Nat /\ i + 16 \in Nat /\ 17 \in Nat /\ 13 \in Nat /\ 13 >= 1
  OBVIOUS
<1>2. PICK h \in Seq(Nat) : h = Read(b, i - 1, 17)
  BY ONLY b \in Seq(Nat), <1>1, ReadOf
<1>3. PICK n \in Nat : n = UInt(h, 13)
  BY ONLY <1>1, <1>2, UIntFacts
<1>4. FieldsAt(b, i).size = n
  BY <1>2, <1>3 DEF FieldsAt, Unpacked
<1>5. PICK d \in Seq(Nat) : d = DataAt(b, i)
  <2>1. Read(b, i + 16, n) \in Seq(Nat)
    BY ONLY b \in Seq(Nat), <1>1, ReadOf
  <2> QED
    BY ONLY <1>4, <2>1 DEF DataAt
<1>6. RestAt(b, i) = i + 17 + Len(d)
  BY <1>5 DEF RestAt
<1>7. Len(d) \in Nat
  OBVIOUS
<1> QED
  BY ONLY <1>6, <1>7, i \in 1 .. Len(b) + 1, Len(b) \in Nat

(* readfile on any string of numbers.                                      *)
LEMMA ReadFileFacts ==
  ASSUME NEW b \in Seq(Nat)
  PROVE  \E g : /\ \A i \in 1 .. Len(b) + 1 : g[i] = RecordsAt(b, g, i)
                /\ ReadFile(b) = g[1]
<1>1. PICK n \in Nat : n = Len(b)
  OBVIOUS
<1>2. PICK bad : bad = { m \in 0 .. n :
                          \A g : g # [i \in n + 1 - m .. n + 1 |-> RecordsAt(b, g, i)] }
  OBVIOUS
<1>3. bad = {}
  <2> SUFFICES ASSUME bad # {} PROVE FALSE
    OBVIOUS
  <2>1. bad \subseteq Nat
    <3>1. \A m \in 0 .. n : m \in Nat
      OBVIOUS
    <3> QED
      BY ONLY <1>2, <3>1, Zenon
  <2>2. PICK m \in bad : \A j \in Nat : j < m => j \notin bad
    BY ONLY <2>1, bad # {}, Least
  <2>3. m \in 0 .. n /\ \A g : g # [i \in n + 1 - m .. n + 1 |-> RecordsAt(b, g, i)]
    BY ONLY <1>2, <2>2
  <2>4. \E g : \A i \in n + 2 - m .. n + 1 : g[i] = RecordsAt(b, g, i)
    <3>1. CASE m = 0
      <4>1. \A i \in n + 2 - m .. n + 1 : FALSE
        BY <3>1
      <4> QED
        BY <4>1
    <3>2. CASE m # 0
      <4>1. m - 1 \in Nat /\ m - 1 < m /\ m - 1 \in 0 .. n /\ n + 1 - (m - 1) = n + 2 - m
        BY <2>3, <3>2
      <4>2. m - 1 \notin bad
        BY <2>2, <4>1
      <4>3. PICK g : g = [i \in n + 1 - (m - 1) .. n + 1 |-> RecordsAt(b, g, i)]
        BY <1>2, <4>1, <4>2
      <4>4. g = [i \in n + 2 - m .. n + 1 |-> RecordsAt(b, g, i)]
        BY ONLY <4>1, <4>3
      <4> QED
        BY ONLY <4>4
    <3> QED
      BY <3>1, <3>2
  <2>5. PICK g : \A i \in n + 2 - m .. n + 1 : g[i] = RecordsAt(b, g, i)
    BY <2>4
  <2>6. PICK x : x = RecordsAt(b, g, n + 1 - m)
    OBVIOUS
  <2>7. PICK f : f = [i \in n + 1 - m .. n + 1 |-> IF i = n + 1 - m THEN x ELSE g[i]]
    OBVIOUS
  <2>8. ASSUME NEW i \in n + 1 - m .. n + 1
        PROVE  f[i] = RecordsAt(b, f, i)
    <3>1. i \in 1 .. Len(b) + 1
      BY <1>1, <2>3
    <3>2. PICK r : r = RestAt(b, i)
      OBVIOUS
    <3>3. r \in Nat /\ r > i
      BY <3>1, <3>2, RestIsBehind
    <3>4. ~ (r > Len(b)) => r \in n + 1 - m .. n + 1 /\ r # n + 1 - m
      BY <1>1, <2>3, <3>1, <3>3
    <3>5. ~ (r > Len(b)) => f[r] = g[r]
      BY ONLY <2>7, <3>4
    <3>6. RecordsAt(b, f, i) = RecordsAt(b, g, i)
      BY ONLY <3>2, <3>5 DEF RecordsAt
    <3>7. CASE i = n + 1 - m
      BY ONLY <2>6, <2>7, <2>8, <3>6, <3>7
    <3>8. CASE i # n + 1 - m
      <4>1. i \in n + 2 - m .. n + 1
        BY <2>3, <3>8
      <4>2. f[i] = g[i]
        BY ONLY <2>7, <2>8, <3>8
      <4>3. g[i] = RecordsAt(b, g, i)
        BY ONLY <2>5, <4>1
      <4> QED
        BY ONLY <3>6, <4>2, <4>3
    <3> QED
      BY <3>7, <3>8
  <2>9. f = [i \in n + 1 - m .. n + 1 |-> RecordsAt(b, f, i)]
    BY ONLY <2>7, <2>8
  <2> QED
    BY ONLY <2>3, <2>9
<1>4. PICK g : g = CHOOSE f : f = [i \in 1 .. n + 1 |-> RecordsAt(b, f, i)]
  OBVIOUS
<1>5. g = [i \in 1 .. n + 1 |-> RecordsAt(b, g, i)]
  <2>1. n \in 0 .. n /\ n \notin bad /\ n + 1 - n = 1
    BY <1>3
  <2>2. \E f : f = [i \in n + 1 - n .. n + 1 |-> RecordsAt(b, f, i)]
    BY ONLY <1>2, <2>1
  <2> QED
    BY ONLY <1>4, <2>1, <2>2
<1>6. ReadFile(b) = g[1]
  BY ONLY <1>1, <1>4 DEF ReadFile, RecordsAt, RestAt, DataAt, FieldsAt
<1> QED
  BY ONLY <1>1, <1>5, <1>6

(* The bytes of a record stand in the version file where the records       *)
(* before it end.                                                          *)
Stands(b, at, r) ==
  /\ at + 17 + Len(r.data) <= Len(b)
  /\ \A i \in 1 .. 17 : b[at + i] = Header(r)[i]
  /\ \A i \in 1 .. Len(r.data) : b[at + 17 + i] = r.data[i]

IsPrefixOf(s, t) == Len(s) <= Len(t) /\ \A i \in 1 .. Len(s) : t[i] = s[i]

LEMMA PartFacts ==
  ASSUME Word = 4, NEW records, records \in Seq(Record),
         \A k \in DOMAIN records : Small(records[k]),
         NEW f, Parts(f, records), NEW k \in 1 .. Len(records)
  PROVE  /\ f[k] \in Seq(Nat) /\ f[k - 1] \in Seq(Nat)
         /\ Len(f[k]) = Len(f[k - 1]) + 17 + Len(records[k].data)
         /\ Stands(f[k], Len(f[k - 1]), records[k])
         /\ IsPrefixOf(f[k - 1], f[k])
<1>1. Small(records[k])
  OBVIOUS
<1>2. k \in 0 .. Len(records) /\ k - 1 \in 0 .. Len(records)
  OBVIOUS
<1>3. PICK p \in Seq(Nat) : p = f[k - 1]
  BY ONLY <1>2, Parts(f, records) DEF Parts
<1>4. PICK h \in Seq(Nat) : h = Header(records[k]) /\ Len(h) = 17
  BY ONLY Word = 4, <1>1, HeaderFacts
<1>5. PICK d \in Seq(Nat) : d = records[k].data
  BY ONLY <1>1, SmallFacts
<1>6. PICK a : a = p \o h
  OBVIOUS
<1>7. Joined(a, p, h)
  BY ONLY <1>6, Behind
<1>8. a \in Seq(Nat) /\ Len(a) = Len(p) + 17
  BY ONLY <1>4, <1>7 DEF Joined
<1>9. f[k] = a \o d
  BY ONLY <1>3, <1>4, <1>5, <1>6, Parts(f, records), k \in 1 .. Len(records) DEF Parts
<1>10. Joined(f[k], a, d)
  BY ONLY <1>8, <1>9, Behind
<1>11. PICK b \in Seq(Nat) : b = f[k]
  BY ONLY <1>10 DEF Joined
<1>12. Len(b) = Len(p) + 17 + Len(d)
  BY ONLY <1>8, <1>10, <1>11 DEF Joined
<1>13. \A i \in 1 .. Len(a) : b[i] = a[i]
  BY ONLY <1>10, <1>11 DEF Joined
<1>14. \A i \in 1 .. 17 : b[Len(p) + i] = h[i]
  <2> TAKE i \in 1 .. 17
  <2>1. Len(p) + i \in 1 .. Len(a)
    BY <1>8
  <2>2. a[Len(p) + i] = h[i]
    BY ONLY <1>4, <1>7 DEF Joined
  <2> QED
    BY ONLY <1>13, <2>1, <2>2
<1>15. \A i \in 1 .. Len(d) : b[Len(p) + 17 + i] = d[i]
  BY ONLY <1>8, <1>10, <1>11 DEF Joined
<1>16. \A i \in 1 .. Len(p) : b[i] = p[i]
  <2> TAKE i \in 1 .. Len(p)
  <2>1. i \in 1 .. Len(a)
    BY <1>8
  <2>2. a[i] = p[i]
    BY ONLY <1>7 DEF Joined
  <2> QED
    BY ONLY <1>13, <2>1, <2>2
<1>17. Len(b) \in Nat /\ Len(p) \in Nat /\ Len(d) \in Nat
  OBVIOUS
<1>18. IsPrefixOf(p, b)
  BY ONLY <1>12, <1>16, <1>17 DEF IsPrefixOf
<1>19. Stands(b, Len(p), records[k])
  <2>1. Len(p) + 17 + Len(d) <= Len(b)
    BY ONLY <1>12, <1>17
  <2>2. Len(p) + 17 + Len(records[k].data) <= Len(b)
    BY ONLY <1>5, <2>1
  <2>3. \A i \in 1 .. 17 : b[Len(p) + i] = Header(records[k])[i]
    BY ONLY <1>4, <1>14
  <2>4. \A i \in 1 .. Len(records[k].data) : b[Len(p) + 17 + i] = records[k].data[i]
    BY ONLY <1>5, <1>15
  <2> QED
    BY ONLY <2>2, <2>3, <2>4 DEF Stands
<1> QED
  BY ONLY <1>3, <1>5, <1>11, <1>12, <1>18, <1>19

(* What is written stays the beginning of what is written later.           *)
LEMMA PartsGrow ==
  ASSUME Word = 4, NEW records, records \in Seq(Record),
         \A k \in DOMAIN records : Small(records[k]),
         NEW f, Parts(f, records), NEW k \in 0 .. Len(records)
  PROVE  IsPrefixOf(f[k], f[Len(records)])
<1>1. PICK n \in Nat : n = Len(records)
  OBVIOUS
<1>2. PICK wrong : wrong = { m \in 0 .. n : ~ IsPrefixOf(f[n - m], f[n]) }
  OBVIOUS
<1>3. wrong = {}
  <2> SUFFICES ASSUME wrong # {} PROVE FALSE
    OBVIOUS
  <2>1. wrong \subseteq Nat
    BY ONLY <1>1, <1>2
  <2>2. PICK m \in wrong : \A j \in Nat : j < m => j \notin wrong
    BY ONLY <2>1, wrong # {}, Least
  <2>3. m \in 0 .. n /\ ~ IsPrefixOf(f[n - m], f[n])
    BY ONLY <1>2, <2>2
  <2>4. \A i \in 0 .. n : f[i] \in Seq(Nat)
    BY ONLY <1>1, Parts(f, records) DEF Parts
  <2>5. m # 0
    <3>1. n \in 0 .. n /\ n - 0 = n
      BY ONLY <1>1
    <3>2. PICK s \in Seq(Nat) : s = f[n]
      BY ONLY <2>4, <3>1
    <3>3. IsPrefixOf(s, s)
      BY ONLY <3>2, Len(s) \in Nat DEF IsPrefixOf
    <3> QED
      BY ONLY <2>3, <3>1, <3>2, <3>3
  <2>6. m - 1 \in Nat /\ m - 1 < m /\ m - 1 \in 0 .. n /\ n - (m - 1) = n - m + 1
    BY <2>3, <2>5
  <2>7. IsPrefixOf(f[n - m + 1], f[n])
    BY ONLY <1>2, <2>2, <2>6
  <2>8. n - m + 1 \in 1 .. n /\ n - m + 1 - 1 = n - m
    BY <2>3, <2>5
  <2>9. /\ IsPrefixOf(f[n - m], f[n - m + 1]) /\ f[n - m] \in Seq(Nat)
        /\ f[n - m + 1] \in Seq(Nat)
    <3>1. PICK j : j = n - m + 1
      OBVIOUS
    <3>2. j \in 1 .. n /\ j - 1 = n - m
      BY ONLY <2>3, <2>5, <3>1, n \in Nat
    <3>3. j \in 1 .. Len(records)
      BY ONLY <1>1, <3>2
    <3>4. IsPrefixOf(f[j - 1], f[j]) /\ f[j] \in Seq(Nat) /\ f[j - 1] \in Seq(Nat)
      BY <3>3, PartFacts
    <3> QED
      BY ONLY <3>1, <3>2, <3>4
  <2>10. PICK s \in Seq(Nat) : s = f[n - m]
    BY <2>9
  <2>11. PICK t \in Seq(Nat) : t = f[n - m + 1]
    BY <2>9
  <2>12. PICK u \in Seq(Nat) : u = f[n]
    BY <1>1, <2>4
  <2>13. IsPrefixOf(s, t) /\ IsPrefixOf(t, u)
    BY ONLY <2>7, <2>9, <2>10, <2>11, <2>12
  <2>14. IsPrefixOf(s, u)
    <3>1. Len(s) \in Nat /\ Len(t) \in Nat /\ Len(u) \in Nat
      OBVIOUS
    <3> QED
      BY ONLY <2>13, <3>1 DEF IsPrefixOf
  <2> QED
    BY ONLY <2>3, <2>10, <2>12, <2>14
<1>4. n - k \in 0 .. n /\ n - (n - k) = k
  BY <1>1
<1> QED
  BY ONLY <1>1, <1>2, <1>3, <1>4

(* A record that stands at a place is what readfile finds there.           *)
LEMMA FoundThere ==
  ASSUME Word = 4, NEW r, Small(r), NEW b \in Seq(Nat), NEW at \in Nat, Stands(b, at, r)
  PROVE  /\ FieldsAt(b, at + 1) = AsRead(r).fields
         /\ DataAt(b, at + 1) = r.data
         /\ RestAt(b, at + 1) = at + 17 + Len(r.data) + 1
<1>1. PICK h \in Seq(Nat) : h = Header(r) /\ Len(h) = 17 /\ Unpacked(h) = AsRead(r).fields
  BY ONLY Word = 4, Small(r), HeaderFacts
<1>2. PICK d \in Seq(Nat) : d = r.data
  BY ONLY Small(r), SmallFacts
<1>3. PICK n \in Nat : n = Len(d)
  OBVIOUS
<1>4. at + 17 + n <= Len(b) /\ at + 17 \in Nat /\ at + 17 <= Len(b) /\ 17 \in Nat
  <2>1. at + 17 + Len(r.data) <= Len(b)
    BY ONLY Stands(b, at, r) DEF Stands
  <2>2. at + 17 + n <= Len(b)
    BY ONLY <1>2, <1>3, <2>1
  <2>3. Len(b) \in Nat
    OBVIOUS
  <2> QED
    BY ONLY <2>2, <2>3, n \in Nat, at \in Nat
<1>5. PICK x : x = Read(b, at, 17)
  OBVIOUS
<1>6. x \in Seq(Nat) /\ Len(x) = 17 /\ \A i \in 1 .. 17 : x[i] = b[at + i]
  <2>1. PICK size \in Nat : size = 17
    OBVIOUS
  <2>2. at + size <= Len(b) /\ x = Read(b, at, size)
    BY ONLY <1>4, <1>5, <2>1
  <2>3. x \in Seq(Nat) /\ Len(x) = size /\ \A i \in 1 .. size : x[i] = b[at + i]
    BY ONLY <2>2, ReadOf, b \in Seq(Nat), at \in Nat, size \in Nat
  <2> QED
    BY ONLY <2>1, <2>3
<1>7. x = h
  <2>1. \A i \in 1 .. 17 : x[i] = h[i]
    BY ONLY <1>1, <1>6, Stands(b, at, r) DEF Stands
  <2> QED
    BY ONLY <1>1, <1>6, <2>1, SeqEqual
<1>8. FieldsAt(b, at + 1) = AsRead(r).fields
  <2>1. at + 1 - 1 = at
    OBVIOUS
  <2> QED
    BY ONLY <1>1, <1>5, <1>7, <2>1 DEF FieldsAt
<1>9. FieldsAt(b, at + 1).size = n
  BY ONLY <1>2, <1>3, <1>8 DEF AsRead
<1>10. PICK y : y = Read(b, at + 17, n)
  OBVIOUS
<1>11. y \in Seq(Nat) /\ Len(y) = n /\ \A i \in 1 .. n : y[i] = b[at + 17 + i]
  <2>1. PICK p \in Nat : p = at + 17
    BY ONLY <1>4
  <2>2. p + n <= Len(b)
    BY ONLY <1>4, <2>1
  <2>3. y = Read(b, p, n)
    BY ONLY <1>10, <2>1
  <2>4. y \in Seq(Nat) /\ Len(y) = n /\ \A i \in 1 .. n : y[i] = b[p + i]
    BY ONLY <2>2, <2>3, ReadOf, b \in Seq(Nat), n \in Nat, p \in Nat
  <2> QED
    BY ONLY <2>1, <2>4
<1>12. y = d
  <2>1. \A i \in 1 .. n : y[i] = d[i]
    BY ONLY <1>2, <1>3, <1>11, Stands(b, at, r) DEF Stands
  <2> QED
    BY ONLY <1>2, <1>3, <1>11, <2>1, SeqEqual
<1>13. DataAt(b, at + 1) = r.data
  <2>1. at + 1 + 16 = at + 17
    OBVIOUS
  <2> QED
    BY ONLY <1>2, <1>9, <1>10, <1>12, <2>1 DEF DataAt
<1>14. RestAt(b, at + 1) = at + 17 + Len(r.data) + 1
  <2>1. RestAt(b, at + 1) = at + 1 + 17 + n
    BY ONLY <1>2, <1>3, <1>13 DEF RestAt
  <2>2. at + 1 + 17 + n = at + 17 + n + 1
    OBVIOUS
  <2> QED
    BY ONLY <1>2, <1>3, <2>1, <2>2
<1> QED
  BY <1>8, <1>13, <1>14

(* The version file reads as the records it is made of, whatever their     *)
(* data: the header says how many bytes are data.                          *)
LEMMA WrittenReadsBack ==
  ASSUME Word = 4, NEW records, records \in Seq(Record),
         \A k \in DOMAIN records : Small(records[k])
  PROVE  ReadFile(Written(records)) = [k \in DOMAIN records |-> AsRead(records[k])]
<1>1. PICK n \in Nat : n = Len(records) /\ DOMAIN records = 1 .. n
  OBVIOUS
<1>2. PICK f : Parts(f, records) /\ Written(records) = f[Len(records)]
  BY WrittenFacts
<1>3. n \in 0 .. n /\ 0 \in 0 .. n
  BY <1>1
<1>4. PICK b \in Seq(Nat) : b = Written(records) /\ b = f[n]
  BY ONLY <1>1, <1>2, <1>3 DEF Parts
<1>5. PICK g : /\ \A i \in 1 .. Len(b) + 1 : g[i] = RecordsAt(b, g, i)
               /\ ReadFile(b) = g[1]
  BY ReadFileFacts
<1>6. PICK ends \in [0 .. n -> Nat] : \A k \in 0 .. n : ends[k] = Len(f[k])
  <2>1. \A k \in 0 .. n : Len(f[k]) \in Nat
    <3> TAKE k \in 0 .. n
    <3>1. PICK s \in Seq(Nat) : s = f[k]
      BY ONLY <1>1, <1>2 DEF Parts
    <3> QED
      BY <3>1
  <2>2. [k \in 0 .. n |-> Len(f[k])] \in [0 .. n -> Nat]
    BY ONLY <2>1
  <2> QED
    BY ONLY <2>2
<1>7. ends[n] = Len(b) /\ ends[0] = 0
  <2>1. f[0] = <<>>
    BY ONLY <1>2 DEF Parts
  <2>2. Len(<<>>) = 0
    OBVIOUS
  <2> QED
    BY ONLY <1>3, <1>4, <1>6, <2>1, <2>2
<1>8. ASSUME NEW k \in 1 .. n
      PROVE  /\ g[ends[k - 1] + 1] = <<AsRead(records[k])>> \o g[ends[k] + 1]
             /\ ends[k] + 1 \in 1 .. Len(b) + 1
  <2>1. k \in 1 .. Len(records) /\ k \in 0 .. n /\ k - 1 \in 0 .. n /\ Small(records[k])
    <3>1. k \in 1 .. Len(records) /\ k \in DOMAIN records
      BY ONLY <1>1, k \in 1 .. n
    <3>2. Small(records[k])
      BY <3>1
    <3>3. k \in 0 .. n /\ k - 1 \in 0 .. n
      OBVIOUS
    <3> QED
      BY <3>1, <3>2, <3>3
  <2>2. PICK r : r = records[k] /\ Small(r)
    BY <2>1
  <2>3. PICK s \in Seq(Nat) : s = f[k] /\ Len(s) = ends[k]
    BY ONLY <1>1, <1>2, <1>6, <2>1 DEF Parts
  <2>4. PICK at \in Nat : at = ends[k - 1]
    BY ONLY <1>6, <2>1
  <2>5. PICK m \in Nat : m = Len(r.data)
    BY ONLY <2>2, SmallFacts
  <2>6. Len(s) = at + 17 + m /\ Stands(s, at, r)
    <3>1. /\ Len(f[k]) = Len(f[k - 1]) + 17 + Len(records[k].data)
          /\ Stands(f[k], Len(f[k - 1]), records[k])
      BY <1>2, <2>1, PartFacts
    <3> QED
      BY ONLY <1>6, <2>1, <2>2, <2>3, <2>4, <2>5, <3>1
  <2>7. IsPrefixOf(s, b)
    <3>1. IsPrefixOf(f[k], f[Len(records)])
      <4>1. k \in 0 .. Len(records)
        BY ONLY <1>1, <2>1
      <4> QED
        BY <1>2, <4>1, PartsGrow
    <3> QED
      BY ONLY <1>1, <1>4, <2>3, <3>1
  <2>8. Len(s) <= Len(b) /\ \A i \in 1 .. Len(s) : b[i] = s[i]
    BY ONLY <2>7 DEF IsPrefixOf
  <2>9. Stands(b, at, r)
    <3>1. at + 17 + m <= Len(b)
      BY ONLY <2>6, <2>8
    <3>2. \A i \in 1 .. 17 : b[at + i] = Header(r)[i]
      <4> TAKE i \in 1 .. 17
      <4>1. at + i \in 1 .. Len(s)
        BY <2>6
      <4>2. s[at + i] = Header(r)[i]
        BY ONLY <2>6 DEF Stands
      <4> QED
        BY ONLY <2>8, <4>1, <4>2
    <3>3. \A i \in 1 .. m : b[at + 17 + i] = r.data[i]
      <4> TAKE i \in 1 .. m
      <4>1. at + 17 + i \in 1 .. Len(s)
        BY <2>6
      <4>2. s[at + 17 + i] = r.data[i]
        BY ONLY <2>5, <2>6 DEF Stands
      <4> QED
        BY ONLY <2>8, <4>1, <4>2
    <3> QED
      BY ONLY <2>5, <3>1, <3>2, <3>3 DEF Stands
  <2>10. /\ FieldsAt(b, at + 1) = AsRead(r).fields
         /\ DataAt(b, at + 1) = r.data
         /\ RestAt(b, at + 1) = at + 17 + Len(r.data) + 1
    BY ONLY Word = 4, <2>2, <2>9, FoundThere
  <2>11. RestAt(b, at + 1) = ends[k] + 1
    BY ONLY <2>3, <2>5, <2>6, <2>10
  <2>12. at + 1 \in 1 .. Len(b) + 1 /\ ~ (at + 1 > Len(b)) /\ ends[k] + 1 \in 1 .. Len(b) + 1
    <3>1. PICK e \in Nat : e = Len(s)
      BY ONLY <2>3
    <3>2. PICK l \in Nat : l = Len(b)
      OBVIOUS
    <3>3. e = at + 17 + m /\ e <= l
      BY ONLY <2>6, <2>8, <3>1, <3>2
    <3>4. at + 1 \in 1 .. l + 1 /\ ~ (at + 1 > l) /\ e + 1 \in 1 .. l + 1
      BY ONLY <3>3, at \in Nat, m \in Nat, l \in Nat, e \in Nat
    <3> QED
      BY ONLY <2>3, <3>1, <3>2, <3>4
  <2>13. ~ (FieldsAt(b, at + 1).size > 0 /\ DataAt(b, at + 1) = <<>>)
    <3>1. FieldsAt(b, at + 1).size = m
      BY ONLY <2>5, <2>10 DEF AsRead
    <3>2. m > 0 => r.data # <<>>
      <4>1. Len(<<>>) = 0
        OBVIOUS
      <4> QED
        BY ONLY <2>5, <4>1
    <3> QED
      BY ONLY <2>10, <3>1, <3>2
  <2>14. [fields |-> FieldsAt(b, at + 1), data |-> DataAt(b, at + 1)] = AsRead(r)
    BY ONLY <2>10 DEF AsRead
  <2>15. (IF RestAt(b, at + 1) > Len(b) THEN <<>> ELSE g[RestAt(b, at + 1)]) = g[ends[k] + 1]
    <3>1. CASE ends[k] + 1 > Len(b)
      <4>1. g[ends[k] + 1] = RecordsAt(b, g, ends[k] + 1)
        BY ONLY <1>5, <2>12
      <4>2. g[ends[k] + 1] = <<>>
        BY ONLY <3>1, <4>1 DEF RecordsAt
      <4> QED
        BY ONLY <2>11, <3>1, <4>2
    <3>2. CASE ~ (ends[k] + 1 > Len(b))
      BY ONLY <2>11, <3>2
    <3> QED
      BY ONLY <3>1, <3>2
  <2>16. g[at + 1] = RecordsAt(b, g, at + 1)
    BY ONLY <1>5, <2>12
  <2>17. g[at + 1] = <<AsRead(r)>> \o g[ends[k] + 1]
    BY ONLY <2>12, <2>13, <2>14, <2>15, <2>16 DEF RecordsAt
  <2> QED
    BY ONLY <2>2, <2>4, <2>12, <2>17
<1>9. g[ends[n] + 1] = <<>>
  <2>1. Len(b) + 1 \in 1 .. Len(b) + 1 /\ Len(b) + 1 > Len(b)
    OBVIOUS
  <2>2. g[Len(b) + 1] = RecordsAt(b, g, Len(b) + 1)
    BY ONLY <1>5, <2>1
  <2> QED
    BY ONLY <1>7, <2>1, <2>2 DEF RecordsAt
<1> DEFINE Onward(k) == [j \in 1 .. n - k |-> AsRead(records[k + j])]
<1>10. Onward(n) = <<>>
  OBVIOUS
<1>11. ASSUME NEW k \in 1 .. n
       PROVE  Onward(k - 1) = <<AsRead(records[k])>> \o Onward(k)
  OBVIOUS
<1>12. PICK wrong : wrong = { m \in 0 .. n : g[ends[n - m] + 1] # Onward(n - m) }
  OBVIOUS
<1> HIDE DEF Onward
<1>13. wrong = {}
  <2> SUFFICES ASSUME wrong # {} PROVE FALSE
    OBVIOUS
  <2>1. wrong \subseteq Nat
    BY ONLY <1>12, n \in Nat
  <2>2. PICK m \in wrong : \A j \in Nat : j < m => j \notin wrong
    BY ONLY <2>1, wrong # {}, Least
  <2>3. m \in 0 .. n /\ g[ends[n - m] + 1] # Onward(n - m)
    BY ONLY <1>12, <2>2
  <2>4. m # 0
    <3>1. n - 0 = n
      OBVIOUS
    <3> QED
      BY ONLY <1>9, <1>10, <2>3, <3>1
  <2>5. m - 1 \in Nat /\ m - 1 < m /\ m - 1 \in 0 .. n
    BY <2>3, <2>4
  <2>6. PICK k \in 1 .. n : k = n - (m - 1) /\ k - 1 = n - m
    <3>1. n - (m - 1) \in 1 .. n /\ n - (m - 1) - 1 = n - m
      BY <2>3, <2>4
    <3> QED
      BY ONLY <3>1
  <2>7. g[ends[k] + 1] = Onward(k)
    BY ONLY <1>12, <2>2, <2>5, <2>6
  <2>8. g[ends[k - 1] + 1] = <<AsRead(records[k])>> \o g[ends[k] + 1]
    BY ONLY <1>8, k \in 1 .. n
  <2>9. Onward(k - 1) = <<AsRead(records[k])>> \o Onward(k)
    BY ONLY <1>11, k \in 1 .. n
  <2> QED
    BY ONLY <2>3, <2>6, <2>7, <2>8, <2>9
<1>14. g[1] = Onward(0)
  <2>1. n - n = 0 /\ 0 + 1 = 1
    OBVIOUS
  <2>2. g[ends[0] + 1] = Onward(0)
    BY ONLY <1>3, <1>12, <1>13, <2>1
  <2> QED
    BY ONLY <1>7, <2>1, <2>2
<1>15. Onward(0) = [k \in DOMAIN records |-> AsRead(records[k])]
  <2>1. n - 0 = n /\ \A j \in 1 .. n : 0 + j = j
    OBVIOUS
  <2> QED
    BY ONLY <1>1, <2>1 DEF Onward
<1> QED
  BY ONLY <1>4, <1>5, <1>14, <1>15

-----------------------------------------------------------------------------
(* The file, what is asked of it and its records stay below MaxSize.       *)
RecordFits(r) == r.offset + Len(r.data) <= MaxSize
RequestFits(req) == req.at + Len(req.data) <= MaxSize

Sized ==
  /\ content # None => Len(content) <= MaxSize
  /\ busy # None => RequestFits(busy)
  /\ \A k \in DOMAIN log : RecordFits(log[k])
  /\ \A k \in DOMAIN todo : RecordFits(todo[k])

LEMMA ReadLength ==
  ASSUME NEW c \in Contents, NEW from \in Nat, NEW n \in Nat
  PROVE  /\ Len(Read(c, from, n)) \in Nat
         /\ from + Len(Read(c, from, n)) <= IF from > Len(c) THEN from ELSE Len(c)
<1> DEFINE last == IF from + n < Len(c) THEN from + n ELSE Len(c)
<1>1. last \in Int /\ from + 1 \in Int /\ \A i \in from + 1 .. last : c[i] \in Bytes
  BY DEF Contents
<1>2. Read(c, from, n) = SubSeq(c, from + 1, last)
  BY DEF Read
<1>3. last <= Len(c) /\ Len(c) \in Nat
  BY DEF Contents
<1> HIDE DEF last
<1>4. Len(SubSeq(c, from + 1, last)) =
        IF from + 1 <= last THEN last - (from + 1) + 1 ELSE 0
  BY ONLY <1>1, SubSeqProperties
<1>5. PICK m : m = Len(SubSeq(c, from + 1, last))
  OBVIOUS
<1>6. m = IF from + 1 <= last THEN last - from ELSE 0
  BY ONLY <1>1, <1>4, <1>5, from \in Nat
<1>7. m \in Nat /\ from + m <= IF from > Len(c) THEN from ELSE Len(c)
  BY ONLY <1>1, <1>3, <1>6, from \in Nat
<1> QED
  BY ONLY <1>2, <1>5, <1>7

LEMMA RecordOfFits ==
  ASSUME NEW req \in Request, NEW c \in Contents, Len(c) <= MaxSize,
         RequestFits(req)
  PROVE  RecordFits(RecordOf(req, c))
<1>1. req.at \in Nat /\ Len(req.data) \in Nat /\ Len(c) \in Nat
  BY RequestFacts DEF Contents
<1>2. PICK n \in Nat : /\ RecordOf(req, c).offset = req.at
                       /\ RecordOf(req, c).data = Read(c, req.at, n)
  <2>1. CASE req.kind = "write"
    BY <1>1, <2>1 DEF RecordOf, WriteRecord
  <2>2. CASE req.kind # "write"
    BY <1>1, <2>2 DEF RecordOf, TruncateRecord
  <2> QED
    BY <2>1, <2>2
<1>3. PICK m : m = Len(Read(c, req.at, n))
  OBVIOUS
<1>4. m \in Nat /\ req.at + m <= IF req.at > Len(c) THEN req.at ELSE Len(c)
  BY ONLY <1>1, <1>3, ReadLength, c \in Contents, n \in Nat
<1>5. req.at + Len(req.data) <= MaxSize
  BY DEF RequestFits
<1>6. req.at + m <= MaxSize
  BY ONLY <1>1, <1>4, <1>5, Len(c) <= MaxSize, FileAssumption
<1> QED
  BY ONLY <1>2, <1>3, <1>6 DEF RecordFits

LEMMA ChangedFits ==
  ASSUME NEW req \in Request, NEW c \in Contents, Len(c) <= MaxSize,
         RequestFits(req),
         Changed(req, c) # None
  PROVE  Len(Changed(req, c)) <= MaxSize
<1>1. req.at \in Nat /\ Len(req.data) \in Nat /\ Len(c) \in Nat /\ MaxSize \in Nat
  BY RequestFacts, FileAssumption DEF Contents
<1>2. req.at + Len(req.data) <= MaxSize
  BY DEF RequestFits
<1>3. CASE req.kind = "write"
  <2>1. Changed(req, c) = Overwritten(c, req.at, req.data)
    BY <1>3 DEF Changed
  <2>2. CASE req.data = <<>>
    BY <1>1, <2>1, <2>2, NothingOverwritten
  <2>3. CASE req.data # <<>>
    <3>1. Len(Overwritten(c, req.at, req.data)) =
            IF req.at + Len(req.data) > Len(c) THEN req.at + Len(req.data) ELSE Len(c)
      BY <2>3, RequestFacts, OverwrittenFacts
    <3> QED
      BY <1>1, <1>2, <2>1, <3>1
  <2> QED
    BY <2>2, <2>3
<1>4. CASE req.kind = "truncate"
  <2>1. Changed(req, c) = Resized(c, req.at)
    BY <1>4 DEF Changed
  <2>2. Len(Resized(c, req.at)) = req.at
    BY <1>1, ResizedFacts
  <2> QED
    BY <1>1, <1>2, <2>1, <2>2
<1>5. CASE req.kind = "unlink"
  BY <1>5 DEF Changed
<1> QED
  BY <1>3, <1>4, <1>5, RequestFacts

LEMMA BeginSized ==
  ASSUME Typed, Sized, NEW req \in Request, RequestFits(req), Begin(req),
         UNCHANGED todo
  PROVE  Sized'
<1>1. content \in Contents /\ content' = content /\ busy' = req /\ Len(content) <= MaxSize
  BY DEF Typed, TypeOK, Begin, Sized
<1>2. (content # None => Len(content) <= MaxSize)'
  BY <1>1
<1>3. (busy # None => RequestFits(busy))'
  BY <1>1 DEF RequestFits
<1>4. ASSUME NEW k \in DOMAIN log'
      PROVE  RecordFits(log[k])'
  <2>1. log \in Seq(Record) /\ \A j \in DOMAIN log : RecordFits(log[j])
    BY DEF Typed, TypeOK, Sized
  <2>2. PICK r : r = RecordOf(req, content)
    OBVIOUS
  <2>3. RecordFits(r)
    BY <1>1, <2>2, RecordOfFits
  <2>4. CASE log' = Append(log, r)
    <3>1. k \in DOMAIN log \/ k = Len(log) + 1
      BY <2>1, <2>4
    <3>2. CASE k \in DOMAIN log
      <4>1. log'[k] = log[k]
        BY <2>1, <2>4, <3>2
      <4> QED
        BY <2>1, <3>2, <4>1 DEF RecordFits
    <3>3. CASE k = Len(log) + 1
      <4>1. log'[k] = r
        BY <2>1, <2>4, <3>3
      <4> QED
        BY <2>3, <4>1 DEF RecordFits
    <3> QED
      BY <3>1, <3>2, <3>3
  <2>5. CASE log' = log
    BY <2>1, <2>5 DEF RecordFits
  <2> QED
    BY <2>2, <2>4, <2>5 DEF Begin
<1>5. (\A k \in DOMAIN todo : RecordFits(todo[k]))'
  BY DEF Sized, RecordFits
<1> QED
  BY <1>2, <1>3, <1>4, <1>5 DEF Sized

LEMMA InitSized == Init => Sized
  BY DEF Init, Sized

(* Requests of the users and of vrevert are answered alike; what else      *)
(* happens makes nothing larger.                                           *)
LEMMA NextSized == IInv /\ Sized /\ [Next]_vars => Sized'
<1> SUFFICES ASSUME IInv, Sized, [Next]_vars PROVE Sized'
  OBVIOUS
<1>1. Typed /\ MaxSize \in Nat
  BY FileAssumption DEF IInv
<1>2. ASSUME content' = content \/ content' = <<>> \/ content' = BytesOf(content),
             busy' = busy \/ busy' = None, log' = log \/ log' = <<>>,
             todo' = todo \/ todo' = <<>> \/ todo' = log
      PROVE  Sized'
  <2>1. (content # None => Len(content) <= MaxSize)'
    <3>1. Len(<<>>) <= MaxSize
      BY <1>1
    <3> QED
      BY <1>2, <3>1 DEF Sized, BytesOf
  <2>2. (busy # None => RequestFits(busy))'
    BY <1>2 DEF Sized, RequestFits
  <2>3. (\A k \in DOMAIN log : RecordFits(log[k]))'
    BY <1>2 DEF Sized, RecordFits
  <2>4. (\A k \in DOMAIN todo : RecordFits(todo[k]))'
    BY <1>2 DEF Sized, RecordFits
  <2> QED
    BY <2>1, <2>2, <2>3, <2>4 DEF Sized
<1>3. CASE Create
  BY <1>3, <1>2 DEF Create, vrevert
<1>4. ASSUME NEW at \in 0 .. MaxSize, NEW d \in Payloads, Write(at, d)
      PROVE  Sized'
  <2>1. PICK req : req = [kind |-> "write", at |-> at, data |-> d]
    OBVIOUS
  <2>2. req \in Request
    BY <2>1, FileAssumption DEF Request
  <2>3. RequestFits(req)
    BY <1>4, <2>1 DEF Write, RequestFits
  <2> QED
    BY <1>1, <1>4, <2>1, <2>2, <2>3, BeginSized DEF Write, UserBegins, vrevert
<1>5. ASSUME NEW n \in 0 .. MaxSize, Truncate(n)
      PROVE  Sized'
  <2>1. PICK req : req = [kind |-> "truncate", at |-> n, data |-> <<>>]
    OBVIOUS
  <2>2. <<>> \in Contents /\ Len(<<>>) = 0
    BY DEF Contents
  <2>3. req \in Request
    BY <2>1, <2>2 DEF Request
  <2>4. RequestFits(req)
    BY <1>1, <2>1, <2>2 DEF RequestFits
  <2> QED
    BY <1>1, <1>5, <2>1, <2>3, <2>4, BeginSized DEF Truncate, UserBegins, vrevert
<1>6. CASE Unlink
  <2>1. PICK req : req = [kind |-> "unlink", at |-> 0, data |-> <<>>]
    OBVIOUS
  <2>2. <<>> \in Contents /\ Len(<<>>) = 0
    BY DEF Contents
  <2>3. req \in Request
    BY <2>1, <2>2 DEF Request
  <2>4. RequestFits(req)
    BY <1>1, <2>1, <2>2 DEF RequestFits
  <2> QED
    BY <1>1, <1>6, <2>1, <2>3, <2>4, BeginSized DEF Unlink, UserBegins, vrevert
<1>7. CASE RemoveLog
  BY <1>7, <1>2 DEF RemoveLog, vrevert
<1>8. ASSUME NEW from \in DOMAIN log, Start(from)
      PROVE  Sized'
  BY <1>8, <1>2 DEF Start, file
<1>9. CASE OpenForRecord
  <2>1. content' = BytesOf(content) /\ busy' = busy /\ log' = log /\ todo' = todo
    BY <1>9 DEF OpenForRecord
  <2> QED
    BY ONLY <1>2, <2>1
<1>10. CASE WriteBack
  <2>1. next \in DOMAIN todo /\ pc \in Active
    BY <1>1, <1>10 DEF WriteBack, Typed, TypeOK, Active
  <2>2. PICK req : req = [kind |-> "write", at |-> todo[next].offset, data |-> todo[next].data]
    OBVIOUS
  <2>3. req \in Request
    BY <1>1, <2>1, <2>2, RecordRequests
  <2>4. RequestFits(req)
    BY <2>1, <2>2 DEF Sized, RecordFits, RequestFits
  <2> QED
    BY <1>1, <1>10, <2>2, <2>3, <2>4, BeginSized DEF WriteBack
<1>11. CASE CutBack
  <2>1. next \in DOMAIN todo /\ pc \in Active
    BY <1>1, <1>11 DEF CutBack, Typed, TypeOK, Active
  <2>2. PICK req : req = [kind |-> "truncate", at |-> CutPlace(todo[next]), data |-> <<>>]
    OBVIOUS
  <2>3. req \in Request
    BY <1>1, <2>1, <2>2, RecordRequests
  <2>4. RequestFits(req)
    <3>1. todo[next] \in Record /\ RecordFits(todo[next])
      BY <1>1, <2>1, RecordRequests DEF Sized
    <3>2. /\ todo[next].offset \in Nat /\ Len(todo[next].data) \in Nat
          /\ CutPlace(todo[next]) \in Nat
          /\ CutPlace(todo[next]) <= todo[next].offset + Len(todo[next].data)
      BY <3>1, CutPlaceFacts DEF Record, Contents
    <3>3. req.at <= MaxSize /\ req.at \in Nat /\ req.data = <<>>
      BY <1>1, <2>2, <3>1, <3>2 DEF RecordFits
    <3>4. req.at + 0 <= MaxSize /\ Len(<<>>) = 0
      BY <3>3
    <3> QED
      BY <3>3, <3>4 DEF RequestFits
  <2> QED
    BY <1>1, <1>11, <2>2, <2>3, <2>4, BeginSized DEF CutBack
<1>12. CASE Exit \/ Interrupt
  BY <1>12, <1>2 DEF Exit, Interrupt, Gone, file
<1>13. CASE Apply
  <2>1. /\ busy # None /\ content' = Changed(busy, content) /\ busy' = None
        /\ log' = log /\ todo' = todo
    BY <1>13 DEF Apply
  <2>2. /\ busy \in Request /\ content \in Contents /\ Len(content) <= MaxSize
        /\ RequestFits(busy)
    BY <1>1, <2>1 DEF Typed, TypeOK, Sized
  <2>3. (content # None => Len(content) <= MaxSize)'
    BY <2>1, <2>2, ChangedFits
  <2> QED
    BY <2>1, <2>3 DEF Sized, RecordFits
<1>14. CASE ChangeFails \/ Crash
  <2>1. content' = content /\ busy' = None /\ log' = log /\ todo' = todo
    BY <1>14 DEF ChangeFails, Crash
  <2> QED
    BY ONLY <1>2, <2>1
<1>15. CASE UNCHANGED vars
  <2>1. content' = content /\ busy' = busy /\ log' = log /\ todo' = todo
    BY <1>15 DEF vars, file, vrevert
  <2> QED
    BY ONLY <1>2, <2>1
<1>16. CASE OpenFails
  <2>1. /\ content' = content \/ content' = BytesOf(content)
        /\ busy' = busy /\ log' = log /\ todo' = todo
    BY <1>16 DEF OpenFails
  <2> QED
    BY ONLY <1>2, <2>1
<1>17. CASE RenameAway
  <2>1. content' = None /\ busy' = None /\ log' = log /\ todo' = todo
    BY <1>17 DEF RenameAway, Renamed, vrevert
  <2> QED
    BY <2>1 DEF Sized, RecordFits
<1>18. ASSUME NEW d \in Payloads, RenameOnto(d)
       PROVE  Sized'
  <2>1. /\ content' = d /\ Len(d) <= MaxSize /\ busy' = None /\ log' = log
        /\ todo' = todo
    BY <1>18 DEF RenameOnto, Renamed, vrevert
  <2> QED
    BY <2>1 DEF Sized, RecordFits
<1> QED
  BY <1>3, <1>4, <1>5, <1>6, <1>7, <1>8, <1>9, <1>10, <1>11, <1>12, <1>13, <1>14,
     <1>15, <1>16, <1>17, <1>18 DEF Next

(* What vrevert reads from the version file are the records the daemon     *)
(* wrote, where time_t and size_t have four bytes and files are below 4    *)
(* GiB: the second word of an offset is then 0, as readfile takes it.      *)
THEOREM RecordsReadBack ==
  ASSUME Word = 4, MaxSize < TwoTo32
  PROVE  Spec => []LogReadsBack
<1>1. IInv /\ Sized => LogReadsBack
  <2> SUFFICES ASSUME IInv, Sized PROVE LogReadsBack
    OBVIOUS
  <2>1. log \in Seq(Record) /\ MaxSize \in Nat
    BY FileAssumption DEF IInv, Typed, TypeOK
  <2>2. ASSUME NEW k \in DOMAIN log
        PROVE  Small(log[k])
    <3>1. PICK r : r = log[k]
      OBVIOUS
    <3>2. r \in Record /\ RecordFits(r)
      BY <2>1, <3>1 DEF Sized
    <3>3. r.offset \in Nat /\ Len(r.data) \in Nat
      BY <3>2 DEF Record, Contents
    <3>4. r.offset + Len(r.data) <= MaxSize
      BY <3>2 DEF RecordFits
    <3>5. r.offset < TwoTo32 /\ Len(r.data) < TwoTo32
      BY ONLY <2>1, <3>3, <3>4, MaxSize < TwoTo32 DEF TwoTo32
    <3> QED
      BY <3>1, <3>2, <3>5 DEF Small
  <2> QED
    BY <2>1, <2>2, WrittenReadsBack DEF LogReadsBack
<1>2. Init => Sized
  BY InitSized
<1>3. IInv /\ Sized /\ [Next]_vars => Sized'
  BY NextSized
<1> QED
  BY <1>1, <1>2, <1>3, Always, PTL DEF Spec
=============================================================================
