------------------------------- MODULE UndoLog -------------------------------
(***************************************************************************)
(* The undo records Wayback keeps of one file, as functions on contents:   *)
(* what ver_updateversion writes down before a write, a truncation or a    *)
(* removal, what these do to the file, and what revertfileentry of vutils  *)
(* does with a record.  Offsets count from 0, as in the code; a file is a  *)
(* sequence of bytes, and a hole reads as zeros.                           *)
(***************************************************************************)
EXTENDS Integers, Sequences

CONSTANTS
  Bytes,    \* the values of a byte
  Zero,     \* the byte a hole reads as
  Wrap      \* where one of unpack's "I" starts again from 0: 2^32

ASSUME ByteAssumption == Zero \in Bytes

ASSUME WrapAssumption == Wrap \in Nat \ {0}

Contents == Seq(Bytes)

(* A record without its time; its size is the length of its data.          *)
Record == [offset : Nat, data : Contents, extendseof : BOOLEAN]

(* pread of up to n bytes from an offset.                                  *)
Read(c, from, n) ==
  SubSeq(c, from + 1, IF from + n < Len(c) THEN from + n ELSE Len(c))

(* pwrite, and truncate(2).                                                *)
Overwritten(c, at, d) ==
  IF d = <<>> THEN c
  ELSE [i \in 1 .. (IF at + Len(d) > Len(c) THEN at + Len(d) ELSE Len(c)) |->
          IF i \in at + 1 .. at + Len(d) THEN d[i - at]
          ELSE IF i <= Len(c) THEN c[i] ELSE Zero]

Resized(c, n) == [i \in 1 .. n |-> IF i <= Len(c) THEN c[i] ELSE Zero]

-----------------------------------------------------------------------------
(* Mutant of WriteRecord: the end of the file is never noticed.            *)
WriteRecordNoExtend(c, at, n) ==
  [offset |-> at, data |-> Read(c, at, n), extendseof |-> FALSE]

(* ver_updateversion before a write of n > 0 bytes: the bytes it covers,   *)
(* and whether the scan for them met the end of the file.                  *)
WriteRecord(c, at, n) ==
  [offset |-> at, data |-> Read(c, at, n), extendseof |-> at + n > Len(c)]

(* ver_updateversion before a truncation: everything from there on.        *)
TruncateRecord(c, n) ==
  [offset |-> n, data |-> Read(c, n, Len(c)), extendseof |-> TRUE]

(* Where revertfileentry cuts the file: it seeks with both words of the    *)
(* offset, but truncates with the lower one alone.                         *)
CutPlace(r) == (r.offset % Wrap) + Len(r.data)

(* revertfileentry on a file with the given contents.                      *)
Undone(r, c) ==
  LET written == Overwritten(c, r.offset, r.data)
  IN IF r.extendseof THEN Resized(written, CutPlace(r)) ELSE written

(* The change the record was made for began inside the file it changed, or *)
(* at its end.                                                             *)
Within(r, c) == r.offset <= Len(c)

(* The file is cut where the record ends.                                  *)
CutsAtEnd(r) == r.extendseof => r.offset < Wrap
=============================================================================
