---------------------------- MODULE WaybackFormat ----------------------------
(***************************************************************************)
(* The version log of WaybackFile as bytes.  The daemon writes a record's  *)
(* header with memcpy from its own time_t, off_t, size_t and char; vutils  *)
(* reads a header of 17 bytes with unpack "IIIIC".  Numbers are little     *)
(* endian, off_t has 8 bytes, and Word is the size of time_t and size_t.   *)
(***************************************************************************)
EXTENDS WaybackFile

CONSTANTS
  Word,       \* sizeof(time_t), sizeof(size_t)
  Time        \* what time(NULL) says; when records are made does not matter

ASSUME FormatAssumption == Word \in Nat /\ Time \in Nat /\ Bytes \subseteq 0 .. 255

-----------------------------------------------------------------------------
(* A number in so many bytes, the lowest first.                            *)
Place == <<1, 256, 65536, 16777216>>

Wide(n, width) == [i \in 1 .. width |-> IF i > 4 THEN 0 ELSE (n \div Place[i]) % 256]

Flag(b) == IF b THEN <<1>> ELSE <<0>>

(* Mutant of Header: the size comes before the offset.                     *)
HeaderSizeFirst(r) ==
  Wide(Time, Word) \o Wide(Len(r.data), Word) \o Wide(r.offset, 8) \o Flag(r.extendseof)

(* What ver_updateversion puts before the data.                            *)
Header(r) ==
  Wide(Time, Word) \o Wide(r.offset, 8) \o Wide(Len(r.data), Word) \o Flag(r.extendseof)

(* The version file that holds these records.                              *)
Written(records) ==
  LET upTo[k \in 0 .. Len(records)] ==
        IF k = 0 THEN <<>> ELSE upTo[k - 1] \o Header(records[k]) \o records[k].data
  IN upTo[Len(records)]

-----------------------------------------------------------------------------
(* unpack "I" at a place of a string: 0, as undef counts, past its end.    *)
UInt(s, at) ==
  IF at + 3 > Len(s) THEN 0
  ELSE s[at] + 256 * s[at + 1] + 65536 * s[at + 2] + 16777216 * s[at + 3]

(* A header as readfile takes it; more counts 2^32 bytes each.             *)
Unpacked(h) ==
  [offset |-> UInt(h, 5), more |-> UInt(h, 9), size |-> UInt(h, 13),
   trunc |-> Len(h) >= 17 /\ h[17] # 0]

(* readfile: it stops at the end of the file, and at a record that has     *)
(* none of the data its size announces.                                    *)
ReadFile(bytes) ==
  LET from[i \in 1 .. Len(bytes) + 1] ==
        LET fields == Unpacked(Read(bytes, i - 1, 17))
            data == Read(bytes, i + 16, fields.size)
            rest == i + 17 + Len(data)
        IN IF i > Len(bytes) \/ (fields.size > 0 /\ data = <<>>) THEN <<>>
           ELSE <<[fields |-> fields, data |-> data]>>
                  \o (IF rest > Len(bytes) THEN <<>> ELSE from[rest])
  IN from[1]

AsRead(r) ==
  [fields |-> [offset |-> r.offset, more |-> 0, size |-> Len(r.data),
               trunc |-> r.extendseof],
   data |-> r.data]

-----------------------------------------------------------------------------
(* vutils.pl:543, "Revert all operations after and including the nth most  *)
(* recent operation": vrevert has to find the operations.  What it reads   *)
(* from the version file are the records the daemon wrote, whatever their  *)
(* data look like.  This is so where time_t and size_t have four bytes.    *)
LogReadsBack == ReadFile(Written(log)) = [k \in DOMAIN log |-> AsRead(log[k])]
=============================================================================
