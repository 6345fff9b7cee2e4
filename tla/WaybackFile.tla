----------------------------- MODULE WaybackFile -----------------------------
(***************************************************************************)
(* One file under Wayback, with its version log, and vrevert beside the    *)
(* users of the file.  parseargs starts the daemon single-threaded, so it  *)
(* serves one request at a time; but a callback writes its undo record     *)
(* first and changes the file afterwards, and here these are two steps: the *)
(* daemon may die between them, and the second may fail.  vrevert is a     *)
(* process of its own.  It reads the log once and then reverts record by   *)
(* record through the mounted file system, so that what it does is logged  *)
(* in its turn, and others may change the file between any two of its      *)
(* calls.                                                                  *)
(*                                                                         *)
(* Faults names what the environment may do:                               *)
(*   "log"    the log cannot be opened: the change goes on without record  *)
(*   "change" the write, truncation or removal itself fails                *)
(*   "crash"  the daemon dies, and is started again                        *)
(*   "open"   vrevert cannot open the file                                 *)
(***************************************************************************)
EXTENDS UndoLog

CONSTANTS
  None,       \* no file, no request
  Payloads,   \* what users write at a time
  MaxSize,    \* bound: the longest file a user makes
  MaxChanges, \* bound: how many changes users make
  MaxLog,     \* bound: the longest log vrevert starts on
  MaxFaults,  \* bound: how many faults happen
  Faults      \* see above

ASSUME FileAssumption ==
  /\ Payloads \subseteq Contents \ {<<>>}
  /\ MaxSize \in Nat
  /\ MaxChanges \in Nat
  /\ MaxLog \in Nat
  /\ MaxFaults \in Nat
  /\ None \notin Contents

(* The request of the daemon's that has a record; unlink truncates to 0.   *)
Request == [kind : {"write", "truncate", "unlink"}, at : Nat, data : Contents]

ASSUME RequestAssumption == None \notin Request

VARIABLES
  content,    \* the file, or None
  log,        \* "<name>.   versionfs! version"; empty also when it is missing
  busy,       \* the request whose change is still to be made, or None
  pc,         \* vrevert: what it does next
  todo,       \* vrevert: the records it has read
  next,       \* vrevert: the record to revert next ($i)
  stop,       \* vrevert: the last record to revert
  past,       \* history: past[k] is the file when record k was made
  silent,     \* history: k such that a change after record k has no record
  stages,     \* history: past when vrevert started, and the file then
  clean,      \* history: vrevert has what it needs, and nothing came between
  changes,    \* how many changes users have made, for MaxChanges
  faults      \* how many faults have happened, for MaxFaults

file == <<content, log, busy, past, silent>>
vrevert == <<pc, todo, next, stop, stages>>
vars == <<content, log, busy, pc, todo, next, stop, past, silent, stages, clean,
          changes, faults>>

(* Mutant of BytesOf: a file that does not exist has no contents at all.   *)
BytesOfNothing(c) == c

(* A file that does not exist is made by vrevert as an empty one.          *)
BytesOf(c) == IF c = None THEN <<>> ELSE c

Steps == {"idle", "open", "write", "writing", "truncate", "truncating", "done"}

TypeOK ==
  /\ content \in Contents \cup {None}
  /\ log \in Seq(Record)
  /\ busy \in Request \cup {None}
  /\ pc \in Steps
  /\ todo \in Seq(Record)
  /\ next \in Nat
  /\ stop \in Nat
  /\ past \in Seq(Contents)
  /\ silent \in SUBSET Nat
  /\ stages \in Seq(Contents)
  /\ clean \in BOOLEAN
  /\ changes \in Nat
  /\ faults \in Nat

Init ==
  /\ content = None
  /\ log = <<>>
  /\ busy = None
  /\ pc = "idle"
  /\ todo = <<>>
  /\ next = 0
  /\ stop = 0
  /\ past = <<>>
  /\ silent = {}
  /\ stages = <<>>
  /\ clean = FALSE
  /\ changes = 0
  /\ faults = 0

-----------------------------------------------------------------------------
RecordOf(req, c) ==
  IF req.kind = "write" THEN WriteRecord(c, req.at, Len(req.data))
  ELSE TruncateRecord(c, req.at)

Changed(req, c) ==
  CASE req.kind = "write"    -> Overwritten(c, req.at, req.data)
    [] req.kind = "truncate" -> Resized(c, req.at)
    [] req.kind = "unlink"   -> None

Fault(kind) ==
  /\ kind \in Faults
  /\ faults < MaxFaults
  /\ faults' = faults + 1

(* The first half of ver_write, ver_truncate and ver_unlink.               *)
Begin(req) ==
  /\ busy = None
  /\ content # None
  /\ busy' = req
  /\ \/ /\ log' = Append(log, RecordOf(req, content))
        /\ past' = Append(past, content)
        /\ UNCHANGED <<silent, faults>>
     \/ /\ Fault("log")
        /\ silent' = silent \cup {Len(log)}
        /\ UNCHANGED <<log, past>>
  /\ UNCHANGED content

(* vrevert goes on to the record before, or has reverted the last.         *)
NextRecord ==
  /\ next' = next - 1
  /\ pc' = IF next = stop THEN "done" ELSE "open"

(* What vrevert does when its request has been answered with success.      *)
Answered ==
  CASE pc = "writing" /\ todo[next].extendseof -> pc' = "truncate" /\ UNCHANGED next
    [] pc \in {"writing", "truncating"} /\ ~ (pc = "writing" /\ todo[next].extendseof)
         -> NextRecord
    [] pc \notin {"writing", "truncating"} -> UNCHANGED <<pc, next>>

(* The second half.                                                        *)
Apply ==
  /\ busy # None
  /\ content' = Changed(busy, content)
  /\ busy' = None
  /\ Answered
  /\ UNCHANGED <<log, past, silent, todo, stop, stages, clean, changes, faults>>

(* Mutant of GivesUpRecord: vrevert waits for an answer that never comes.  *)
WaitsForAnswer == UNCHANGED <<pc, next>>

(* When its own request fails vrevert leaves the record half reverted and  *)
(* goes on with the next: "return unless defined $written".                *)
GivesUpRecord ==
  IF pc \in {"writing", "truncating"} THEN NextRecord ELSE UNCHANGED <<pc, next>>

ChangeFails ==
  /\ Fault("change")
  /\ busy # None
  /\ busy' = None
  /\ GivesUpRecord
  /\ clean' = FALSE
  /\ UNCHANGED <<content, log, past, silent, todo, stop, stages, changes>>

(* The daemon dies and is started again.  vrevert's open descriptor dies   *)
(* with it; a record it has not opened the file for may be lost as well.   *)
Crash ==
  /\ Fault("crash")
  /\ busy' = None
  /\ \/ pc \in {"idle", "open", "done"} /\ UNCHANGED <<pc, next>>
     \/ pc \notin {"idle", "done"} /\ NextRecord
  /\ clean' = FALSE
  /\ UNCHANGED <<content, log, past, silent, todo, stop, stages, changes>>

-----------------------------------------------------------------------------
(* The users of the file.                                                  *)
UserBegins(req) ==
  /\ changes < MaxChanges
  /\ changes' = changes + 1
  /\ Begin(req)
  /\ clean' = FALSE
  /\ UNCHANGED vrevert

(* ver_mknod, which leaves no version record but a catalog entry.          *)
Create ==
  /\ busy = None
  /\ content = None
  /\ content' = <<>>
  /\ UNCHANGED <<log, busy, past, silent, clean, changes, vrevert, faults>>

Write(at, d) ==
  /\ at + Len(d) <= MaxSize
  /\ UserBegins([kind |-> "write", at |-> at, data |-> d])

Truncate(n) == UserBegins([kind |-> "truncate", at |-> n, data |-> <<>>])

(* While the file is open libfuse renames it instead of unlinking it.      *)
Unlink ==
  /\ pc = "idle" \/ (pc = "open" /\ next = Len(todo))
  /\ UserBegins([kind |-> "unlink", at |-> 0, data |-> <<>>])

(* ver_rename, which leaves no version record but a catalog entry, and the *)
(* version file where it is.  A file that vrevert has open is not renamed. *)
Renamed ==
  /\ busy = None
  /\ pc \in {"idle", "open"}
  /\ changes < MaxChanges
  /\ changes' = changes + 1
  /\ silent' = silent \cup {Len(log)}
  /\ clean' = FALSE
  /\ UNCHANGED <<log, busy, past, vrevert, faults>>

RenameAway ==
  /\ content # None
  /\ content' = None
  /\ Renamed

(* Another file, with these contents, takes the name.                      *)
RenameOnto(d) ==
  /\ Len(d) <= MaxSize
  /\ content' = d
  /\ Renamed

(* vrm, and ver_unlink of a version file, which is itself not recorded.    *)
RemoveLog ==
  /\ busy = None
  /\ log # <<>>
  /\ log' = <<>>
  /\ past' = <<>>
  /\ silent' = {}
  /\ UNCHANGED <<content, busy, clean, changes, vrevert, faults>>

-----------------------------------------------------------------------------
(* vrevert -n, or -d, which comes to the same: readfile, and the range of  *)
(* records to revert.                                                      *)
Restorable(from) ==
  \A k \in from .. Len(log) :
    Within(log[k], past[k]) /\ CutsAtEnd(log[k]) /\ k \notin silent

Start(from) ==
  /\ pc = "idle"
  /\ busy = None
  /\ Len(log) <= MaxLog
  /\ pc' = "open"
  /\ todo' = log
  /\ next' = Len(log)
  /\ stop' = from
  /\ stages' = Append(past, BytesOf(content))
  /\ clean' = Restorable(from)
  /\ UNCHANGED <<file, changes, faults>>

(* Mutant of OpenForRecord: without data there is nothing to do.           *)
OpenSkipsEmpty ==
  /\ pc = "open"
  /\ busy = None
  /\ content' = BytesOf(content)
  /\ IF todo[next].data # <<>> THEN pc' = "write" /\ UNCHANGED next ELSE NextRecord
  /\ UNCHANGED <<log, busy, past, silent, todo, stop, stages, clean, changes, faults>>

(* revertfileentry: sysopen with O_CREAT, then syswrite if the record has  *)
(* data, then truncate if it says so.                                      *)
OpenForRecord ==
  /\ pc = "open"
  /\ busy = None
  /\ content' = BytesOf(content)
  /\ CASE todo[next].data # <<>> -> pc' = "write" /\ UNCHANGED next
       [] todo[next].data = <<>> /\ todo[next].extendseof
            -> pc' = "truncate" /\ UNCHANGED next
       [] todo[next].data = <<>> /\ ~ todo[next].extendseof -> NextRecord
  /\ UNCHANGED <<log, busy, past, silent, todo, stop, stages, clean, changes, faults>>

(* The sysopen fails, after the mknod in it or before; nobody looks, and   *)
(* what follows on the closed DST fails.                                   *)
OpenFails ==
  /\ Fault("open")
  /\ pc = "open"
  /\ busy = None
  /\ content' \in {content, BytesOf(content)}
  /\ NextRecord
  /\ clean' = FALSE
  /\ UNCHANGED <<log, busy, past, silent, todo, stop, stages, changes>>

WriteBack ==
  /\ pc = "write"
  /\ Begin([kind |-> "write", at |-> todo[next].offset, data |-> todo[next].data])
  /\ pc' = "writing"
  /\ UNCHANGED <<todo, next, stop, stages, clean, changes>>

CutBack ==
  /\ pc = "truncate"
  /\ Begin([kind |-> "truncate", at |-> CutPlace(todo[next]), data |-> <<>>])
  /\ pc' = "truncating"
  /\ UNCHANGED <<todo, next, stop, stages, clean, changes>>

(* vrevert exits, or is interrupted.                                       *)
Gone ==
  /\ pc' = "idle"
  /\ todo' = <<>>
  /\ next' = 0
  /\ stop' = 0
  /\ stages' = <<>>
  /\ clean' = FALSE
  /\ UNCHANGED <<file, changes, faults>>

Exit ==
  /\ pc = "done"
  /\ Gone

Interrupt ==
  /\ pc \in {"open", "write", "truncate"}
  /\ Gone

-----------------------------------------------------------------------------
Next ==
  \/ Create
  \/ \E at \in 0 .. MaxSize, d \in Payloads : Write(at, d)
  \/ \E n \in 0 .. MaxSize : Truncate(n)
  \/ Unlink
  \/ RenameAway
  \/ \E d \in Payloads : RenameOnto(d)
  \/ RemoveLog
  \/ \E from \in DOMAIN log : Start(from)
  \/ OpenForRecord
  \/ OpenFails
  \/ WriteBack
  \/ CutBack
  \/ Exit
  \/ Interrupt
  \/ Apply
  \/ ChangeFails
  \/ Crash

(* The daemon finishes what it has begun; requests wait in a queue, so one *)
(* of vrevert's is served however many others make.                        *)
Fairness ==
  /\ WF_vars(Apply)
  /\ SF_vars(OpenForRecord \/ WriteBack \/ CutBack)
  /\ WF_vars(Exit)

Spec == Init /\ [][Next]_vars /\ Fairness

-----------------------------------------------------------------------------
After(k) == IF k = Len(log) THEN BytesOf(content) ELSE past[k + 1]

(* No state of the file is lost: reverting a record gives the file back as *)
(* it was before the change the record was made for, whether that change   *)
(* was made, failed, or was cut off by a crash, whoever made it, vrevert   *)
(* included.  This excepts places where a change has no record, and changes *)
(* that begin past the end of the file: their records have no data, and    *)
(* reverting them leaves the file at the length the hole was made from.  It *)
(* excepts truncations, and writes to the end, from offsets of 4 GiB on,   *)
(* where reverting cuts the file at another place (vutils.pl:323).         *)
RecordsRestore ==
  \A k \in DOMAIN log :
    Within(log[k], past[k]) /\ CutsAtEnd(log[k]) /\ k \notin silent =>
      Undone(log[k], After(k)) = past[k]

(* vrevert that nobody disturbs ends with the file as it was before the    *)
(* first of the operations it was told to revert.                          *)
RevertRestores == pc = "done" /\ clean => BytesOf(content) = stages[stop]

(* vrevert ends, though it appends to the log it reverts and others write  *)
(* to the file and the log meanwhile.                                      *)
RevertEnds == pc # "idle" ~> pc = "idle"
=============================================================================
