----------------------------- MODULE WaybackDir ------------------------------
(***************************************************************************)
(* One directory under Wayback: its names, its catalog, and vrevert on the *)
(* directory.  A callback changes the directory first and adds its entry   *)
(* to the catalog afterwards, so that a crash between the two, or a        *)
(* catalog that cannot be opened, leaves a change without an entry.        *)
(*                                                                         *)
(* The contents of files are not followed here (WaybackFile does), only    *)
(* which names there are and what they stand for.  A name is a pair: the   *)
(* name a user sees with 0, and with k > 0 the k-th name that              *)
(* ver_deletedpath makes of it, which ver_getdir hides.                    *)
(*                                                                         *)
(* vrevert ends by reverting what getdircontents lists, "." among it, by   *)
(* names that are looked up where the process runs.  Where that is a       *)
(* directory with a catalog, this one or another, it goes on for ever;     *)
(* elsewhere neither that directory nor its parent has a catalog, and none *)
(* of the names there has a version file.                                  *)
(***************************************************************************)
EXTENDS Integers, Sequences, FiniteSets

CONSTANTS
  Word,       \* sizeof(time_t)
  Names,      \* what a user calls things
  Ids,        \* bound: the inodes
  Plain,      \* a mode that others may not execute
  Executable, \* a mode that others may execute
  None,
  MaxDeleted, \* bound: deleted names tried for one name
  MaxChanges, \* bound: how many changes users make
  MaxLog,     \* bound: the longest catalog vrevert starts on
  MaxNested,  \* bound: records a nested vrevert finds in a file's log
  MaxFaults   \* bound: how many crashes and failing catalogs

ASSUME DirAssumption ==
  /\ IsFiniteSet(Ids)
  /\ Plain # Executable
  /\ {MaxDeleted, MaxChanges, MaxLog, MaxNested, MaxFaults} \subseteq Nat

Modes == {Plain, Executable}
Kinds == {"file", "link", "dir"}

Paths == Names \X (0 .. MaxDeleted)
Seen(n) == <<n, 0>>

Inode == [kind : Kinds, mode : Modes]

(* What the directory holds: at says which inode a path names.             *)
Directory == [at : [Paths -> Ids \cup {None}], inode : [Ids -> Inode]]

Actions == {"create", "mkdir", "rm", "rename", "rmdir", "chmod"}

(* file1, file2 and, of the stat, the type and mode.                       *)
Entry == [action : Actions, file1 : Paths, file2 : Paths, stats : Inode]

ASSUME NoneAssumption ==
  None \notin Ids \cup [entry : Entry, before : Directory]

Nothing == [kind |-> "file", mode |-> Plain]

-----------------------------------------------------------------------------
(* What the system calls do to a directory.                                *)
Exists(d, p) == d.at[p] # None
At(d, p) == d.inode[d.at[p]]
IsDir(d, p) == Exists(d, p) /\ At(d, p).kind = "dir"

Unused(d) == Ids \ { d.at[p] : p \in Paths }

Made(d, p, kind, mode) ==
  LET id == CHOOSE i \in Unused(d) : TRUE
  IN [at |-> [d.at EXCEPT ![p] = id],
      inode |-> [d.inode EXCEPT ![id] = [kind |-> kind, mode |-> mode]]]

Unlinked(d, p) == [d EXCEPT !.at[p] = None]

(* A directory with nothing in it is replaced by another; what is in them  *)
(* is not followed, so that this may also be refused.                      *)
CanRename(d, p, q) ==
  /\ Exists(d, p)
  /\ Exists(d, q) => (IsDir(d, p) <=> IsDir(d, q))

RenameRefused(d, p, q) == IsDir(d, p) /\ IsDir(d, q)

(* Two names of one inode stay as they are, see rename(2).                 *)
Renamed(d, p, q) ==
  IF d.at[p] = d.at[q] THEN d
  ELSE [d EXCEPT !.at[q] = d.at[p], !.at[p] = None]

LinkedTo(d, p, q) == [d EXCEPT !.at[q] = d.at[p]]

(* Mutant of Chmoded: the whole stat is taken for the mode.                *)
ChmodedWhole(d, p, mode) == [d EXCEPT !.inode[d.at[p]].mode = At(d, p)]

Chmoded(d, p, mode) == [d EXCEPT !.inode[d.at[p]].mode = mode]

(* ver_deletedpath: the first deleted name that is free.                   *)
DeletedPath(d, n) ==
  <<n, CHOOSE k \in 1 .. MaxDeleted :
         /\ ~ Exists(d, <<n, k>>)
         /\ \A j \in 1 .. k - 1 : Exists(d, <<n, j>>)>>

CanDelete(d, n) == \E k \in 1 .. MaxDeleted : ~ Exists(d, <<n, k>>)

-----------------------------------------------------------------------------
VARIABLES
  dir,        \* the directory
  catalog,    \* its file ".   versionfs! version"
  pending,    \* the entry of the change just made, and the directory before
              \* it, or None
  pc,         \* vrevert: what it does next
  inside,     \* vrevert: it runs in a directory with a catalog
  since,      \* vrevert: the first entry that is not before $sincedate
  todo,       \* vrevert: the entries it has read (%dirinfo)
  index,      \* vrevert: the entry to revert next ($i)
  number,     \* vrevert: the global $number
  past,       \* history: past[k] is the directory before the change of entry k
  silent,     \* history: k such that a change after entry k has no entry
  stages,     \* history: past when vrevert started, and the directory then
  target,     \* history: the last entry vrevert was told to revert
  clean,      \* history: vrevert has what it needs, and nothing came between
  nested,     \* history: a nested vrevert has set $number
  changes,    \* for MaxChanges
  faults      \* for MaxFaults

told == <<inside, since, todo, stages, target>>
bounds == <<changes, faults>>
vars == <<dir, catalog, pending, pc, inside, since, todo, index, number, past,
          silent, stages, target, clean, nested, changes, faults>>

TypeOK ==
  /\ dir \in Directory
  /\ catalog \in Seq(Entry)
  /\ pending \in [entry : Entry, before : Directory] \cup {None}
  /\ pc \in {"idle", "entry", "attributes", "contents", "done"}
  /\ inside \in BOOLEAN
  /\ since \in Nat
  /\ todo \in Seq(Entry)
  /\ index \in Nat
  /\ number \in Nat
  /\ past \in Seq(Directory)
  /\ silent \in SUBSET Nat
  /\ stages \in Seq(Directory)
  /\ target \in Nat
  /\ clean \in BOOLEAN
  /\ nested \in BOOLEAN
  /\ changes \in Nat
  /\ faults \in Nat

Init ==
  /\ dir = [at |-> [p \in Paths |-> None], inode |-> [i \in Ids |-> Nothing]]
  /\ catalog = <<>>
  /\ pending = None
  /\ pc = "idle"
  /\ inside = FALSE
  /\ since = 0
  /\ todo = <<>>
  /\ index = 0
  /\ number = 0
  /\ past = <<>>
  /\ silent = {}
  /\ stages = <<>>
  /\ target = 0
  /\ clean = FALSE
  /\ nested = FALSE
  /\ changes = 0
  /\ faults = 0

-----------------------------------------------------------------------------
(* A callback whose system call succeeded: the change, and the entry that  *)
(* ver_updatedirectory is about to add.                                    *)
Entered(action, p, q, stats) ==
  [action |-> action, file1 |-> p, file2 |-> q, stats |-> stats]

Changes(d, entry) ==
  /\ pending = None
  /\ dir' = d
  /\ pending' = [entry |-> entry, before |-> dir]

Mknod(p) ==
  /\ ~ Exists(dir, p)
  /\ Unused(dir) # {}
  /\ Changes(Made(dir, p, "file", Plain), Entered("create", p, p, Nothing))

Symlink(p) ==
  /\ ~ Exists(dir, p)
  /\ Unused(dir) # {}
  /\ Changes(Made(dir, p, "link", Executable), Entered("create", p, p, Nothing))

Mkdir(p) ==
  /\ ~ Exists(dir, p)
  /\ Unused(dir) # {}
  /\ Changes(Made(dir, p, "dir", Executable), Entered("mkdir", p, p, Nothing))

Unlink(p) ==
  /\ Exists(dir, p)
  /\ ~ IsDir(dir, p)
  /\ Changes(Unlinked(dir, p), Entered("rm", p, p, At(dir, p)))

(* ver_rmdir moves the directory away, with all that is in it.             *)
Rmdir(n) ==
  /\ IsDir(dir, Seen(n))
  /\ CanDelete(dir, n)
  /\ CanRename(dir, Seen(n), DeletedPath(dir, n))
  /\ Changes(Renamed(dir, Seen(n), DeletedPath(dir, n)),
             Entered("rmdir", Seen(n), DeletedPath(dir, n), Nothing))

Rename(p, q) ==
  /\ p # q
  /\ CanRename(dir, p, q)
  /\ Changes(Renamed(dir, p, q), Entered("rename", p, q, Nothing))

(* ver_link enters the file that was there, not the new name.              *)
Link(p, q) ==
  /\ Exists(dir, p)
  /\ ~ IsDir(dir, p)
  /\ ~ Exists(dir, q)
  /\ Changes(LinkedTo(dir, p, q), Entered("create", p, q, Nothing))

(* Also chown and utime, whose entries carry the same stat.  The kernel    *)
(* follows a symbolic link before it asks.                                 *)
Chmod(p, mode) ==
  /\ Exists(dir, p)
  /\ At(dir, p).kind # "link"
  /\ Changes(Chmoded(dir, p, mode), Entered("chmod", p, p, At(dir, p)))

(* The second half of the callback, or what becomes of it.                 *)
Record ==
  /\ pending # None
  /\ catalog' = Append(catalog, pending.entry)
  /\ past' = Append(past, pending.before)
  /\ pending' = None
  /\ UNCHANGED <<dir, silent, pc, index, number, told, clean, nested, bounds>>

Fault ==
  /\ faults < MaxFaults
  /\ faults' = faults + 1
  /\ pending' = None
  /\ silent' = IF pending = None THEN silent ELSE silent \cup {Len(catalog)}
  /\ UNCHANGED <<dir, catalog, past, told, nested, number, changes>>

CatalogFails ==
  /\ pending # None
  /\ Fault
  /\ UNCHANGED <<pc, index, clean>>

-----------------------------------------------------------------------------
UserDoes ==
  \/ \E n \in Names :
       \/ Mknod(Seen(n))
       \/ Symlink(Seen(n))
       \/ Mkdir(Seen(n))
       \/ Unlink(Seen(n))
       \/ Rmdir(n)
       \/ \E m \in Names : Rename(Seen(n), Seen(m)) \/ Link(Seen(n), Seen(m))
       \/ \E mode \in Modes : Chmod(Seen(n), mode)

User ==
  /\ changes < MaxChanges
  /\ changes' = changes + 1
  /\ UserDoes
  /\ clean' = FALSE
  /\ UNCHANGED <<catalog, past, silent, pc, index, number, told, nested, faults>>

-----------------------------------------------------------------------------
(* vrevert -n on the directory.                                            *)

(* What "mode & 0120000 == 0120000", which is mode & 1, does not take for a *)
(* symbolic link.                                                          *)
TakenForFile(entry) == entry.stats.kind = "file" /\ entry.stats.mode = Plain

(* What undoing an entry brings back: not the name given to a link, not    *)
(* the file a rename replaced, and neither a symbolic link nor a file      *)
(* others may execute, since "mode & 0120000 == 0120000" is mode & 1.  A   *)
(* file that has another name comes back as a file of its own.  Where an   *)
(* earlier vrevert took a directory back from its deleted name, that name  *)
(* may be in use by now.                                                   *)
Undoable(entry, before) ==
  CASE entry.action = "create" -> ~ Exists(before, entry.file1)
    [] entry.action = "rename" ->
         entry.file1[2] = 0 /\ ~ Exists(before, entry.file2)
    [] entry.action = "rm" ->
         /\ TakenForFile(entry)
         /\ \A p \in Paths \ {entry.file1} :
              before.at[p] # before.at[entry.file1]
    [] OTHER -> TRUE

Restorable(from) ==
  \A k \in from .. Len(catalog) : Undoable(catalog[k], past[k]) /\ k \notin silent

(* readdirectory takes an entry for a header of 12 bytes and its data, and *)
(* a stat for six numbers of four: nothing is said here about what it makes*)
(* of longer times.                                                        *)
ReadDirectory == CASE Word = 4 -> catalog

(* The loop over the entries from one to the last.                         *)
Loop(from) ==
  /\ pending = None
  /\ Len(catalog) <= MaxLog
  /\ pc' = "entry"
  /\ todo' = ReadDirectory
  /\ index' = Len(todo')
  /\ number' = Len(todo') - from + 1

(* $sincedate is the time of the entry to start from, which others before  *)
(* it may have as well; it matters only where "." has a catalog.           *)
Start(from) ==
  /\ pc = "idle"
  /\ Loop(from)
  /\ inside' \in BOOLEAN
  /\ since' \in IF inside' THEN 1 .. from ELSE {from}
  /\ target' = from
  /\ stages' = Append(past, dir)
  /\ clean' = Restorable(from)
  /\ nested' = FALSE
  /\ UNCHANGED <<dir, catalog, pending, past, silent, bounds>>

(* Mutant of NextEntry: the last entry is left out.                        *)
NextEntryOneShort ==
  /\ index' = index - 1
  /\ pc' = IF index > 1 /\ index - 2 > Len(todo) - number' THEN "entry"
           ELSE "contents"

(* The for loop compares with $number each time.                           *)
NextEntry ==
  /\ index' = index - 1
  /\ pc' = IF index > 1 /\ index - 1 > Len(todo) - number' THEN "entry"
           ELSE "contents"

Nested(entry) == entry.action \in {"mkdir", "rename", "rmdir"}

(* vrevert calls itself for what the entry names.  If that has a log, the  *)
(* call leaves in $number how many of its records are of that time.        *)
SetsNumber(entry) ==
  \/ UNCHANGED <<number, nested>>
  \/ /\ Nested(entry)
     /\ number' \in 0 .. MaxNested
     /\ nested' = TRUE

(* A call of vrevert's, which nobody looks at when it fails.               *)
Attempt(can, call) == IF can THEN call ELSE UNCHANGED <<dir, pending>>

(* revertdirentry.  It puts a removed symbolic link, or what it takes for  *)
(* one, where the process runs and not where the name was.                 *)
RevertEntry ==
  /\ pc = "entry"
  /\ pending = None
  /\ LET entry == todo[index]
         p == entry.file1
         q == entry.file2
     IN /\ SetsNumber(entry)
        /\ CASE entry.action = "create" ->
                  NextEntry /\ Attempt(Exists(dir, p) /\ ~ IsDir(dir, p), Unlink(p))
             [] entry.action = "mkdir" ->
                  NextEntry /\ Attempt(IsDir(dir, p), Rmdir(p[1]))
             [] entry.action \in {"rename", "rmdir"} ->
                  /\ NextEntry
                  /\ \/ Attempt(p # q /\ CanRename(dir, q, p), Rename(q, p))
                     \/ RenameRefused(dir, q, p) /\ UNCHANGED <<dir, pending>>
             [] entry.action = "chmod" ->
                  NextEntry /\ Attempt(Exists(dir, p) /\ At(dir, p).kind # "link",
                                      Chmod(p, entry.stats.mode))
             [] entry.action = "rm" /\ TakenForFile(entry) /\ IsDir(dir, p) ->
                  NextEntry /\ UNCHANGED <<dir, pending>>
             [] entry.action = "rm" /\ ~ (TakenForFile(entry) /\ IsDir(dir, p)) ->
                  /\ pc' = "attributes"
                  /\ UNCHANGED index
                  /\ Attempt(TakenForFile(entry) /\ ~ Exists(dir, p), Mknod(p))
  /\ UNCHANGED <<catalog, past, silent, told, clean, bounds>>

(* The chmod, chown and utime that follow a file put back.                 *)
RevertAttributes ==
  /\ pc = "attributes"
  /\ pending = None
  /\ LET entry == todo[index]
         p == entry.file1
     IN Attempt(Exists(dir, p) /\ At(dir, p).kind # "link",
                Chmod(p, entry.stats.mode))
  /\ UNCHANGED number
  /\ NextEntry
  /\ UNCHANGED <<catalog, past, silent, told, clean, nested, bounds>>

(* A nested call for a directory with a catalog comes to that directory's  *)
(* contents, and by "." to the directory the process runs in.              *)
Descend ==
  /\ pc = "entry"
  /\ inside
  /\ LET entry == todo[index]
     IN /\ Nested(entry)
        /\ IsDir(dir, IF entry.action = "mkdir" THEN entry.file1 ELSE entry.file2)
  /\ pc' = "contents"
  /\ since' \in 1 .. index
  /\ nested' = TRUE
  /\ UNCHANGED <<dir, catalog, pending, past, silent, inside, todo, index, number,
                 stages, target, clean, bounds>>

(* The contents, where the process does not run in a versioned directory.  *)
Return ==
  /\ pc = "contents"
  /\ ~ inside
  /\ pc' = "done"
  /\ UNCHANGED <<dir, catalog, pending, past, silent, index, number, told, clean,
                 nested, bounds>>

(* And where it runs in this one: "." is reverted again, what vrevert has  *)
(* just done included.  In another one nothing more happens to this one.   *)
Again ==
  /\ pc = "contents"
  /\ inside
  /\ Loop(since)
  /\ stages' = Append(past, dir)
  /\ target' = since
  /\ clean' = FALSE
  /\ UNCHANGED <<dir, catalog, pending, past, silent, inside, since, nested, bounds>>

Gone ==
  /\ pc' = "idle"
  /\ inside' = FALSE
  /\ since' = 0
  /\ index' = 0
  /\ number' = 0
  /\ todo' = <<>>
  /\ stages' = <<>>
  /\ target' = 0
  /\ clean' = FALSE
  /\ nested' = FALSE
  /\ UNCHANGED <<dir, catalog, pending, past, silent, bounds>>

Exit == pc = "done" /\ Gone

(* vrevert is interrupted between two of its calls.                        *)
Interrupt == pc \in {"entry", "attributes", "contents"} /\ Gone

(* The daemon dies and is started again; vrevert may lose the call it is   *)
(* about to make.                                                          *)
Crash ==
  /\ Fault
  /\ clean' = FALSE
  /\ \/ UNCHANGED <<pc, index>>
     \/ pc \in {"entry", "attributes"} /\ index' = index - 1
        /\ pc' = IF index > 1 /\ index - 1 > Len(todo) - number THEN "entry"
                 ELSE "contents"

Next ==
  \/ User
  \/ Record
  \/ CatalogFails
  \/ \E from \in DOMAIN catalog : Start(from)
  \/ RevertEntry
  \/ RevertAttributes
  \/ Descend
  \/ Return
  \/ Again
  \/ Exit
  \/ Interrupt
  \/ Crash

Spec == Init /\ [][Next]_vars

-----------------------------------------------------------------------------
(* What a user sees: the names, what they stand for, and which directory   *)
(* it is.                                                                  *)
View(d) ==
  [n \in Names |->
     IF ~ Exists(d, Seen(n)) THEN None
     ELSE [is |-> At(d, Seen(n)),
           id |-> IF IsDir(d, Seen(n)) THEN d.at[Seen(n)] ELSE None]]

(* vrevert on a directory that nobody disturbs, run where no directory has *)
(* a catalog, and none of whose nested calls sets $number, ends with the   *)
(* names and attributes as they were before the first of the operations it *)
(* was told to revert, though each of its own calls adds an entry and a    *)
(* directory made in the meantime has to be moved out of the way.  Run in  *)
(* a versioned directory it does not end.                                  *)
RevertRestoresNames ==
  pc = "done" /\ clean /\ ~ nested /\ pending = None
    => View(dir) = View(stages[target])

(* vutils.pl:543: the same when a nested call does set it.                 *)
NestedRevertRestores ==
  pc = "done" /\ clean /\ pending = None => View(dir) = View(stages[target])
=============================================================================
