# TLA+ models of `reproduction`: CopyFS, Wayback and tty_runner

The repository benchmarks storage systems: versioning file systems (CopyFS,
Wayback, NILFS, Btrfs), scripts that mount and measure them, and a runner that
drives virtual machines over a terminal. Its own stateful logic is in CopyFS
(`fs/copyfs/box/source`), Wayback (`fs/waybackfs/box/source`) and `tty_runner`
(`tools/tty_runner`). This directory models CopyFS's versioning of files and what a
crash in the middle of it leaves, Wayback's undo log and directory catalog with the
utility that reverts them, and the threads of `tty_runner`; the other parts are in
the inventory and the plan below.

Paths below are relative to `src/`; file names without a directory are CopyFS's,
except in the parts on Wayback, where they are under `fs/waybackfs/box/source`.

## Inventory

| Component | State | Operations | Interacts with | Hard behaviour | What makes it correct |
|---|---|---|---|---|---|
| CopyFS daemon: `interface.c`, `create.c`, `lookup.c`, `ea.c` | per file a list of versions, a lock, a deletion mark, a timestamp | FUSE callbacks: mknod, open, write, truncate, chmod, chown, unlink, mkdir, rmdir, symlink, setxattr (lock, purge) | clients through the kernel; cache; version directory | callbacks of several clients interleave; a path is looked up again at each write; calls within a second of the last creation are skipped; failures in the middle of a callback | no history is lost but by a purge; older versions are never written; a lock selects what is served; errors are undone |
| CopyFS persistence: `parse.c`, `write.c` | `metadata.<name>`, `dfl-meta.<name>`, `<serial>.<name>` | write and parse both metadata files | daemon; restarts | restarts; short writes; two files written in sequence; the daemon killed between two system calls | what is read back is what was in memory, before or after the callback that was cut off |
| CopyFS cache: `cache.c` | hash table of metadata, in linked lists | get, add, drop, longest match of a path | lookups, purges | a purge empties a bucket; stale children of directories | nobody can tell a cached file from one read back |
| CopyFS string helpers: `helper.c` | none | split, prefix test, composite, names | everything above | memory sizes, empty elements | each equals its plain definition |
| `copyfs-fversion` (Perl client) | none of its own; the lock of a file | lock, release, purge; diff, grep and tag files as sequences of locks and reads | daemon, other clients | other clients run between its calls; it may be interrupted | the lock is restored; a diff shows the versions asked for |
| Wayback daemon: `src/wayback.c`, `src/waybackfsvops.c` | a version file per file, a catalog per directory | an undo record before every write, truncation and removal; a catalog entry after every change of a directory | kernel, version directory | crash or failure between record and change; a log that cannot be opened; the end of the file at or inside a write | reverting the records gives every earlier state |
| Wayback utilities: `vutils.pl` | the same logs, read once | list, revert, remove versions | daemon and users running beside them | reverting appends to the log it reads; nested reverts share a global; the layout of a record depends on the machine | a revert ends, and restores the state of its time |
| `tty_runner` | `quit`, `tty_launched`, the pty descriptor, the collected output | four threads and a signal handler | a QEMU process, a terminal | flags set before what they announce; a wait nobody ends; unsynchronised output | it always ends; no descriptor is used before it is set |
| Benchmark harness: `tests/*.sh`, `fs/*/fs_utils.sh`, `test.sh` | mounted file systems, loop files | mount, run, unmount, destroy | all of the above | a step that fails leaves things mounted | each run starts from a fresh file system |
| `graphs.py`, provisioning, generated `configure` | none that lasts | | | | not modelled: charts, package lists and generated code |

## Modules

| Module | Contents |
|---|---|
| `Versions` | data of one file and pure functions on it: versions, lists, `rcs_find_version` (`Hits`, `Current`), the constructors of `create.c` (`NextVersion`, `NextSubversion`, `FirstVersion`, `Linked`), the cull of a purge, the image of a list on disk (`Image`, `Parsed`, `Torn`) |
| `CopyFS` | the daemon: state, one action per callback, faults, properties |
| `VersionedFiles` | the abstract specification: files with versions and cells of data, with no cache, no metadata files and no restart |
| `CopyFSImplements` | the refinement mapping from `CopyFS` to `VersionedFiles` |
| `MCCopyFS` | constants for TLC |
| `CopyFSCommit` | one file of CopyFS with each callback as the system calls it makes, and the daemon dying between them |
| `VersionsProofs` | lemmas about lists of versions, their image on disk and the constructors, used by the three modules below |
| `CopyFSProofs` | the inductive invariant; type correctness, list order, serials, subversions on one backing file, copy on write |
| `CopyFSFaultProofs` | what holds with failing calls: errors are undone in memory; every listed version can be read |
| `CopyFSImplementsProofs` | without failing calls: the refinement of `VersionedFiles`; only a purge forgets; readers of other files are not disturbed; no backing file without a version |
| `CopyFSCommitProofs` | what a death of the daemon at any system call leaves: types, whole files, old or new history, old or new version served, strays counted |
| `TtyRunner` | `tty_runner`: one action per step of its four threads, the signal handler, the guest, repeated calls; properties |
| `TtyRunnerProofs` | type correctness; commands reach the guest of their run; no output is lost; when a test may see old lines |
| `UndoLog` | pure functions: the undo record of a write and of a truncation, and reverting it |
| `WaybackFile` | one file under Wayback: its log, its users, `vrevert`, faults; properties |
| `WaybackFormat` | the same with the log as bytes, as the daemon writes and `vutils.pl` reads them |
| `WaybackFileProofs` | lemmas on what is written down, done and reverted of one file; type correctness; no earlier state is lost; an undisturbed revert restores; the bytes of a log read as its records |
| `WaybackDir` | one directory: names, catalog, deleted names, `vrevert` on it |
| `WaybackDirProofs` | type correctness; an undisturbed revert of a directory restores what users see |
| `MCWaybackFile`, `MCWaybackDir` | constants for TLC |

### State of `CopyFS` and the code

| Variable | Code |
|---|---|
| `cache[f]` | the `metadata_t` of `f` in `cache_hash_table`, or `None`. `versions` is `md_versions`, newest first; `dfl` the pair `md_dfl_vid`, `md_dfl_svid`; `deleted` is `md_deleted`; `recent` says that `time(NULL) - md_timestamp < TIME_LIMIT`, with a `TIME_LIMIT` of one second |
| `meta[f]` | the file `metadata.<name>`: version lines, oldest first, and the killer line of a deleted file |
| `dfl[f]` | the file `dfl-meta.<name>` |
| `store[f]` | the backing files `<serial>.<name>` |
| `opened[f]` | 0, or the backing file that the `open` of a client met |
| `reply` | the last answer; only properties read it |
| `culled[f]`, `hasty[f]` | history: a partial purge has happened; a creation was answered by the time check alone |

A callback is one step. `copyfs-mount` starts the daemon with `-s`, so FUSE
hands it one request at a time. Requests of different clients still interleave
in every order, and the daemon may be restarted between any two of them:
`open` and each `write` of one client are separate steps that other callbacks
come between.

A helper that can fail returns, in the model, the set of its outcomes
(`Outcome`: metadata in memory, both metadata files, backing files, return
value). `Link` is `create_link_version`, with the order of its two writes and its
rollback; `NewVersion` and `NewSubversion` are the two callers of
`create_new_version_generic`; a callback picks one outcome and acts on the return
value as the code does. `callback_open` and `callback_truncate` stop only at -1,
so an outcome with -2 goes on, as in the code.

### State of `CopyFSCommit` and the code

The version data and its functions are those of `Versions`. `md`, `meta`, `dfl` are
as in `CopyFS`, for one file; `dfl` may also be `Blank`, a default file that `fopen`
has emptied and nothing was written to. `store` says of a backing file only whether
it is there and complete: `creat` makes it partial, the end of the copy whole.
`todo` is the sequence of system calls the running callback has yet to make:
`Create`, `OpenOrTruncate`, `Chmod`, `Unlink`, `Lock`, `PurgeAll`, `PurgeOldest` fill it in
the order of the code (`VersionCalls`, `LinkCalls`, `UnlinkFrom`), `SystemCall` makes
the next. A callback sets memory at its start: the daemon is single-threaded, so
nobody sees memory before its end, and a death in between loses it. `Killed` is
the death of the process at any time; if it comes while the lines of the metadata
file are in stdio's buffer, any number of them may be on disk (`Torn`). `Mount`
starts it again. What the kernel has taken is not lost: a power failure is not
modelled. `LookupCrashes` is the daemon's own crash on an empty default file.
`known` is history: the metadata after the last callback that ended, or read back
after a death; `cuts` counts callbacks cut off, and creations within a second of a
deletion, which leave a backing file without dying (`DeletedCanBeCreated`).

### State of `WaybackFile`, `WaybackFormat` and the code

| Variable | Code |
|---|---|
| `content` | the file under the redirect path, a sequence of bytes, or `None` |
| `log` | its version file: the records of `ver_updateversion`, without their times |
| `busy` | the request that has written its record and not yet made its change: the second half of `ver_write`, `ver_truncate`, `ver_unlink` |
| `pc`, `todo`, `next`, `stop` | `vrevert`: what it does next, `%fileinfo` as `readfile` returned it, `$i`, the last record to revert |
| `past`, `silent` | history: the file when each record was made; after which records a change was made without one |
| `stages`, `clean` | history: `past` at the start of `vrevert`; nobody has come between |

`parseargs` gives FUSE `-s`, so a request is not interleaved with another; but record
and change are two steps, since the daemon may die between them and the change may
fail on its own. `vrevert` is a process that goes through the mounted file system:
`OpenForRecord`, `WriteBack` and `CutBack` are its calls, and what they do to the
log is what any user's call does. `WaybackFormat` adds no state: `Header` is the
`memcpy` block of `ver_updateversion` and `ReadFile` the loop of `readfile`, with the
size of `time_t` and `size_t` as the constant `Word`.

### State of `WaybackDir` and the code

| Variable | Code |
|---|---|
| `dir` | the names of a directory and the inodes they stand for; the name `<n, k>` with `k > 0` is the k-th that `ver_deletedpath` makes of `n`, which `ver_getdir` hides |
| `catalog` | the directory's version file: the entries of `ver_updatedirectory` |
| `pending` | the change a callback has made and not yet entered |
| `pc`, `todo`, `index`, `number` | `vrevert` on the directory: what it does next (`contents` is the last step, line 179), `%dirinfo`, `$i`, the global `$number` |
| `inside`, `since` | whether `vrevert` runs in a directory with a catalog, so that `.` has a log; the first entry not before `$sincedate` |
| `past`, `silent`, `stages`, `target`, `clean`, `nested` | history, as in `WaybackFile`; `nested` says that a nested `vrevert` has set `$number` |

A file's record comes before its change, a directory's entry after it. The
nested `vrevert` of `revertdirentry` works inside another directory or file, which
this module does not hold; all that comes back is what it leaves in `$number`
(`SetsNumber`: any count up to `MaxNested`, or nothing when that has no log).

Every revert of a directory ends with a revert of the names `getdircontents` lists
(`vutils.pl:179`), looked up where the process runs. `.` is among them, since
`ver_getdir` hides only deleted names. `inside` says that the process runs in a directory
with a catalog, which `.` then is: `Again` reverts it once more from the first entry of
that time (`since`), and as this call also comes to `.`, it never ends; a nested revert
of a directory comes there by the same line (`Descend`). Elsewhere `Return` leads to
the end, and nothing that `WaybackDir` holds changes on the way. `ReadDirectory` says what
`readdirectory` finds only where `time_t` has four bytes (`Word = 4`): it takes an
entry's header for 12 bytes and a stat for six numbers of four.

### State of `TtyRunner` and the code

| Variable | Code |
|---|---|
| `pc`, `asleep` | where each thread is between its shared accesses, and the flag it sleeps on in `atomic::wait`. A store wakes nobody; `notify_all` does (`Awake`) |
| `flags` | `quit`, `tty_launched` |
| `slaveFd` | `pty_slave_fd`: null, set, or set to a descriptor that the killer has closed by hand |
| `holders`, `masters` | who has the slave and the master side open: the runner, the executor, and the command that runs the machine, which inherits both (`popen` closes nothing of `openpty`) and opens the slave by name |
| `output`, `printed`, `saved` | the lines in `tty_output`, those this run's guest has printed, those in the output file |
| `guest`, `typed` | external: the virtual machine, and the reboot command in its terminal |
| `main`, `runs` | `tty::run`: idle, called, joining its threads, or dead |
| `interrupted`, `seen` | history: SIGINT has come; a test has seen the guest's line |

A thread is cut at every access to what another thread or the handler can see:
the store and the notification of a flag are two steps, with the destructors of
the thread's locals in the second; the terminal is published before
`pty_slave_fd` is set, as in `run_pty`. SIGINT may come at any time while the
threads run, and may or may not make the reader's `read` fail. A test calls
`tty::run` in a `jthread` (`Fixture`) and goes on, so `Check` may come between
the call and the resets at its start. The reader collects all that is printed
in one step, since only whole lines are looked for; its loop ends when no one
holds the slave side and nothing is left.

### Abstractions, and what they leave out

- Names: one flat directory, so a file is a model value and a backing file is its
  serial. The root directory's own metadata is not part of the state.
- Contents: an opaque value. A `write` replaces it. `truncate` may leave any
  value of `Data`, and so may a copy that is cut short, by an error or by a
  `write(2)` of fewer bytes than it was given, which `create_copy_file` takes for
  a whole one (`create.c:401`). `Blank` is a default-version file that was opened
  and not written to; `write_default_file` may return success all the same, as
  `fclose` is not checked (`write.c:110`). No callback gets past reading one.
- Modes and owners are opaque; the group of a version is left out, it goes
  wherever the owner goes.
- Time: `Tick` ends the current second for every file at once. Only
  `TIME_LIMIT` is compared with it. A clock that goes backwards is not modelled.
- Calls that need a file are preceded by the kernel's lookup (`getattr`), which is
  why `Open`, `Truncate`, `Chmod`, `Chown` ask that the file is found.
  Permission checks of the kernel are not modelled; the check of the owner in
  `setxattr` is.
- The time check refers to memory: a file read back from disk has no timestamp
  (`parse.c`), so `Parsed` gives `recent = FALSE`.
- In `TtyRunner` the console output is two lines, and the executor's commands are
  the reboot that follows them. Exceptions (no `SUDO_UID`, no commands) end the
  process and are not modelled. `tty_output` is shared with no lock; that its
  characters may be torn is not modelled. Wake-ups that `atomic::wait` absorbs
  by checking again are left out: they change nothing.
- `ImplementsVersionedFiles` is checked without failing calls. With them the
  abstract specification is not implemented: a version that memory gave up can
  be in the metadata file and come back with a restart.
- In `CopyFSCommit` a write to a backing file is one call and does not show: data
  are complete or not. Calls do not fail there (`CopyFS` has that), so a copy is
  incomplete only because of a death. Lines are written whole; the parser drops what is left
  of a line without its end, as it does an empty file.
- Wayback: a write is done in full or fails, and is one request, also where the
  kernel would make several of a long one; a record is written in one step, so
  half a record on disk is not modelled; times are left out, and with them
  reverting to a date, which `vrevert` turns into a count of records at its start.
  libfuse renames a file that is unlinked while open, so `Unlink` does not come
  while `vrevert` has it open. A rename (`RenameAway`, `RenameOnto`) gives the name
  other contents with no record and leaves the version file behind; one that takes
  the file from under a `vrevert` between its `sysopen` and the end of the record is
  left out. Hard links to a file with a log are left out.
- `WaybackDir`: a directory that is fresh, with no catalog yet, is replaced by a
  rename, any other is not; what is in a directory is not held, so both may happen
  (`CanRename`, `RenameRefused`). chown and utime enter the stat that chmod does
  and are that action. The files that the last step of a directory revert comes to
  by their bare names are not held; the directories are, see above.

## Runs

| Run | Bounds | Shows |
|---|---|---|
| `safety` | 1 file, 2 contents, vids to 3, svids to 1, lists to 4 | the version list is ordered and complete; older versions keep their contents; what a reader sees survives restarts; every step of the daemon is a step of `VersionedFiles` or none |
| `faults` | 1 file, 2 contents, vids to 2, svids to 1, lists to 3, every kind of fault; states that differ only in `reply` and `hasty` are one (`StateOnly`) | order, contents and rollback under failing calls |
| `twofiles` | 2 files in one bucket, vids to 1, svids to 1, lists to 2 | a purge of one file, which empties the bucket, is invisible to the other |
| `commit` | 1 file, vids to 3, svids to 1, lists to 3, 2 callbacks cut off | what a mount finds after the daemon died anywhere |
| `file` | 3 byte values, writes of 1 and 2 bytes, files to 2 bytes, numbers that wrap at 2 (`Wrap`, 2^32 in the code), 2 changes by users, logs to 2 records, 1 fault | the records restore every state; `vrevert` ends and restores; the bytes of the log read back |
| `dir` | 2 names, 3 inodes, 2 deleted names of each, 3 changes, 1 fault | `vrevert` on a directory brings back names and attributes |
| `runs` | 2 calls of `tty::run`, one SIGINT in each | output, commands and termination of a run, whatever the order of its threads |
| `DeletedCanBeCreated`, `PurgeKeepsTheRest` | 1 file, 2 modes, vids to 3, svids to 2, lists to 4 | two of the disagreements listed below |
| `EmptyDefaultIsLatest` | as `commit` | another |
| `LogReadsBack` | as `file`, with a `Word` of 8 bytes | another |
| `NestedRevertRestores` | as `dir` | the last |

Every bound is a guard (`Fits`) on the version to be made: `MaxVid`, `MaxSvid`,
`MaxLen` in the models of CopyFS. Why they are enough: lists of three and four versions contain an
older vid, a newer vid, and two subversions of one vid on either side of a lock,
which is all that `rcs_find_version` and the constructors distinguish; serials
are reused only next to the head, so three are enough to see a reuse. One file
suffices where callbacks touch one file only; the only interaction of files is the
cache bucket, which `twofiles` is for. Deadlock is checked in every passing run
of `CopyFS` (a restart is always possible). All of the bounds disappear in the
theorems. `TtyRunner` has one bound, `MaxRuns`: everything that outlives a call
is reset at the start of the next, so two calls show all that one leaves to
another. Deadlock is not checked there because the process really stops, after
its last call or by a crash; that it stops nowhere else is `HaltEndsRun` and
`RunEnds`. A second SIGINT does what the first did.

In `commit` two deaths are enough to die in the callback that comes after a death,
with whatever that has left; deadlock is checked. In `file` and `dir` the bounds are on
what users do (`MaxChanges`, `MaxSize`) and on the log `vrevert` starts from (`MaxLog`),
never on `vrevert` itself, which may add two records for each it reverts. Two
records are one to be reverted on the result of another, and payloads of one and two
bytes in files of up to two end before, at and after the end of the file; `vrevert`
can run again on the log of its first run only as far as `MaxLog` allows. In `dir`
three changes make a name, move it and make another in its place, and a third inode
lets a deleted name be taken twice. One fault is enough because each leaves the
same state as a change nobody recorded. When users have used up their changes and
nothing is left to revert these systems stop, so deadlock is not checked there.

### Properties

- `VidsDescend`, `SerialsBelowVids`: what `rcs_find_version`'s search and
  `create_version_name`'s choice of a serial silently rely on, in memory and on disk.
  Locks make this less than obvious: a subversion may be made from an old version
  and still goes to the head.
- `SubversionsShareData`: two versions with one vid are on one backing file.
- `ListedFilesExist`, `NoOrphans`: the list and the backing files agree in both
  directions. The history variables name the two exceptions the code has (see
  `PurgeKeepsTheRest` and `DeletedCanBeCreated`).
- `OnlyPurgeForgets`: the old list is the tail of the new one, except for a purge of
  that very file; through restarts and dropped buckets this says that what is parsed
  is what was written.
- `OlderVersionsFrozen`: while nothing is locked, no callback writes to a backing file
  other than the newest version's.
- `OthersKeepView`: nothing but a callback on a file changes what its readers get.
- `FailedLinkUndone`: after an error from a call that links a version, memory is as
  it was. It speaks of files that were known before: a failed first `mknod` does
  leave the new file in memory (`create.c:229`), and a failed `unlink` leaves the file
  marked deleted (`interface.c:185`).
- `ImplementsVersionedFiles`: see `VersionedFiles`. The abstract daemon has no
  cache, no files of metadata and no restart; a restart and a dropped bucket map to
  no step.
- `HistoryOldOrNew` (`CopyFSCommit`): whatever callback is cut off, the next mount
  lists the versions from before or after it; the one exception is the window
  between the `fopen` that empties the metadata file and the end of its lines. It is
  stated of every state, since every state may be the one the daemon dies in.
- `ServedOldOrNew`: the same of the version that is served, though the lock is in
  another file, which is written second. `CreatedBesideDefault` is the exception
  the code has: a deleted file that is created again, cut off before the old lock is
  removed, is there after the mount with the contents of an old version.
- `ListedIsWhole`: no death leaves a listed version with an unfinished copy, purges
  aside, which unlink first.
- `OneStrayPerCut`: a death leaves at most one backing file that no version lists.
  Such a file makes a later creation fail (`create.c:284`), so their number
  matters; a copy that was cut short is not one more, because the next version
  uses the same serial.
- `RecordsRestore` (`WaybackFile`): reverting a record gives the file as it was when
  the record was made, whether its change was then made, failed or was cut off, and
  also for the records `vrevert` adds. Exceptions: a change without record, a
  change that begins past the end of the file, and a change that reaches the end of
  the file from an offset of 4 GiB or more (`CutsAtEnd`): `revertfileentry` seeks to
  the full offset but cuts at its lower word (`CutPlace`, `vutils.pl:323`).
- `RevertRestores`: an undisturbed `vrevert` ends with the file as it was before the
  first operation it was told to revert, if every record from there on is one that
  `RecordsRestore` speaks of. It is not implied by the property before:
  it is about the calls `vrevert` makes, which change and log the file in turn.
- `RevertEnds` (liveness): `vrevert` ends, whatever is written to the file and its
  log meanwhile and whatever fails.
- `LogReadsBack` (`WaybackFormat`): the records read from the version file are those
  that were written, with data that may look like headers.
- `RevertRestoresNames` (`WaybackDir`): as `RevertRestores`, of a `vrevert` that runs
  where no directory has a catalog, on the names a user sees,
  what they stand for and their modes; directories are compared by identity, so the
  right deleted name has to come back. `Undoable` lists the entries the code cannot
  revert: a hard link, a rename over something, the removal of a symbolic link or of
  a file that others may execute; the removal of a file that has another name, which
  comes back as a file of its own (`vutils.pl:281`); and a directory that an earlier
  `vrevert` took back from a deleted name which is in use again, since the outer
  rename then goes over it (`vutils.pl:289`). The last two were found by the proof:
  TLC shows the property without them violated with four and five changes and a log
  of five, more than the run `dir` makes.

- `NothingLost`, `TypedToGuest` (`TtyRunner`): the first says that the terminal is
  not taken down under a guest that still prints, though the killer closes it on
  the first `quit`; the second that the output of an earlier run never sets the
  executor off.
- `OldLinesOnlyEarly`: a test sees lines of an earlier run only between its call of
  `tty::run` and the reset at its start.
- `HaltEndsRun`, `RunEnds` (liveness): a run whose guest has halted returns, with or
  without SIGINT, though the handler and a told executor notify nobody; and a run
  that is not interrupted, with a guest that obeys, comes to its end by itself.
  Both count a crash (`CloseNull`) as an end.

In `WaybackFile` the daemon's second half is weakly fair: it runs until it dies. The
next call of `vrevert`, whichever it is, is strongly fair: other users' requests disable
it again and again, being served one at a time, but FUSE queues requests and takes each
in its turn. `Exit` is weakly fair; nothing is assumed of users, interrupts or faults.

No fairness is assumed and no liveness is stated of CopyFS: every callback ends by
itself, and a file system promises nothing about when its clients call it. In
`TtyRunner` each thread, `Start` and `Finish` are weakly fair: the operating
system runs every thread that is not asleep. `GuestBoots` and `GuestReboots` are
weakly fair: a virtual machine that does not fail makes progress by itself.
`GuestFails`, `Interrupt`, `Call` and `Check` are not fair: they may never happen.
`HaltEndsRun` does not need the guest's fairness, its premise being that the guest
has halted.

### Where the program and what is said of it differ

| Property | What is said | What happens |
|---|---|---|
| `DeletedCanBeCreated` | `lookup.c:39-45`, a deleted file is created "as if it never existed" | create, unlink, create within a second: success, but no version; later creations fail with `EEXIST`. The same early return answers a chmod with success and drops it |
| `PurgeKeepsTheRest` | `copyfs-fversion.1:32`, "Purge the oldest n versions" | a kept subversion loses its contents |
| `EmptyDefaultIsLatest` | `parse.c:167`, "The file is probably corrupt, just assume real latest version" | a default file that a death has left empty ends the daemon at each lookup: `sscanf` of `NULL` |
| `LogReadsBack` | `vutils.pl:543`, "Revert all operations after and including the nth most recent operation" | with eight-byte `time_t` and `size_t` the headers are read from the wrong places |
| `NestedRevertRestores` | the same line | a nested `vrevert` leaves its own count in `$number`, and the outer loop uses it |

Three more are in the models and have no run of their own; the properties that touch
them make no claim there:

| Where | What is said | What happens |
|---|---|---|
| `NextVersion`, `NewCell` | `TODO:13-17`, a bug to fix: "When you delete a file, and create it again, permission is taken from the old file instead of using umask" | so it is (`create.c:180`). `VersionedFiles` lets a file that is created again have any mode: `ImplementsVersionedFiles` says nothing of it |
| `CutPlace` | `vutils.pl:543`, "Revert all operations after and including the nth most recent operation" | a record whose offset is 4 GiB or more is written back at the right place, but the file is cut at the lower word of the offset plus the size (`vutils.pl:323`) |
| `Descend`, `Again` | `vutils.pl:557-558`, "if a directory is reverted, all files and directories contained within it will also be reverted" | run in the directory, or in another with a catalog, `vrevert` comes to `.` (`vutils.pl:179, 259-265`) and reverts without end, its own changes included |

Behaviour a reader may not expect, that no line of the sources contradicts: a write
after a lock goes to the old version that is locked; after a chmod under a lock two
versions may have one name; the slave descriptor of `tty_runner` is closed a second
time at the next call (`tty_runner.cpp:182`); `ver_open` never enters a creation
(`src/wayback.c:456`), which `ver_mknod` has already done.

## Proofs

`CopyFSProofs` proves, for every set of files, users, modes and contents, every
bound and every set of failing calls, from the named assumptions
`BoundsAssumption`, `NoneAssumption` and `DaemonAssumption`:

- `TypeCorrect`, `VidsAlwaysDescend`, `SerialsAlwaysBelowVids`,
  `SubversionsAlwaysShare` (`SubversionsShareData`): invariants.
- `CopyOnWrite`: the action property `OlderVersionsFrozen`.

The inductive invariant `IInv` is `Stored /\ Noted`. `Stored` says that every list
in the cache and, reversed, in a metadata file is a `GoodList`: well typed, with vids
that descend, each serial at most its vid, one serial for each vid; and that a list in
memory is not empty.
None of these parts is inductive alone. The serial of a subversion is that of the
locked version, which is at most the head's vid only because vids descend, and which is
the head's serial only if versions of one vid share it; a next
version's vid is the head's plus one, above all others only for the same reason;
the metadata file must be good because a restart or a dropped bucket makes it the list;
and the list must not be empty because every constructor reads its head.

The lemmas go from lists (reversal, prefix, suffix, a new head) over metadata
and its image on disk, cut short or not, to the constructors, the helpers'
outcomes, and one lemma per action. Copy on write then needs one fact more: what
`create_new_version` hands to `creat` is the serial above the head's vid, so it
is no listed version's.

`CopyFSFaultProofs` proves, from the same assumptions and for every set of failing
calls, `FailureIsUndone` (`FailedLinkUndone`): `Link` that returns an error returns the
old metadata, and the other early returns are either without effect or, for a
failed copy, reported as success on the version that is still there. And it proves
`ListedVersionsReadable` (`ListedFilesExist`): `Backed` adds to `IInv` that the lists in
memory and in the metadata file both have their backing files. The cached list alone
is not enough, since the two differ after a failed write and a restart takes the other
one. A callback keeps it because a backing file is made or copied before its version is
linked, and afterwards only a purge takes one away.

`CopyFSImplementsProofs` proves what rests on memory and disk agreeing, which
they do only while no call fails; so each theorem has the hypothesis `Faults = {}`, as
the runs `safety` and `twofiles` have, and further `RecordAssumption`, that `None` is no
value of an abstract file:

- `Implements` (`ImplementsVersionedFiles`), `OnlyPurgeEverForgets` (`OnlyPurgeForgets`),
  `OthersAlwaysKeepView` (`OthersKeepView`), `NeverOrphans` (`NoOrphans`).

`Synced` adds to `IInv` that a cached list is what its metadata file and default file
parse to: with it a dropped bucket, a restart and a first lookup change nothing. Every
step is then classified once (`Serves`, `Idles`) by what happens to a file's
known list and backing files: nothing (`Quiet`), made, a new head with or without a new
backing file, written to, locked, marked deleted, purged in whole or from the
tail. The refinement maps each kind to an action of `VersionedFiles` or to a
stutter, and the action properties are read off the same classification.
`AllOwned` (each backing file is one that the list names) is `NoOrphans` for the
list as the disk has it too.

`CopyFSCommitProofs` proves, from `BoundsAssumption`, `NoneAssumption` and
`CommitAssumption`, for any bounds and any number of deaths, `TypeCorrect` (`TypeOK`),
`ListedAreWhole` (`ListedIsWhole`), `HistoryWholeOrNot` (`HistoryOldOrNew`),
`ServedWholeOrNot` (`ServedOldOrNew`) and `OneStray` (`OneStrayPerCut`). Its `IInv` relates the
calls that are left to make, memory, disk and the last metadata known to be on disk:
`Planned` says that what is left is an end of one of the six lists of calls a callback
makes; `OnDisk` which of the two lists, the known one or the new one, the disk
has before each call; `Whole` that a listed file is complete unless its copy is
what is being made; `Gone` that a purge has unlinked what it takes from the list or is
still going to; and that there are no more loose backing files than cuts. None of
the properties is inductive: each speaks of the moment of death, and what the disk
has at that moment follows only from how far the callback has come.

`WaybackFileProofs` proves, for any bytes, payloads, bounds and faults, and for numbers
that wrap at any `Wrap`, from `ByteAssumption`, `WrapAssumption`, `FileAssumption` and
`RequestAssumption`:

- `TypeCorrect` (`TypeOK`) and `NoStateIsLost` (`RecordsRestore`). The first lemmas show
  of all contents that reverting the record of a write or a truncation, applied to
  the changed file or to the unchanged one, gives the file back if the cut is where
  the record ends (`WriteUndone`, `TruncateUndone`, `UndoneUnchanged`; `CutPlaceFacts`
  says when it is). `RecordsRestore` is not inductive: between
  the record and the change it speaks of a file that is still the old one. `Covered`
  says what it cannot, that the last record also undoes the change that is about to
  be made; `Typed` that records and their history go together and that `vrevert` is at
  a record it has read.
- `UndisturbedRevertRestores` (`RevertRestores`). `Ladder` says that the records `vrevert` has
  read take the file from each stage to the one before, which is `RecordsRestore` at the
  moment it starts; `Rung` says which stage the file is at, or halfway between, for
  each step of `vrevert` and each request the daemon is about to serve for it. Both hold
  for as long as nobody comes between (`clean`).
- `RecordsReadBack` (`LogReadsBack`), from `FormatAssumption` as well (bytes are numbers
  from 0 to 255) and with `Word = 4` and
  `MaxSize` below 2^32 as hypotheses: with words of eight bytes it is false (the table above),
  and of an offset the second word, which the model has as 0, would not be 0 from
  4 GiB on. `HeaderFacts`: the 17 bytes of a header unpack to its fields.
  `WrittenReadsBack`: the version file, records one after the other, reads as those
  records, whatever is in their data. Writer and reader are recursive functions, which
  come with no induction the provers could use; the lemmas (`WrittenFacts`, `PartsGrow`,
  `ReadFileFacts`) take the least place where they would be wrong, which exists
  because the order of the numbers is well founded (`Least`). `Sized`, that every
  record, request and file ends before `MaxSize`, makes the lemma apply to every
  reachable log.

`WaybackDirProofs` proves, for any names, inodes, faults and bounds, from
`DirAssumption` and `NoneAssumption` and with `Word = 4` as a hypothesis, `TypeCorrect`
(`TypeOK`) and `UndisturbedRevertRestores` (`RevertRestoresNames`). `IInv` is `Typed`, `Chained` and
`Walking`. `Chained` says that each entry tells how the directory before it became the
next one (`Follows`), over the change that is made and not yet entered too; `Walking`
that `vrevert` has come from the stages above `index` to a directory `Like` the one at
its place: the same names, attributes and directories, but perhaps other
inodes for the files it made anew, and more deleted names. Equality of directories
would not do, since a file that is removed and brought back has another inode and a
directory that is brought back leaves its deleted name to be used again. One
lemma for each kind of entry shows that undoing it goes from `Like` the stage
after it to `Like` the stage before it.

`TtyRunnerProofs` proves, for any number of calls, `CommandsReachThisGuest`
(`TypedToGuest`) and `AllOutputIsSaved` (`NothingLost`), from `MaxRunsAssumption`.
The first rests on `IInv`: while the threads run, what is collected was
printed by this guest (the resets precede the threads), and a thread that is about
to type has seen a line. The second adds `OInv`, for runs without SIGINT: `quit`,
an attached executor or a killer past its wait means that the guest is or was up
(`Orderly`); until then the runner holds the terminal, and from its start to its
end the command does (`Held`); hence the reader, which leaves its loop when
nobody does, leaves it after the guest, with everything read (`ReadToEnd`).
`NothingLost` is not inductive without these: it says nothing of a run under way.
`WellTyped` (`TypeOK`) and `FreshAfterStart` (`OldLinesOnlyEarly`) follow from the same
invariant.

Every safety and action property of a passing run is thus proved of its specification
for all values of the constants, within the hypotheses named. Only model-checked:
`HaltEndsRun`, `RunEnds` and `RevertEnds`, since liveness under fairness and `ENABLED`
are out of the prover's reach. The five properties that are expected to fail are
refuted by TLC.

## Plan

In this order.

1. What survives of `OnlyPurgeForgets`, `NoOrphans` and the refinement when calls fail: which
   versions a failed write may lose at the next restart, stated, checked and proved.
2. `CopyFSDirs`: directories as versioned files, translation from the longest cached
   prefix, mkdir, rmdir, symlink, and the children a cache keeps of a directory that
   was replaced.
3. `Fversion`: diff, grep and tag files as client processes beside a writer; the lock
   at the end is the lock at the start.
4. A version file cut at any byte (`WaybackFormat`), and the bytes of catalog entries.
5. `CopyFSStrings`: `helper.c` against reference definitions over bounded inputs
   (TLC only).
6. The mount and unmount steps of the benchmark harness with failing steps.

## Not modelled

`graphs.py`, provisioning, generated files, the kernels of NILFS and Btrfs: no state of
this repository's own. vstat, vextract and date parsing in `vutils.pl`: display and
parsing, and a revert into a copy. `arg.cpp`: parsing. `getxattr`, `listxattr`: text made
from a list. The linked lists of a bucket in `cache.c`: `md_previous` is the true
predecessor or, after a move to the front, null (`cache.c:97`), which only keeps an
entry from being moved; the set of entries, which is all `CopyFS` has, does not
depend on it. A data race on the characters of `tty_output`.
