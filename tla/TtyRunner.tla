----------------------------- MODULE TtyRunner ------------------------------
(***************************************************************************)
(* tty_runner: one call of tty::run starts four threads that share two     *)
(* atomic flags, a pointer to the slave side of a pseudo-terminal and the  *)
(* output collected from its master side.  The guest is a virtual machine  *)
(* whose console is the slave; SIGINT may come at any time; a test may     *)
(* read the output while the threads run, and call tty::run again.         *)
(*                                                                         *)
(* A thread in atomic::wait sleeps until it is notified: a store alone     *)
(* does not wake it.                                                       *)
(***************************************************************************)
EXTENDS Integers

CONSTANT MaxRuns    \* bound: calls of tty::run in one process

ASSUME MaxRunsAssumption == MaxRuns \in Nat

Threads == {"pty", "killer", "qemu", "executor"}
Flags == {"quit", "launched"}

(* What the guest prints: "Starting network: OK", and what it says when it *)
(* obeys the reboot command.                                               *)
Lines == {"network", "reboot"}

VARIABLES
  main,         \* run(): "idle", "start", "join", or "crashed"
  pc,           \* where each thread is
  asleep,       \* the flag a thread sleeps on in atomic::wait, or "no"
  flags,        \* quit and tty_launched
  slaveFd,      \* pty_slave_fd: "null", "open", or "closed" by the killer
  holders,      \* who has the slave side of this run's terminal open
  masters,      \* who has its master side open
  output,       \* tty_output
  guest,        \* "off", "boot", "open", "up", "halted"
  printed,      \* the lines this run's guest has printed
  typed,        \* the reboot command is in the terminal's input queue
  saved,        \* the lines in the output file of the last run that ended
  interrupted,  \* history: SIGINT has come in this run
  seen,         \* a test has seen the guest come up in this run
  runs          \* calls so far

shared == <<asleep, flags, slaveFd, holders, masters, output>>
machine == <<guest, printed, typed>>
control == <<main, saved, interrupted, seen, runs>>
vars == <<pc, shared, machine, control>>

TypeOK ==
  /\ main \in {"idle", "start", "join", "crashed"}
  /\ pc \in [Threads -> {"begin", "publish", "notify launched", "assign", "read",
                         "await quit", "close", "launch", "poll", "type",
                         "stop", "notify quit", "done"}]
  /\ asleep \in [Threads -> Flags \cup {"no"}]
  /\ flags \in [Flags -> BOOLEAN]
  /\ slaveFd \in {"null", "open", "closed"}
  /\ holders \subseteq {"runner", "qemu", "executor"}
  /\ masters \subseteq {"runner", "qemu"}
  /\ output \subseteq Lines /\ printed \subseteq Lines /\ saved \subseteq Lines
  /\ guest \in {"off", "boot", "open", "up", "halted"}
  /\ typed \in BOOLEAN /\ interrupted \in BOOLEAN /\ seen \in BOOLEAN
  /\ runs \in 0 .. MaxRuns

Init ==
  /\ main = "idle"
  /\ pc = [t \in Threads |-> "done"]
  /\ asleep = [t \in Threads |-> "no"]
  /\ flags = [x \in Flags |-> FALSE]
  /\ slaveFd = "null"
  /\ holders = {}
  /\ masters = {}
  /\ output = {}
  /\ guest = "off"
  /\ printed = {}
  /\ typed = FALSE
  /\ saved = {}
  /\ interrupted = FALSE
  /\ seen = FALSE
  /\ runs = 0

-----------------------------------------------------------------------------
(* Atomic flags.                                                           *)

At(t, where) == main = "join" /\ pc[t] = where /\ asleep[t] = "no"

Goto(t, where) == pc' = [pc EXCEPT ![t] = where]

(* x.wait(false): go on when x is set, otherwise sleep.                    *)
Wait(t, x, next) ==
  IF flags[x] THEN Goto(t, next) /\ UNCHANGED asleep
  ELSE asleep' = [asleep EXCEPT ![t] = x] /\ UNCHANGED pc

(* Mutant of Awake: nobody is woken.                                       *)
AwakeNobody(x) == asleep

(* x.notify_all().                                                         *)
Awake(x) == [t \in Threads |-> IF asleep[t] = x THEN "no" ELSE asleep[t]]

(* Every thread but pty begins or goes on by waiting for the terminal.     *)
AwaitTerminal(t, next) ==
  /\ At(t, "begin")
  /\ Wait(t, "launched", next)
  /\ UNCHANGED <<flags, slaveFd, holders, masters, output, machine, control>>

(* quit.store(true), and then quit.notify_all() with the destructors of    *)
(* the thread's locals: the pty thread's master side, the executor's slave.*)
StoreQuit(t) ==
  /\ At(t, "stop")
  /\ flags' = [flags EXCEPT !.quit = TRUE]
  /\ Goto(t, "notify quit")
  /\ UNCHANGED <<asleep, slaveFd, holders, masters, output, machine, control>>

NotifyQuit(t) ==
  /\ At(t, "notify quit")
  /\ asleep' = Awake("quit")
  /\ Goto(t, "done")
  /\ masters' = IF t = "pty" THEN masters \ {"runner"} ELSE masters
  /\ holders' = IF t = "executor" THEN holders \ {"executor"} ELSE holders
  /\ UNCHANGED <<flags, slaveFd, output, machine, control>>

-----------------------------------------------------------------------------
(* run_pty: the terminal is published before pty_slave_fd is assigned.     *)
OpenTerminal ==
  /\ At("pty", "begin")
  /\ masters' = {"runner"}
  /\ holders' = {"runner"}
  /\ Goto("pty", "publish")
  /\ UNCHANGED <<asleep, flags, slaveFd, output, machine, control>>

PublishTerminal ==
  /\ At("pty", "publish")
  /\ flags' = [flags EXCEPT !.launched = TRUE]
  /\ Goto("pty", "notify launched")
  /\ UNCHANGED <<asleep, slaveFd, holders, masters, output, machine, control>>

NotifyLaunched ==
  /\ At("pty", "notify launched")
  /\ asleep' = Awake("launched")
  /\ Goto("pty", "assign")
  /\ UNCHANGED <<flags, slaveFd, holders, masters, output, machine, control>>

AssignSlave ==
  /\ At("pty", "assign")
  /\ slaveFd' = "open"
  /\ Goto("pty", "read")
  /\ UNCHANGED <<asleep, flags, holders, masters, output, machine, control>>

(* Mutant of ReadOutput: the buffer is not terminated after the bytes read.*)
ReadUnterminated ==
  /\ At("pty", "read")
  /\ output # printed
  /\ output' = printed \cup {"stale bytes"}
  /\ UNCHANGED <<pc, asleep, flags, slaveFd, holders, masters, machine, control>>

(* read_output: what is printed is collected; read(2) fails when nobody    *)
(* has the slave side open any more and nothing is left to read.           *)
ReadOutput ==
  /\ At("pty", "read")
  /\ \/ /\ output # printed
        /\ output' = printed
        /\ UNCHANGED pc
     \/ /\ output = printed /\ holders = {}
        /\ Goto("pty", "stop")
        /\ UNCHANGED output
  /\ UNCHANGED <<asleep, flags, slaveFd, holders, masters, machine, control>>

-----------------------------------------------------------------------------
(* Mutant of AwaitQuit: the slave is closed at once.                       *)
AwaitNothing ==
  /\ At("killer", "await quit")
  /\ Goto("killer", "close")
  /\ UNCHANGED <<shared, machine, control>>

(* run_pty_killer.                                                         *)
AwaitQuit ==
  /\ At("killer", "await quit")
  /\ Wait("killer", "quit", "close")
  /\ UNCHANGED <<flags, slaveFd, holders, masters, output, machine, control>>

(* Mutant of CloseSlave: it is left to a destructor.                       *)
CloseNothing ==
  /\ At("killer", "close")
  /\ slaveFd # "null"
  /\ Goto("killer", "done")
  /\ UNCHANGED <<shared, machine, control>>

CloseSlave ==
  /\ At("killer", "close")
  /\ slaveFd # "null"
  /\ slaveFd' = "closed"
  /\ holders' = holders \ {"runner"}
  /\ Goto("killer", "done")
  /\ UNCHANGED <<asleep, flags, masters, output, machine, control>>

(* A null pty_slave_fd is dereferenced: the process dies, its files are    *)
(* closed.                                                                 *)
CloseNull ==
  /\ At("killer", "close")
  /\ slaveFd = "null"
  /\ main' = "crashed"
  /\ masters' = masters \ {"runner"}
  /\ holders' = holders \cap {"qemu"}
  /\ UNCHANGED <<pc, asleep, flags, slaveFd, output, machine, saved,
                 interrupted, seen, runs>>

-----------------------------------------------------------------------------
(* run_qemu: the command inherits what the runner has open, for popen      *)
(* closes nothing; it ends when the guest has halted.                      *)
LaunchGuest ==
  /\ At("qemu", "launch")
  /\ guest = "off"
  /\ guest' = "boot"
  /\ holders' = IF "runner" \in holders THEN holders \cup {"qemu"} ELSE holders
  /\ masters' = IF "runner" \in masters THEN masters \cup {"qemu"} ELSE masters
  /\ UNCHANGED <<pc, asleep, flags, slaveFd, output, printed, typed, control>>

GuestEnded ==
  /\ At("qemu", "launch")
  /\ guest = "halted"
  /\ Goto("qemu", "stop")
  /\ UNCHANGED <<shared, machine, control>>

-----------------------------------------------------------------------------
(* run_qemu_executor polls quit and the output, with pauses of a second.   *)
(* Told to quit, it returns without a notification.                        *)
GiveUp ==
  /\ At("executor", "poll")
  /\ flags.quit
  /\ Goto("executor", "done")
  /\ UNCHANGED <<shared, machine, control>>

(* TtyExecutor: open(2) of the slave fails once no master is open.         *)
Attach ==
  /\ At("executor", "poll")
  /\ ~ flags.quit /\ "network" \in output
  /\ holders' = IF masters # {} THEN holders \cup {"executor"} ELSE holders
  /\ Goto("executor", "type")
  /\ UNCHANGED <<asleep, flags, slaveFd, masters, output, machine, control>>

(* The commands, and "reboot" at the end.                                  *)
TypeCommands ==
  /\ At("executor", "type")
  /\ typed' = ("executor" \in holders /\ masters # {})
  /\ Goto("executor", "stop")
  /\ UNCHANGED <<shared, guest, printed, control>>

-----------------------------------------------------------------------------
(* The guest and what starts it, external: it opens the terminal, comes    *)
(* up, and reboots when told so, which ends the virtual machine.  It may   *)
(* fail at any time.                                                       *)
GuestBoots ==
  /\ \/ /\ guest = "boot"
        /\ masters # {}
        /\ guest' = "open"
        /\ holders' = holders \cup {"qemu"}
        /\ UNCHANGED printed
     \/ /\ guest = "open"
        /\ guest' = "up"
        /\ printed' = printed \cup {"network"}
        /\ UNCHANGED holders
  /\ UNCHANGED <<pc, asleep, flags, slaveFd, masters, output, typed, control>>

GuestReboots ==
  /\ guest = "up" /\ typed
  /\ guest' = "halted"
  /\ printed' = printed \cup {"reboot"}
  /\ holders' = holders \ {"qemu"}
  /\ masters' = masters \ {"qemu"}
  /\ UNCHANGED <<pc, asleep, flags, slaveFd, output, typed, control>>

GuestFails ==
  /\ guest \in {"boot", "open", "up"}
  /\ guest' = "halted"
  /\ holders' = holders \ {"qemu"}
  /\ masters' = masters \ {"qemu"}
  /\ UNCHANGED <<pc, asleep, flags, slaveFd, output, printed, typed, control>>

-----------------------------------------------------------------------------
(* tty::run, called by main once, by the tests once per suite.  The test   *)
(* goes on at once, its jthread gets to the resets later.                  *)
Call ==
  /\ main = "idle" /\ runs < MaxRuns
  /\ main' = "start"
  /\ runs' = runs + 1
  /\ guest' = "off" /\ printed' = {} /\ typed' = FALSE
  /\ interrupted' = FALSE /\ seen' = FALSE
  /\ UNCHANGED <<pc, shared, saved>>

(* Mutant of Start: the output of the last run is kept.                    *)
StartKeepsOutput ==
  /\ main = "start"
  /\ main' = "join"
  /\ slaveFd' = "null"
  /\ flags' = [x \in Flags |-> FALSE]
  /\ pc' = [t \in Threads |-> "begin"]
  /\ UNCHANGED <<asleep, holders, masters, output, machine, saved, interrupted,
                 seen, runs>>

(* The resets, SIGINT's handler, the threads.                              *)
Start ==
  /\ main = "start"
  /\ main' = "join"
  /\ output' = {}
  /\ slaveFd' = "null"
  /\ flags' = [x \in Flags |-> FALSE]
  /\ pc' = [t \in Threads |-> "begin"]
  /\ UNCHANGED <<asleep, holders, masters, machine, saved, interrupted, seen, runs>>

(* All four threads are joined and the output is written to its file.      *)
Finish ==
  /\ main = "join"
  /\ \A t \in Threads : pc[t] = "done"
  /\ main' = "idle"
  /\ saved' = output
  /\ UNCHANGED <<pc, shared, machine, interrupted, seen, runs>>

(* SIGINT stores quit and notifies nobody.  A read(2) of the thread it is  *)
(* delivered to fails with EINTR: the handler is set without SA_RESTART.   *)
Interrupt ==
  /\ main = "join" /\ ~ interrupted
  /\ interrupted' = TRUE
  /\ flags' = [flags EXCEPT !.quit = TRUE]
  /\ UNCHANGED pc \/ (pc["pty"] = "read" /\ Goto("pty", "stop"))
  /\ UNCHANGED <<asleep, slaveFd, holders, masters, output, machine,
                 main, saved, seen, runs>>

(* output_contains, called by a test after tty::run was started.           *)
Check ==
  /\ main \in {"start", "join"}
  /\ "network" \in output /\ ~ seen
  /\ seen' = TRUE
  /\ UNCHANGED <<pc, shared, machine, main, saved, interrupted, runs>>

-----------------------------------------------------------------------------
Pty == OpenTerminal \/ PublishTerminal \/ NotifyLaunched \/ AssignSlave
         \/ ReadOutput \/ StoreQuit("pty") \/ NotifyQuit("pty")

Killer == AwaitTerminal("killer", "await quit") \/ AwaitQuit
            \/ CloseSlave \/ CloseNull

Qemu == AwaitTerminal("qemu", "launch") \/ LaunchGuest \/ GuestEnded
          \/ StoreQuit("qemu") \/ NotifyQuit("qemu")

Executor == AwaitTerminal("executor", "poll") \/ GiveUp \/ Attach \/ TypeCommands
              \/ StoreQuit("executor") \/ NotifyQuit("executor")

Next ==
  \/ Pty \/ Killer \/ Qemu \/ Executor
  \/ GuestBoots \/ GuestReboots \/ GuestFails
  \/ Call \/ Start \/ Finish \/ Interrupt \/ Check

(* The system schedules every thread.                                      *)
Scheduling ==
  /\ WF_vars(Pty) /\ WF_vars(Killer) /\ WF_vars(Qemu) /\ WF_vars(Executor)
  /\ WF_vars(Start) /\ WF_vars(Finish)

(* A guest that does not fail comes up and obeys.                          *)
GuestRuns == WF_vars(GuestBoots) /\ WF_vars(GuestReboots)

Spec == Init /\ [][Next]_vars /\ Scheduling /\ GuestRuns

-----------------------------------------------------------------------------
(* Properties.                                                             *)

(* Once the guest has halted, however it came to that and whether SIGINT   *)
(* came or not, tty::run returns: no thread is left asleep on a flag or    *)
(* reading a terminal somebody still holds.                                *)
HaltEndsRun == (main = "join" /\ guest = "halted") ~> (main \in {"idle", "crashed"})

(* A run that is not interrupted, with a guest that does as it is told,    *)
(* ends by itself: the executor reboots the guest, the end of the command  *)
(* and the killer close the terminal, and the reader stops.                *)
RunEnds == (main = "join") ~> (main \in {"idle", "crashed"} \/ interrupted)

(* The file a run leaves holds all its guest printed, up to the last line: *)
(* the terminal is not taken down before the guest has let go of it.       *)
NothingLost == main = "idle" /\ ~ interrupted => saved = printed

(* The reboot command is typed only after the guest of this run has come   *)
(* up: the lines of an earlier run's guest never set the executor off.     *)
TypedToGuest == typed => "network" \in printed

(* A test that finds the line of a guest that has come up once the threads *)
(* of a run were started has seen this run's guest (test.cpp:192, boot_ok): *)
(* only in the time before, when run() has been called and has not yet     *)
(* cleared tty_output, can an earlier run's line answer for it.            *)
OldLinesOnlyEarly ==
  [][~ seen /\ seen' => main = "start" \/ "network" \in printed]_vars
=============================================================================
