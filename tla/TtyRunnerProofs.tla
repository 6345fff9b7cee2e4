-------------------------- MODULE TtyRunnerProofs ---------------------------
(***************************************************************************)
(* Proofs about TtyRunner, for any number of calls of tty::run: the reboot *)
(* command goes to the guest of this run, and no output is lost.           *)
(***************************************************************************)
EXTENDS TtyRunner, TLAPS

(* While the threads run, what was collected was printed by this guest; a  *)
(* command typed, or about to be, was called for by the guest's line.      *)
Collected == main = "join" => output \subseteq printed

Attached == main = "join" /\ pc["executor"] = "type" => "network" \in printed

IInv == TypeOK /\ Collected /\ Attached /\ TypedToGuest

(* Nothing is collected, attached or typed at first.                       *)
LEMMA InitIInv == Init => IInv
<1> SUFFICES ASSUME Init PROVE IInv
  OBVIOUS
<1>1. TypeOK
  <2>1. 0 \in 0 .. MaxRuns
    BY MaxRunsAssumption
  <2>2. /\ pc \in [Threads -> {"done"}]
        /\ asleep \in [Threads -> {"no"}]
        /\ flags \in [Flags -> {FALSE}]
    BY DEF Init
  <2> QED
    BY <2>1, <2>2 DEF Init, TypeOK
<1>2. Collected /\ Attached /\ TypedToGuest
  BY DEF Init, Collected, Attached, TypedToGuest
<1> QED
  BY <1>1, <1>2 DEF IInv

(* One more call is within the bound.                                      *)
LEMMA OneMoreRun ==
  ASSUME NEW n \in 0 .. MaxRuns, n < MaxRuns PROVE n + 1 \in 0 .. MaxRuns
  BY MaxRunsAssumption

(* The flags' operators keep the type of what they change.                 *)
LEMMA WaitTypeOK ==
  ASSUME TypeOK, NEW t \in Threads, NEW x \in Flags,
         NEW next \in {"await quit", "close", "launch", "poll"},
         Wait(t, x, next)
  PROVE  /\ pc' \in [Threads -> {"begin", "publish", "notify launched", "assign", "read",
                         "await quit", "close", "launch", "poll", "type",
                         "stop", "notify quit", "done"}]
         /\ asleep' \in [Threads -> Flags \cup {"no"}]
         /\ pc'["executor"] = "type" => pc["executor"] = "type"
<1>1. CASE flags[x]
  <2>1. pc' = [pc EXCEPT ![t] = next] /\ UNCHANGED asleep
    BY <1>1 DEF Wait, Goto
  <2>2. pc'["executor"] = "type" => pc["executor"] = "type"
    BY <2>1 DEF TypeOK, Threads
  <2> QED
    BY <2>1, <2>2 DEF TypeOK
<1>2. CASE ~ flags[x]
  BY <1>2 DEF TypeOK, Wait
<1> QED
  BY <1>1, <1>2

(* The pty thread: only ReadOutput touches the output, and it takes what   *)
(* this guest printed.                                                     *)
LEMMA PtyIInv == IInv /\ Pty => IInv'
<1> SUFFICES ASSUME IInv, Pty PROVE IInv'
  OBVIOUS
<1> USE DEF IInv, TypeOK, Collected, Attached, TypedToGuest, Threads, Flags,
            At, Goto, machine, control
<1>1. CASE OpenTerminal
  BY <1>1 DEF OpenTerminal
<1>2. CASE PublishTerminal
  BY <1>2 DEF PublishTerminal
<1>3. CASE NotifyLaunched
  BY <1>3 DEF NotifyLaunched, Awake
<1>4. CASE AssignSlave
  BY <1>4 DEF AssignSlave
<1>5. CASE ReadOutput
  <2>1. CASE output' = printed /\ UNCHANGED pc
    BY <1>5, <2>1 DEF ReadOutput
  <2>2. CASE Goto("pty", "stop") /\ UNCHANGED output
    BY <1>5, <2>2 DEF ReadOutput
  <2> QED
    BY <1>5, <2>1, <2>2, Zenon DEF ReadOutput
<1>6. CASE StoreQuit("pty")
  BY <1>6 DEF StoreQuit
<1>7. CASE NotifyQuit("pty")
  BY <1>7 DEF NotifyQuit, Awake
<1> QED
  BY <1>1, <1>2, <1>3, <1>4, <1>5, <1>6, <1>7 DEF Pty

(* The killer touches neither what is collected nor what is typed.         *)
LEMMA KillerIInv == IInv /\ Killer => IInv'
<1> SUFFICES ASSUME IInv, Killer PROVE IInv'
  OBVIOUS
<1> USE DEF IInv, TypeOK, Collected, Attached, TypedToGuest, At, machine, control
<1>1. CASE AwaitTerminal("killer", "await quit")
  BY <1>1, WaitTypeOK DEF AwaitTerminal, Threads, Flags
<1>2. CASE AwaitQuit
  BY <1>2, WaitTypeOK DEF AwaitQuit, Threads, Flags
<1>3. CASE CloseSlave
  BY <1>3 DEF CloseSlave, Goto, Threads
<1>4. CASE CloseNull
  BY <1>4 DEF CloseNull
<1> QED
  BY <1>1, <1>2, <1>3, <1>4 DEF Killer

(* Nor does the thread that runs the machine.                              *)
LEMMA QemuIInv == IInv /\ Qemu => IInv'
<1> SUFFICES ASSUME IInv, Qemu PROVE IInv'
  OBVIOUS
<1> USE DEF IInv, TypeOK, Collected, Attached, TypedToGuest, At, Goto,
            shared, machine, control
<1>1. CASE AwaitTerminal("qemu", "launch")
  BY <1>1, WaitTypeOK DEF AwaitTerminal, Threads, Flags
<1>2. CASE LaunchGuest
  BY <1>2 DEF LaunchGuest
<1>3. CASE GuestEnded
  BY <1>3 DEF GuestEnded, Threads
<1>4. CASE StoreQuit("qemu")
  BY <1>4 DEF StoreQuit, Threads, Flags
<1>5. CASE NotifyQuit("qemu")
  BY <1>5 DEF NotifyQuit, Awake, Threads, Flags
<1> QED
  BY <1>1, <1>2, <1>3, <1>4, <1>5 DEF Qemu

(* The executor attaches because of a line that was collected, hence       *)
(* printed by this guest, and types after it has attached.                 *)
LEMMA ExecutorIInv == IInv /\ Executor => IInv'
<1> SUFFICES ASSUME IInv, Executor PROVE IInv'
  OBVIOUS
<1> USE DEF IInv, TypeOK, Collected, Attached, TypedToGuest, At, Goto,
            shared, machine, control
<1>1. CASE AwaitTerminal("executor", "poll")
  BY <1>1, WaitTypeOK DEF AwaitTerminal, Threads, Flags
<1>2. CASE GiveUp
  BY <1>2 DEF GiveUp, Threads
<1>3. CASE Attach
  <2>1. "network" \in printed
    BY <1>3 DEF Attach
  <2> QED
    BY <1>3, <2>1 DEF Attach, Threads
<1>4. CASE TypeCommands
  <2>1. "network" \in printed
    BY <1>4 DEF TypeCommands
  <2>2. typed' \in BOOLEAN
    BY <1>4 DEF TypeCommands
  <2> QED
    BY <1>4, <2>1, <2>2 DEF TypeCommands, Threads
<1>5. CASE StoreQuit("executor")
  BY <1>5 DEF StoreQuit, Threads, Flags
<1>6. CASE NotifyQuit("executor")
  BY <1>6 DEF NotifyQuit, Awake, Threads, Flags
<1> QED
  BY <1>1, <1>2, <1>3, <1>4, <1>5, <1>6 DEF Executor

(* A guest only adds to what it has printed.                               *)
LEMMA GuestIInv == IInv /\ (GuestBoots \/ GuestReboots \/ GuestFails) => IInv'
<1> SUFFICES ASSUME IInv, GuestBoots \/ GuestReboots \/ GuestFails PROVE IInv'
  OBVIOUS
<1> USE DEF IInv, TypeOK, Collected, Attached, TypedToGuest, Lines, control
<1>1. CASE GuestBoots
  BY <1>1 DEF GuestBoots
<1>2. CASE GuestReboots
  BY <1>2 DEF GuestReboots
<1>3. CASE GuestFails
  BY <1>3 DEF GuestFails
<1> QED
  BY <1>1, <1>2, <1>3

(* A call forgets the last guest; the resets of its thread forget what was *)
(* collected before any other thread of this run looks at it.              *)
LEMMA RunIInv == IInv /\ (Call \/ Start \/ Finish \/ Interrupt \/ Check) => IInv'
<1> SUFFICES ASSUME IInv, Call \/ Start \/ Finish \/ Interrupt \/ Check PROVE IInv'
  OBVIOUS
<1> USE DEF IInv, TypeOK, Collected, Attached, TypedToGuest, shared, machine
<1>1. CASE Call
  <2>1. runs' \in 0 .. MaxRuns
    <3>1. runs \in 0 .. MaxRuns /\ runs < MaxRuns /\ runs' = runs + 1
      BY <1>1, Zenon DEF Call
    <3> QED
      BY <3>1, OneMoreRun, Zenon
  <2>2. /\ main' = "start" /\ guest' = "off" /\ printed' = {} /\ typed' = FALSE
        /\ interrupted' = FALSE /\ seen' = FALSE
        /\ UNCHANGED <<pc, asleep, flags, slaveFd, holders, masters, output, saved>>
    BY <1>1 DEF Call
  <2> QED
    BY <2>1, <2>2
<1>2. CASE Start
  <2>1. /\ pc' \in [Threads -> {"begin"}]
        /\ flags' \in [Flags -> BOOLEAN]
        /\ pc'["executor"] = "begin"
    BY <1>2 DEF Start, Threads
  <2> QED
    BY <1>2, <2>1 DEF Start
<1>3. CASE Finish
  BY <1>3 DEF Finish
<1>4. CASE Interrupt
  <2>1. flags' \in [Flags -> BOOLEAN]
    BY <1>4 DEF Interrupt, Flags
  <2>2. CASE UNCHANGED pc
    BY <1>4, <2>1, <2>2 DEF Interrupt
  <2>3. CASE pc["pty"] = "read" /\ Goto("pty", "stop")
    BY <1>4, <2>1, <2>3 DEF Interrupt, Goto, Threads
  <2> QED
    BY <1>4, <2>2, <2>3 DEF Interrupt
<1>5. CASE Check
  BY <1>5 DEF Check
<1> QED
  BY <1>1, <1>2, <1>3, <1>4, <1>5

(* IInv is inductive.                                                      *)
LEMMA NextIInv == IInv /\ [Next]_vars => IInv'
<1> SUFFICES ASSUME IInv, [Next]_vars PROVE IInv'
  OBVIOUS
<1>1. CASE UNCHANGED vars
  <2>1. /\ UNCHANGED <<pc, asleep, flags, slaveFd, holders, masters, output>>
        /\ UNCHANGED <<guest, printed, typed, main, saved, interrupted, seen, runs>>
    BY <1>1 DEF vars, shared, machine, control
  <2>2. TypeOK'
    BY <2>1 DEF IInv, TypeOK
  <2> QED
    BY <2>1, <2>2 DEF IInv, Collected, Attached, TypedToGuest
<1> QED
  BY <1>1, PtyIInv, KillerIInv, QemuIInv, ExecutorIInv, GuestIInv, RunIInv DEF Next

(* The commands go to the guest of this run, after it has come up, however *)
(* the threads interleave and whatever earlier runs left behind.           *)
THEOREM CommandsReachThisGuest == Spec => []TypedToGuest
<1>1. IInv => TypedToGuest
  BY DEF IInv
<1> QED
  BY <1>1, InitIInv, NextIInv, PTL DEF Spec

(* Every reachable state is well typed.                                    *)
THEOREM WellTyped == Spec => []TypeOK
<1>1. IInv => TypeOK
  BY DEF IInv
<1> QED
  BY <1>1, InitIInv, NextIInv, PTL DEF Spec

(* A test takes an old line for a new one only before the resets of the    *)
(* run: what is collected while the threads run, this guest has printed.   *)
THEOREM FreshAfterStart == Spec => OldLinesOnlyEarly
<1>1. IInv /\ [Next]_vars => [~ seen /\ seen' => main = "start" \/ "network" \in printed]_vars
  <2> SUFFICES ASSUME IInv, [Next]_vars, ~ seen, seen'
               PROVE  main = "start" \/ "network" \in printed
    OBVIOUS
  <2>1. Check
    BY DEF Next, Pty, Killer, Qemu, Executor, vars, control, shared, machine,
      AwaitTerminal, StoreQuit, NotifyQuit, OpenTerminal, PublishTerminal,
      NotifyLaunched, AssignSlave, ReadOutput, AwaitQuit, CloseSlave, CloseNull,
      LaunchGuest, GuestEnded, GiveUp, Attach, TypeCommands, GuestBoots,
      GuestReboots, GuestFails, Call, Start, Finish, Interrupt
  <2>2. /\ main \in {"start", "join"}
        /\ "network" \in output
    BY <2>1 DEF Check
  <2> QED
    BY <2>2 DEF IInv, Collected
<1> QED
  BY <1>1, InitIInv, NextIInv, PTL DEF Spec, OldLinesOnlyEarly

-----------------------------------------------------------------------------
(* Nothing is lost.                                                        *)

(* Without SIGINT: quit means that the guest is or was up; before that the *)
(* runner holds the terminal, and the command from its start to its end;   *)
(* so the reader stops only after the guest, having read all.              *)
Past(t, places) == pc[t] \in places

Orderly ==
  main = "join" /\ ~ interrupted =>
    /\ flags["launched"] \/ guest # "off" \/ ~ Past("qemu", {"begin"})
         => ~ Past("pty", {"begin"})
    /\ (\/ flags["quit"]
        \/ Past("killer", {"close", "done"})
        \/ Past("executor", {"type", "stop", "notify quit", "done"})
        \/ printed # {})
         => guest \in {"up", "halted"}
    /\ Past("qemu", {"stop", "notify quit", "done"}) => guest = "halted"

Held ==
  main = "join" /\ ~ interrupted =>
    /\ guest = "off" /\ ~ Past("pty", {"begin"}) => "runner" \in holders
    /\ guest \in {"boot", "open", "up"} => "qemu" \in holders

ReadToEnd ==
  main = "join" /\ ~ interrupted =>
    (Past("pty", {"stop", "notify quit", "done"}) => guest = "halted" /\ output = printed)

Quiet ==
  /\ main = "start" => guest = "off" /\ printed = {}
  /\ main = "idle" /\ ~ interrupted => guest \in {"off", "halted"}

OInv == Orderly /\ Held /\ ReadToEnd /\ Quiet /\ NothingLost

(* A thread that waits moves no other, and goes on only when its flag is   *)
(* set.                                                                    *)
LEMMA WaitMoves ==
  ASSUME TypeOK, NEW t \in Threads, NEW x \in Flags, NEW next, Wait(t, x, next)
  PROVE  /\ pc'[t] = next => flags[x] \/ pc[t] = next
         /\ pc'[t] # next => pc'[t] = pc[t]
         /\ \A u \in Threads \ {t} : pc'[u] = pc[u]
<1>1. (pc' = [pc EXCEPT ![t] = next] /\ flags[x]) \/ pc' = pc
  BY DEF Wait, Goto
<1>2. CASE pc' = pc
  BY <1>2
<1>3. CASE pc' = [pc EXCEPT ![t] = next] /\ flags[x]
  BY <1>3 DEF TypeOK
<1> QED
  BY <1>1, <1>2, <1>3

(* Before the first call nothing was printed and nothing saved.            *)
LEMMA InitOInv == Init => OInv
  BY DEF Init, OInv, Orderly, Held, ReadToEnd, Quiet, NothingLost

(* The pty thread takes the terminal before anybody else does anything,    *)
(* and leaves its loop when nobody holds it: then the guest has halted.    *)
LEMMA PtyOInv == IInv /\ OInv /\ Pty => OInv'
<1> SUFFICES ASSUME IInv, OInv, Pty PROVE OInv'
  OBVIOUS
<1> USE DEF IInv, TypeOK, OInv, Orderly, Held, ReadToEnd, Quiet, NothingLost, Past,
            At, Goto, machine, control
<1>1. CASE OpenTerminal
  BY <1>1 DEF OpenTerminal, Threads
<1>2. CASE PublishTerminal
  BY <1>2 DEF PublishTerminal, Threads, Flags
<1>3. CASE NotifyLaunched
  BY <1>3 DEF NotifyLaunched, Threads
<1>4. CASE AssignSlave
  BY <1>4 DEF AssignSlave, Threads
<1>5. CASE ReadOutput
  BY <1>5 DEF ReadOutput, Threads
<1>6. CASE StoreQuit("pty")
  BY <1>6 DEF StoreQuit, Threads, Flags
<1>7. CASE NotifyQuit("pty")
  BY <1>7 DEF NotifyQuit, Threads
<1> QED
  BY <1>1, <1>2, <1>3, <1>4, <1>5, <1>6, <1>7 DEF Pty

(* The killer lets go of the terminal only after quit.                     *)
LEMMA KillerOInv == IInv /\ OInv /\ Killer => OInv'
<1> SUFFICES ASSUME IInv, OInv, Killer PROVE OInv'
  OBVIOUS
<1> USE DEF IInv, TypeOK, OInv, Orderly, Held, ReadToEnd, Quiet, NothingLost, Past,
            At, Goto, machine, control
<1>1. CASE AwaitTerminal("killer", "await quit")
  <2>1. /\ pc["killer"] = "begin" /\ main = "join" /\ UNCHANGED <<flags, holders, output>>
        /\ UNCHANGED <<main, guest, printed, saved, interrupted>>
    BY <1>1 DEF AwaitTerminal
  <2>2. /\ pc'["killer"] \in {"begin", "await quit"}
        /\ pc'["killer"] = "await quit" => flags["launched"]
        /\ \A u \in Threads \ {"killer"} : pc'[u] = pc[u]
    BY <1>1, <2>1, WaitMoves DEF AwaitTerminal, Threads, Flags
  <2> QED
    BY <2>1, <2>2 DEF Threads
<1>2. CASE AwaitQuit
  <2>1. /\ pc["killer"] = "await quit" /\ main = "join" /\ UNCHANGED <<flags, holders, output>>
        /\ UNCHANGED <<main, guest, printed, saved, interrupted>>
    BY <1>2 DEF AwaitQuit
  <2>2. /\ pc'["killer"] \in {"await quit", "close"}
        /\ pc'["killer"] = "close" => flags["quit"]
        /\ \A u \in Threads \ {"killer"} : pc'[u] = pc[u]
    BY <1>2, <2>1, WaitMoves DEF AwaitQuit, Threads, Flags
  <2> QED
    BY <2>1, <2>2 DEF Threads
<1>3. CASE CloseSlave
  BY <1>3 DEF CloseSlave, Threads
<1>4. CASE CloseNull
  BY <1>4 DEF CloseNull
<1> QED
  BY <1>1, <1>2, <1>3, <1>4 DEF Killer

(* The command inherits the terminal, and quit follows its end.            *)
LEMMA QemuOInv == IInv /\ OInv /\ Qemu => OInv'
<1> SUFFICES ASSUME IInv, OInv, Qemu PROVE OInv'
  OBVIOUS
<1> USE DEF IInv, TypeOK, OInv, Orderly, Held, ReadToEnd, Quiet, NothingLost, Past,
            At, Goto, shared, machine, control
<1>1. CASE AwaitTerminal("qemu", "launch")
  <2>1. /\ pc["qemu"] = "begin" /\ main = "join" /\ UNCHANGED <<flags, holders, output>>
        /\ UNCHANGED <<main, guest, printed, saved, interrupted>>
    BY <1>1 DEF AwaitTerminal
  <2>2. /\ pc'["qemu"] \in {"begin", "launch"}
        /\ pc'["qemu"] = "launch" => flags["launched"]
        /\ \A u \in Threads \ {"qemu"} : pc'[u] = pc[u]
    BY <1>1, <2>1, WaitMoves DEF AwaitTerminal, Threads, Flags
  <2> QED
    BY <2>1, <2>2 DEF Threads
<1>2. CASE LaunchGuest
  BY <1>2 DEF LaunchGuest, Threads
<1>3. CASE GuestEnded
  BY <1>3 DEF GuestEnded, Threads
<1>4. CASE StoreQuit("qemu")
  BY <1>4 DEF StoreQuit, Threads, Flags
<1>5. CASE NotifyQuit("qemu")
  BY <1>5 DEF NotifyQuit, Threads
<1> QED
  BY <1>1, <1>2, <1>3, <1>4, <1>5 DEF Qemu

(* The executor goes on, and sets quit, when the guest is up.              *)
LEMMA ExecutorOInv == IInv /\ OInv /\ Executor => OInv'
<1> SUFFICES ASSUME IInv, OInv, Executor PROVE OInv'
  OBVIOUS
<1> USE DEF IInv, TypeOK, OInv, Orderly, Held, ReadToEnd, Quiet, NothingLost, Past,
            At, Goto, shared, machine, control
<1>1. CASE AwaitTerminal("executor", "poll")
  <2>1. /\ pc["executor"] = "begin" /\ main = "join" /\ UNCHANGED <<flags, holders, output>>
        /\ UNCHANGED <<main, guest, printed, saved, interrupted>>
    BY <1>1 DEF AwaitTerminal
  <2>2. /\ pc'["executor"] \in {"begin", "poll"}
        /\ pc'["executor"] = "poll" => flags["launched"]
        /\ \A u \in Threads \ {"executor"} : pc'[u] = pc[u]
    BY <1>1, <2>1, WaitMoves DEF AwaitTerminal, Threads, Flags
  <2> QED
    BY <2>1, <2>2 DEF Threads
<1>2. CASE GiveUp
  BY <1>2 DEF GiveUp, Threads
<1>3. CASE Attach
  <2>1. "network" \in printed
    BY <1>3 DEF Attach, Collected
  <2> QED
    BY <1>3, <2>1 DEF Attach, Threads
<1>4. CASE TypeCommands
  BY <1>4 DEF TypeCommands, Threads
<1>5. CASE StoreQuit("executor")
  BY <1>5 DEF StoreQuit, Threads, Flags
<1>6. CASE NotifyQuit("executor")
  BY <1>6 DEF NotifyQuit, Threads
<1> QED
  BY <1>1, <1>2, <1>3, <1>4, <1>5, <1>6 DEF Executor

(* A guest that runs holds the terminal, and one that halts prints no more.*)
LEMMA GuestOInv == OInv /\ (GuestBoots \/ GuestReboots \/ GuestFails) => OInv'
<1> SUFFICES ASSUME OInv, GuestBoots \/ GuestReboots \/ GuestFails PROVE OInv'
  OBVIOUS
<1> USE DEF OInv, Orderly, Held, ReadToEnd, Quiet, NothingLost, Past, control
<1>1. CASE GuestBoots
  BY <1>1 DEF GuestBoots
<1>2. CASE GuestReboots
  BY <1>2 DEF GuestReboots
<1>3. CASE GuestFails
  BY <1>3 DEF GuestFails
<1> QED
  BY <1>1, <1>2, <1>3

(* A run begins with all threads at their beginning and ends with all of   *)
(* them done.                                                              *)
LEMMA RunOInv == IInv /\ OInv /\ (Call \/ Start \/ Finish \/ Interrupt \/ Check) => OInv'
<1> SUFFICES ASSUME IInv, OInv, Call \/ Start \/ Finish \/ Interrupt \/ Check PROVE OInv'
  OBVIOUS
<1> USE DEF OInv, Orderly, Held, ReadToEnd, Quiet, NothingLost, Past, shared, machine
<1>1. CASE Call
  BY <1>1 DEF Call
<1>2. CASE Start
  BY <1>2 DEF Start, Threads, Flags
<1>3. CASE Finish
  BY <1>3 DEF Finish, Threads
<1>4. CASE Interrupt
  BY <1>4 DEF Interrupt
<1>5. CASE Check
  BY <1>5 DEF Check
<1> QED
  BY <1>1, <1>2, <1>3, <1>4, <1>5

(* OInv is inductive relative to IInv.                                     *)
LEMMA NextOInv == IInv /\ OInv /\ [Next]_vars => OInv'
<1> SUFFICES ASSUME IInv, OInv, [Next]_vars PROVE OInv'
  OBVIOUS
<1>1. CASE UNCHANGED vars
  BY <1>1 DEF OInv, Orderly, Held, ReadToEnd, Quiet, NothingLost, Past, vars, shared,
              machine, control
<1> QED
  BY <1>1, PtyOInv, KillerOInv, QemuOInv, ExecutorOInv, GuestOInv, RunOInv DEF Next

(* The file of a run that was not interrupted has all that its guest       *)
(* printed: the terminal is never taken down under a guest that runs.      *)
THEOREM AllOutputIsSaved == Spec => []NothingLost
<1>1. OInv => NothingLost
  BY DEF OInv
<1> QED
  BY <1>1, InitIInv, NextIInv, InitOInv, NextOInv, PTL DEF Spec
=============================================================================
