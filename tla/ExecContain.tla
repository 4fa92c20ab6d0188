---------------------------- MODULE ExecContain ----------------------------
(***************************************************************************)
(* Process containment of a governed exec on Linux                         *)
(* (internal/vm/exec_contain_linux.go, internal/vm/vm.go EXEC).            *)
(*                                                                         *)
(* Three actors: the runner (runContained and its goroutines), the         *)
(* supervisor (runSupervisor), a child subreaper that starts the program,  *)
(* and the tree of processes the program grows.  They share the output     *)
(* pipe, the status pipe and the control pipe, whose end of file tells the *)
(* supervisor to sweep.  The kernel re-parents the children of a process   *)
(* that dies to the supervisor, or to init once the supervisor is gone.    *)
(*                                                                         *)
(* Not modelled: reuse of process ids, and processes that the runner's     *)
(* user cannot signal.                                                     *)
(***************************************************************************)
EXTENDS Naturals

CONSTANTS
  Program,    \* the program that exec runs
  Others,     \* processes it may start, directly or not
  Stubborn,   \* processes that take their time to die of SIGKILL
  MaxPasses,  \* passes of a sweep
  Faults,     \* what may go wrong
  Sup, InitProc, None

Procs == {Program} \cup Others

ASSUME ExecContainAssumption ==
  /\ Program \notin Others
  /\ Stubborn \subseteq Procs
  /\ MaxPasses \in Nat \ {0}
  /\ Faults \subseteq {"deadline", "limit", "no program", "runner dies", "supervisor dies",
                       "sweep times out", "unreadable"}
  /\ Sup \notin Procs /\ InitProc \notin Procs /\ Sup # InitProc
  /\ None \notin {"zero", "non-zero", "signal", "exited", "start-failed", "ok"}

VARIABLES
  state,      \* of each process
  parent,     \* of each process that exists
  inGroup,    \* processes in the supervisor's process group
  holders,    \* processes that have the output pipe open
  unread,     \* whether the output pipe holds bytes
  exit,       \* how the program ended
  runner,     \* where runContained is
  copyEnded, exited, stopNow, \* its local variables
  copier,     \* the goroutine that copies the output
  late,       \* whether the deadline has passed
  result,     \* what the exec instruction made of it
  sup,        \* where the supervisor is
  waited,     \* whether its child.Wait has returned
  status,     \* the line it wrote to the status pipe
  verdict,    \* how it ended
  scan, kids, passes, clean,  \* its sweep
  blind       \* whether an error kept its last pass from reading what is there

tree == <<state, parent, inGroup, holders, unread, exit>>
run == <<runner, copyEnded, exited, stopNow, copier, late, result>>
sweep == <<scan, kids, passes, clean, blind>>
supervisor == <<sup, waited, status, verdict, sweep>>
vars == <<tree, run, supervisor>>

TypeOK ==
  /\ state \in [Procs -> {"unborn", "running", "killed", "zombie", "gone"}]
  /\ parent \in [Procs -> Procs \cup {Sup, InitProc}]
  /\ inGroup \subseteq Procs /\ holders \subseteq Procs
  /\ unread \in BOOLEAN
  /\ exit \in {None, "zero", "non-zero", "signal"}
  /\ runner \in {"select", "closed", "reaped", "drain", "returned", "dead"}
  /\ copyEnded \in BOOLEAN /\ exited \in BOOLEAN /\ stopNow \in BOOLEAN
  /\ copier \in {"copying", "eof", "refused", "closed"}
  /\ late \in BOOLEAN
  /\ result \in {None, "ok", "IO_ERROR", "output limit", "deadline"}
  /\ sup \in {"start", "select", "report", "hold", "list", "read", "kill", "exit", "gone"}
  /\ waited \in BOOLEAN
  /\ status \in {None, "exited", "start-failed"}
  /\ verdict \in {None, "zero", "non-zero", "signal"}
  /\ scan \subseteq Procs /\ kids \subseteq Procs
  /\ passes \in 0 .. MaxPasses
  /\ clean \in BOOLEAN /\ blind \in BOOLEAN

Init ==
  /\ state = [p \in Procs |-> "unborn"]
  /\ parent = [p \in Procs |-> InitProc]
  /\ inGroup = {} /\ holders = {}
  /\ unread = FALSE /\ exit = None
  /\ runner = "select"
  /\ copyEnded = FALSE /\ exited = FALSE /\ stopNow = FALSE
  /\ copier = "copying" /\ late = FALSE /\ result = None
  /\ sup = "start" /\ waited = FALSE /\ status = None /\ verdict = None
  /\ scan = {} /\ kids = {} /\ passes = 0 /\ clean = FALSE /\ blind = FALSE

Living(p) == state[p] \in {"running", "killed"}

-----------------------------------------------------------------------------
(* The kernel and the processes of the tree.                               *)

Heir == IF sup = "gone" THEN InitProc ELSE Sup

\* The processes of dead end and their children go to heir.
Bury(dead, heir) ==
  /\ parent' = [q \in Procs |-> IF parent[q] \in dead THEN heir ELSE parent[q]]
  /\ inGroup' = inGroup \ dead
  /\ holders' = holders \ dead

\* SIGKILL to a set of processes: those that are stubborn die later.
Kill(targets, heir) ==
  LET hit == {p \in targets \cap Procs : state[p] = "running"}
      dead == (targets \ Procs) \cup (hit \ Stubborn)
  IN  /\ state' = [p \in Procs |-> IF p \in dead THEN "zombie"
                                   ELSE IF p \in hit THEN "killed" ELSE state[p]]
      /\ exit' = IF Program \in dead THEN "signal" ELSE exit
      /\ Bury(dead, heir)

\* A process starts another, which inherits its group and its output.
Fork(p, q) ==
  /\ state[p] = "running" /\ state[q] = "unborn" /\ q # Program
  /\ state' = [state EXCEPT ![q] = "running"]
  /\ parent' = [parent EXCEPT ![q] = p]
  /\ inGroup' = IF p \in inGroup THEN inGroup \cup {q} ELSE inGroup
  /\ holders' = IF p \in holders THEN holders \cup {q} ELSE holders
  /\ UNCHANGED <<unread, exit, run, supervisor>>

\* The program or a descendant calls setsid: none of them leads the group.
Escape(p) ==
  /\ state[p] = "running" /\ p \in inGroup
  /\ inGroup' = inGroup \ {p}
  /\ UNCHANGED <<state, parent, holders, unread, exit, run, supervisor>>

Write(p) ==
  /\ state[p] = "running" /\ p \in holders
  /\ ~unread /\ copier = "copying"
  /\ unread' = TRUE
  /\ UNCHANGED <<state, parent, inGroup, holders, exit, run, supervisor>>

CloseOutput(p) ==
  /\ state[p] = "running" /\ p \in holders
  /\ holders' = holders \ {p}
  /\ UNCHANGED <<state, parent, inGroup, unread, exit, run, supervisor>>

Exit(p) ==
  /\ state[p] = "running"
  /\ state' = [state EXCEPT ![p] = "zombie"]
  /\ IF p = Program THEN exit' \in {"zero", "non-zero"} ELSE UNCHANGED exit
  /\ Bury({p}, Heir)
  /\ UNCHANGED <<unread, run, supervisor>>

Die(p) ==
  /\ state[p] = "killed"
  /\ state' = [state EXCEPT ![p] = "zombie"]
  /\ exit' = IF p = Program THEN "signal" ELSE exit
  /\ Bury({p}, Heir)
  /\ UNCHANGED <<unread, run, supervisor>>

\* A process or init reaps a zombie of its own.
Reap(p) ==
  /\ state[p] = "zombie" /\ parent[p] # Sup
  /\ state' = [state EXCEPT ![p] = "gone"]
  /\ UNCHANGED <<parent, inGroup, holders, unread, exit, run, supervisor>>

-----------------------------------------------------------------------------
(* The supervisor.                                                         *)

\* Its control pipe is at its end once the runner closed or left it.
CtrlClosed == runner # "select"

\* The supervisor ends: its children go to init.
Leave(how) ==
  /\ sup' = "gone" /\ verdict' = how
  /\ Bury({Sup}, InitProc)

StartProgram ==
  /\ sup = "start"
  /\ sup' = "select"
  /\ state' = [state EXCEPT ![Program] = "running"]
  /\ parent' = [parent EXCEPT ![Program] = Sup]
  /\ inGroup' = {Program} /\ holders' = {Program}
  /\ UNCHANGED <<unread, exit, run, waited, status, verdict, sweep>>

StartFails ==
  /\ "no program" \in Faults
  /\ sup = "start"
  /\ status' = "start-failed"
  /\ Leave("non-zero")
  /\ UNCHANGED <<state, unread, exit, run, waited, sweep>>

\* The goroutine in child.Wait reaps the program, unless reapAll has.
Wait ==
  /\ sup \notin {"start", "gone"} /\ ~waited
  /\ state[Program] \in {"zombie", "gone"}
  /\ waited' = TRUE
  /\ state' = [state EXCEPT ![Program] = "gone"]
  /\ UNCHANGED <<parent, inGroup, holders, unread, exit, run, sup, status, verdict, sweep>>

\* The runner's stop only counts while the program has not been waited for.
Select_IgnoresCtrl ==
  /\ sup = "select"
  /\ waited /\ sup' = "report"
  /\ UNCHANGED <<tree, run, waited, status, verdict, sweep>>

Select ==
  /\ sup = "select"
  /\ \/ waited /\ sup' = "report"
     \/ ~waited /\ CtrlClosed /\ sup' = "list"
  /\ UNCHANGED <<tree, run, waited, status, verdict, sweep>>

Report ==
  /\ sup = "report"
  /\ status' = "exited"
  /\ sup' = "hold"
  /\ UNCHANGED <<tree, run, waited, verdict, sweep>>

\* The runner lets the sweep go ahead.
GoAhead ==
  /\ sup = "hold" /\ CtrlClosed
  /\ sup' = "list"
  /\ UNCHANGED <<tree, run, waited, status, verdict, sweep>>

\* reapAll: the zombies among the supervisor's children.
Reaped == [p \in Procs |-> IF state[p] = "zombie" /\ parent[p] = Sup THEN "gone" ELSE state[p]]

\* One pass of killDescendants: /proc is listed, ...
List ==
  /\ sup = "list"
  /\ scan' = {p \in Procs : state[p] \notin {"unborn", "gone"}}
  /\ kids' = {} /\ blind' = FALSE
  /\ sup' = "read"
  /\ UNCHANGED <<tree, run, waited, status, verdict, passes, clean>>

\* ... which may fail, and then there are no children, ...
ListFails ==
  /\ "unreadable" \in Faults
  /\ sup = "list"
  /\ scan' = {} /\ kids' = {} /\ blind' = TRUE
  /\ sup' = "read"
  /\ UNCHANGED <<tree, run, waited, status, verdict, passes, clean>>

\* ... the parent of each process that was listed is read, at its own time, ...
ReadStat(p) ==
  /\ sup = "read" /\ p \in scan
  /\ scan' = scan \ {p}
  /\ kids' = IF state[p] # "gone" /\ parent[p] = Sup THEN kids \cup {p} ELSE kids
  /\ UNCHANGED <<tree, run, sup, waited, status, verdict, passes, clean, blind>>

\* ... a process whose file cannot be read is passed over, as one that is gone is, ...
ReadStatFails(p) ==
  /\ "unreadable" \in Faults
  /\ sup = "read" /\ p \in scan /\ state[p] # "gone"
  /\ scan' = scan \ {p}
  /\ blind' = TRUE
  /\ UNCHANGED <<tree, run, sup, waited, status, verdict, kids, passes, clean>>

EndPass_KillsOnce ==
  /\ sup = "read" /\ scan = {}
  /\ sup' = IF kids = {} \/ passes > 0 THEN "exit" ELSE "kill"
  /\ clean' = (kids = {} \/ passes > 0)
  /\ state' = IF clean' THEN Reaped ELSE state
  /\ UNCHANGED <<parent, inGroup, holders, unread, exit, run, waited, status, verdict,
                 scan, kids, passes, blind>>

\* ... and the sweep ends when there was no child.
EndPass ==
  /\ sup = "read" /\ scan = {}
  /\ clean' = (kids = {})
  /\ sup' = IF kids = {} THEN "exit" ELSE "kill"
  /\ state' = IF kids = {} THEN Reaped ELSE state
  /\ UNCHANGED <<parent, inGroup, holders, unread, exit, run, waited, status, verdict,
                 scan, kids, passes, blind>>

KillKid(p) ==
  /\ sup = "kill" /\ p \in kids
  /\ kids' = kids \ {p}
  /\ Kill({p}, Sup)
  /\ UNCHANGED <<unread, run, sup, waited, status, verdict, scan, passes, clean, blind>>

NextPass_OneMore(n) == IF n <= MaxPasses THEN "list" ELSE "exit"

NextPass(n) == IF n < MaxPasses THEN "list" ELSE "exit"

\* reapAll, and the next pass unless this was the last.
ReapAll ==
  /\ sup = "kill" /\ kids = {}
  /\ state' = Reaped
  /\ passes' = passes + 1
  /\ sup' = NextPass(passes + 1)
  /\ UNCHANGED <<parent, inGroup, holders, unread, exit, run, waited, status, verdict, scan, kids, clean, blind>>

\* The supervisor ends as the program did, or with 137 if it was stopped.
Leaves ==
  /\ sup = "exit"
  /\ Leave(IF status = "exited" THEN exit ELSE "non-zero")
  /\ UNCHANGED <<state, unread, exit, run, waited, status, sweep>>

\* The supervisor is killed from outside.
SupervisorDies ==
  /\ "supervisor dies" \in Faults
  /\ sup # "gone"
  /\ Leave("signal")
  /\ UNCHANGED <<state, unread, exit, run, waited, status, sweep>>

-----------------------------------------------------------------------------
(* The runner.                                                             *)

Deadline ==
  /\ "deadline" \in Faults
  /\ runner \notin {"returned", "dead"} /\ ~late
  /\ late' = TRUE
  /\ UNCHANGED <<tree, runner, copyEnded, exited, stopNow, copier, result, supervisor>>

OutputClosed_Never == FALSE

\* The runner has closed its end of the output pipe.
OutputClosed == runner = "drain" \/ (runner \in {"closed", "reaped"} /\ stopNow)

\* io.Copy into limitedOutput, which refuses what exceeds the limit.
Copy ==
  /\ copier = "copying" /\ ~OutputClosed
  /\ unread
  /\ unread' = FALSE
  /\ copier' \in {"copying"} \cup (IF "limit" \in Faults THEN {"refused"} ELSE {})
  /\ UNCHANGED <<state, parent, inGroup, holders, exit, runner, copyEnded, exited, stopNow,
                 late, result, supervisor>>

\* The output ends when every process has closed it or the runner has.
CopyEnds ==
  /\ copier = "copying" /\ ~unread
  /\ holders = {} /\ sup # "start"
  /\ copier' = "eof"
  /\ UNCHANGED <<tree, runner, copyEnded, exited, stopNow, late, result, supervisor>>

CopyClosed ==
  /\ copier = "copying" /\ OutputClosed
  /\ copier' = "closed"
  /\ UNCHANGED <<tree, runner, copyEnded, exited, stopNow, late, result, supervisor>>

Finished_AtEndOfOutput == copyEnded \/ stopNow

Finished == (copyEnded /\ exited) \/ stopNow

TakeCopy ==
  /\ runner = "select" /\ ~Finished
  /\ ~copyEnded /\ copier # "copying"
  /\ copyEnded' = TRUE
  /\ stopNow' = (copier = "refused")
  /\ UNCHANGED <<tree, runner, exited, copier, late, result, supervisor>>

\* A status line, or the end of the status pipe.
TakeReport ==
  /\ runner = "select" /\ ~Finished
  /\ ~exited /\ (status # None \/ sup = "gone")
  /\ exited' = TRUE
  /\ UNCHANGED <<tree, runner, copyEnded, stopNow, copier, late, result, supervisor>>

\* The context ends with the deadline, and limitedOutput cancels it.
Cancelled == late \/ copier = "refused"

TakeCancel ==
  /\ runner = "select" /\ ~Finished
  /\ Cancelled
  /\ stopNow' = TRUE
  /\ UNCHANGED <<tree, runner, copyEnded, exited, copier, late, result, supervisor>>

CloseCtrl ==
  /\ runner = "select" /\ Finished
  /\ runner' = "closed"
  /\ UNCHANGED <<tree, copyEnded, exited, stopNow, copier, late, result, supervisor>>

CmdWait ==
  /\ runner = "closed" /\ sup = "gone"
  /\ runner' = "reaped"
  /\ UNCHANGED <<tree, copyEnded, exited, stopNow, copier, late, result, supervisor>>

\* After five seconds the supervisor is killed with its group.
SweepTimesOut ==
  /\ "sweep times out" \in Faults
  /\ runner = "closed" /\ sup # "gone"
  /\ runner' = "reaped"
  /\ Kill(inGroup \cup {Sup}, InitProc)
  /\ sup' = "gone" /\ verdict' = "signal"
  /\ UNCHANGED <<unread, copyEnded, exited, stopNow, copier, late, result, waited, status, sweep>>

SafetyNet_Missing ==
  /\ runner = "reaped"
  /\ runner' = "drain"
  /\ UNCHANGED <<tree, copyEnded, exited, stopNow, copier, late, result, supervisor>>

\* For a supervisor that was itself killed.
SafetyNet ==
  /\ runner = "reaped"
  /\ runner' = "drain"
  /\ Kill(inGroup, InitProc)
  /\ UNCHANGED <<unread, copyEnded, exited, stopNow, copier, late, result, supervisor>>

Outcome_LimitLast ==
  CASE late -> "deadline"
    [] ~late /\ (status = "start-failed" \/ verdict # "zero") -> "IO_ERROR"
    [] OTHER -> "ok"

\* What EXEC makes of the end of the call.
Outcome ==
  CASE late -> "deadline"
    [] ~late /\ copier = "refused" -> "output limit"
    [] ~Cancelled /\ (status = "start-failed" \/ verdict # "zero") -> "IO_ERROR"
    [] OTHER -> "ok"

Return ==
  /\ runner = "drain"
  /\ copyEnded \/ copier # "copying"
  /\ runner' = "returned"
  /\ result' = Outcome
  /\ UNCHANGED <<tree, copyEnded, exited, stopNow, copier, late, supervisor>>

RunnerDies ==
  /\ "runner dies" \in Faults
  /\ runner \notin {"returned", "dead"}
  /\ runner' = "dead"
  /\ copier' = IF copier = "copying" THEN "closed" ELSE copier
  /\ UNCHANGED <<tree, copyEnded, exited, stopNow, late, result, supervisor>>

-----------------------------------------------------------------------------

Processes ==
  \E p \in Procs :
    \/ Escape(p) \/ Write(p) \/ CloseOutput(p) \/ Exit(p)
    \/ \E q \in Procs : Fork(p, q)

Kernel == \E p \in Procs : Die(p) \/ Reap(p)

Supervisor ==
  \/ StartProgram \/ StartFails \/ Select \/ Report \/ GoAhead
  \/ List \/ ListFails \/ EndPass \/ ReapAll \/ Leaves
  \/ \E p \in Procs : ReadStat(p) \/ ReadStatFails(p) \/ KillKid(p)

Runner == TakeCopy \/ TakeReport \/ TakeCancel \/ CloseCtrl \/ CmdWait \/ SafetyNet \/ Return

Copier == Copy \/ CopyEnds \/ CopyClosed

Next ==
  \/ Processes \/ Kernel \/ Supervisor \/ Wait \/ Runner \/ Copier
  \/ Deadline \/ SupervisorDies \/ SweepTimesOut \/ RunnerDies

Spec == Init /\ [][Next]_vars

\* The runner, the supervisor, their goroutines and the kernel run.  The
\* processes of the tree may do nothing for ever.
FairSpec ==
  /\ Spec
  /\ WF_vars(Runner) /\ WF_vars(Copier) /\ WF_vars(Supervisor) /\ WF_vars(Wait)
  /\ WF_vars(Kernel)

-----------------------------------------------------------------------------
(* Properties.                                                             *)

\* exec_contain_linux.go: when an exec call returns, no process it started is
\* still running.
NothingLeftRunning ==
  runner = "returned" => \A p \in Procs : ~Living(p)

\* When the program had exited before the sweep, a pass of the sweep that could read
\* all it listed and finds no child means that the whole tree is gone, however it
\* forks, escapes and dies while /proc is read.  childrenOf takes what it cannot read
\* for processes that are gone: of such a pass nothing is claimed.
SweptTreeIsGone ==
  clean /\ ~blind /\ status = "exited" => \A p \in Procs : ~Living(p)

\* Whatever fails, the supervisor too, the call returns only after every process
\* that stayed in the supervisor's group has been killed.
GroupIsKilled ==
  runner = "returned" => \A p \in inGroup : state[p] # "running"

\* exec_contain_linux.go: unless it is stopped or its supervisor is killed, the call
\* lets the program exit and every process that holds its output close it, before
\* anything is killed.
NotCutShort ==
  CtrlClosed /\ ~stopNow /\ runner # "dead" /\ verdict # "signal" =>
    holders = {} /\ ~unread /\ ~Living(Program)

\* exec succeeds only with the whole output of a program that ended with zero.
SuccessIsWhole ==
  result = "ok" => exit = "zero" /\ holders = {} /\ ~unread /\ copier = "eof"

\* A call that is stopped, or whose program has ended with its output, returns,
\* whatever the processes that are left do.
CallsReturn ==
  Cancelled \/ (exit # None /\ holders = {}) ~> runner \in {"returned", "dead"}

\* The supervisor does not outlive the call or the runner.
SupervisorEnds ==
  CtrlClosed ~> sup = "gone"
=============================================================================
