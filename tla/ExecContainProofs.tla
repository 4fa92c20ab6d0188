------------------------- MODULE ExecContainProofs -------------------------
(***************************************************************************)
(* Theorems about ExecContain, for every set of processes, however many    *)
(* passes a sweep may take, and every combination of faults.               *)
(***************************************************************************)
EXTENDS ExecContain, WellFoundedInduction, TLAPS

\* TypeOK, in the three parts of the state.
TreeTypes ==
  /\ state \in [Procs -> {"unborn", "running", "killed", "zombie", "gone"}]
  /\ parent \in [Procs -> Procs \cup {Sup, InitProc}]
  /\ inGroup \subseteq Procs /\ holders \subseteq Procs
  /\ unread \in BOOLEAN
  /\ exit \in {None, "zero", "non-zero", "signal"}
RunTypes ==
  /\ runner \in {"select", "closed", "reaped", "drain", "returned", "dead"}
  /\ copyEnded \in BOOLEAN /\ exited \in BOOLEAN /\ stopNow \in BOOLEAN
  /\ copier \in {"copying", "eof", "refused", "closed"}
  /\ late \in BOOLEAN
  /\ result \in {None, "ok", "IO_ERROR", "output limit", "deadline"}
SupTypes ==
  /\ sup \in {"start", "select", "report", "hold", "list", "read", "kill", "exit", "gone"}
  /\ waited \in BOOLEAN
  /\ status \in {None, "exited", "start-failed"}
  /\ verdict \in {None, "zero", "non-zero", "signal"}
  /\ scan \subseteq Procs /\ kids \subseteq Procs
  /\ passes \in 0 .. MaxPasses
  /\ clean \in BOOLEAN /\ blind \in BOOLEAN

\* The supervisor reports only a program it has waited for, and one it has waited
\* for stays gone.
ProgramEnds ==
  /\ sup = "start" => state[Program] = "unborn"
  /\ waited => state[Program] = "gone"
  /\ sup \in {"report", "hold"} => waited
  /\ status = "exited" => waited
  /\ status = "start-failed" => sup = "gone" /\ state[Program] = "unborn"
  /\ verdict # None => sup = "gone"
  /\ verdict = "zero" => exit = "zero" /\ waited

\* The output has ended once the copier has seen its end, and the runner counts it
\* as ended for no other reason unless the call is stopped.
OutputEnds ==
  /\ runner = "select" => copier # "closed"
  /\ copier = "eof" => sup # "start" /\ holders = {} /\ ~unread
  /\ copyEnded /\ ~stopNow => copier = "eof"
  /\ stopNow => Cancelled
  /\ result = "ok" => exit = "zero" /\ waited /\ copier = "eof"

\* The supervisor kills nothing before the runner has closed its control pipe, and
\* the runner closes it only after a report, or a supervisor that was killed.
RunnerWaits ==
  /\ runner = "select" => sup \notin {"list", "read", "kill", "exit"}
  /\ runner = "select" /\ sup = "gone" => status # None \/ verdict = "signal"
  /\ exited => status # None \/ verdict = "signal"
  /\ runner \notin {"select", "dead"} /\ ~stopNow => copyEnded /\ exited

\* The last kill comes after the supervisor's end, and nothing joins its group but
\* what a member of it starts.
GroupEnds ==
  /\ \A p \in inGroup : state[p] # "unborn"
  /\ runner \in {"reaped", "drain", "returned"} => sup = "gone"
  /\ runner \in {"drain", "returned"} => \A p \in inGroup : state[p] # "running"

\* Every process alive descends from the supervisor through processes alive: each
\* is younger than its parent.
Younger(age) ==
  \A p \in Procs : Living(p) =>
    \/ parent[p] = Sup
    \/ parent[p] \in Procs /\ Living(parent[p]) /\ age[parent[p]] < age[p]
Descend == \E age \in [Procs -> Nat] : Younger(age)

\* A child of the supervisor that is not reaped.
Child(p) == parent[p] = Sup /\ state[p] \notin {"unborn", "gone"}

\* As long as a process is alive, a pass that no error has kept from reading finds a
\* child: it is still to be read or has been found.
SweepSees ==
  /\ sup = "start" => \A p \in Procs : ~Living(p)
  /\ clean => sup \in {"exit", "gone"}
  /\ sup # "gone" => Descend
  /\ sup = "read" /\ status = "exited" /\ ~blind =>
       (\A p \in Procs : ~Living(p)) \/ (\E p \in scan \cup kids : Child(p))
  /\ SweptTreeIsGone

PassesLeft == sup \notin {"exit", "gone"} => passes < MaxPasses

IInv == TreeTypes /\ RunTypes /\ SupTypes /\ PassesLeft /\ ProgramEnds /\ OutputEnds /\ RunnerWaits /\ GroupEnds /\ SweepSees

-----------------------------------------------------------------------------
\* TypeOK is the types of the tree, of the runner and of the supervisor.
LEMMA TypeParts == TypeOK <=> TreeTypes /\ RunTypes /\ SupTypes
  BY DEF TypeOK, TreeTypes, RunTypes, SupTypes

(* What the kernel does to a process.                                      *)

\* The constants that stand for outcomes are not None.
LEMMA NoneFacts ==
  None \notin {"zero", "non-zero", "signal", "exited", "start-failed", "ok"}
  BY ExecContainAssumption

\* Re-parenting touches the children of the dead only.
LEMMA BuryFacts ==
  ASSUME NEW dead, NEW heir \in Procs \cup {Sup, InitProc}, TreeTypes, Bury(dead, heir)
  PROVE  /\ parent' \in [Procs -> Procs \cup {Sup, InitProc}]
         /\ inGroup' \subseteq inGroup /\ holders' \subseteq holders
         /\ inGroup' \subseteq Procs /\ holders' \subseteq Procs
         /\ \A q \in Procs : parent'[q] = IF parent[q] \in dead THEN heir ELSE parent[q]
  BY DEF Bury, TreeTypes

\* A kill ends processes that run and no others.
LEMMA KillFacts ==
  ASSUME NEW targets, NEW heir \in Procs \cup {Sup, InitProc}, TreeTypes, Kill(targets, heir)
  PROVE  /\ state' \in [Procs -> {"unborn", "running", "killed", "zombie", "gone"}]
         /\ parent' \in [Procs -> Procs \cup {Sup, InitProc}]
         /\ exit' \in {None, "zero", "non-zero", "signal"}
         /\ inGroup' \subseteq inGroup /\ holders' \subseteq holders
         /\ inGroup' \subseteq Procs /\ holders' \subseteq Procs
         /\ \A q \in Procs : state[q] # "running" => state'[q] = state[q]
         /\ \A q \in Procs : state'[q] \in {"running", "unborn", "gone"} => state'[q] = state[q]
         /\ \A q \in Procs \cap targets : state'[q] # "running"
         /\ state[Program] # "running" => exit' = exit
  <1> DEFINE hit == {p \in targets \cap Procs : state[p] = "running"}
             dead == (targets \ Procs) \cup (hit \ Stubborn)
  <1>1. /\ state' = [p \in Procs |-> IF p \in dead THEN "zombie" ELSE IF p \in hit THEN "killed" ELSE state[p]]
        /\ exit' = IF Program \in dead THEN "signal" ELSE exit
        /\ Bury(dead, heir)
    BY DEF Kill
  <1>2. Program \in Procs
    BY DEF Procs
  <1>3. \A q \in Procs : q \in dead => state[q] = "running"
    OBVIOUS
  <1>4. /\ parent' \in [Procs -> Procs \cup {Sup, InitProc}]
        /\ inGroup' \subseteq inGroup /\ holders' \subseteq holders
        /\ inGroup' \subseteq Procs /\ holders' \subseteq Procs
    BY <1>1, BuryFacts
  <1>5. \A q \in Procs : /\ state[q] # "running" => state'[q] = state[q]
                         /\ state'[q] \in {"running", "unborn", "gone"} => state'[q] = state[q]
                         /\ q \in targets => state'[q] # "running"
    BY <1>1, <1>3 DEF TreeTypes
  <1>6. state[Program] # "running" => exit' = exit
    BY <1>1, <1>2, <1>3
  <1>7. exit' \in {None, "zero", "non-zero", "signal"}
    BY <1>1 DEF TreeTypes
  <1>8. state' \in [Procs -> {"unborn", "running", "killed", "zombie", "gone"}]
    BY <1>1 DEF TreeTypes
  <1>. QED BY <1>4, <1>5, <1>6, <1>7, <1>8

\* The processes and the supervisor are different things.
LEMMA Distinct ==
  /\ Program \in Procs /\ Sup \notin Procs /\ InitProc \notin Procs /\ Sup # InitProc
  /\ MaxPasses \in Nat
  BY ExecContainAssumption DEF Procs

-----------------------------------------------------------------------------
\* Every step keeps the types of the tree.
LEMMA TreeTypesKept ==
  ASSUME TreeTypes, Next
  PROVE  TreeTypes'
  <1>1. ASSUME NEW p \in Procs, Escape(p)
        PROVE  TreeTypes'
    BY <1>1 DEF Escape, TreeTypes, tree
  <1>2. ASSUME NEW p \in Procs, Exit(p)
        PROVE  TreeTypes'
    BY <1>2, BuryFacts, Distinct DEF Exit, Heir, TreeTypes
  <1>3. ASSUME NEW p \in Procs, NEW q \in Procs, Fork(p, q)
        PROVE  TreeTypes'
    BY <1>3 DEF Fork, TreeTypes, tree
  <1>4. ASSUME NEW p \in Procs, Die(p)
        PROVE  TreeTypes'
    BY <1>4, BuryFacts, Distinct DEF Die, Heir, TreeTypes
  <1>5. ASSUME NEW p \in Procs, Reap(p)
        PROVE  TreeTypes'
    BY <1>5 DEF Reap, TreeTypes, tree
  <1>6. CASE StartProgram
    BY <1>6 DEF StartProgram, TreeTypes, tree, Procs
  <1>7. CASE StartFails
    BY <1>7, BuryFacts, Distinct DEF StartFails, Leave, TreeTypes
  <1>8. ASSUME NEW p \in Procs, KillKid(p)
        PROVE  TreeTypes'
    BY <1>8, KillFacts DEF KillKid, TreeTypes
  <1>9. CASE ReapAll \/ EndPass
    BY <1>9 DEF ReapAll, EndPass, Reaped, TreeTypes
  <1>10. CASE Leaves
    BY <1>10, BuryFacts, Distinct DEF Leaves, Leave, TreeTypes
  <1>11. CASE Wait
    BY <1>11 DEF Wait, TreeTypes, tree
  <1>12. CASE SafetyNet
    BY <1>12, KillFacts DEF SafetyNet, TreeTypes
  <1>13. CASE SupervisorDies
    BY <1>13, BuryFacts, Distinct DEF SupervisorDies, Leave, TreeTypes
  <1>14. CASE SweepTimesOut
    BY <1>14, KillFacts DEF SweepTimesOut, TreeTypes
  <1>15. ASSUME NEW p \in Procs,
               Write(p) \/ CloseOutput(p) \/ (ReadStat(p) \/ ReadStatFails(p))
        PROVE  TreeTypes'
    BY <1>15 DEF Write, CloseOutput, ReadStat, ReadStatFails, TreeTypes, tree
  <1>16. CASE Select \/ Report \/ GoAhead \/ List \/ ListFails \/ TakeCopy \/ TakeReport \/ TakeCancel \/
          CloseCtrl \/ CmdWait \/ Return \/ Copy \/ CopyEnds \/ CopyClosed \/ Deadline \/ RunnerDies
    BY <1>16 DEF Select, Report, GoAhead, List, ListFails, TakeCopy, TakeReport, TakeCancel,
      CloseCtrl, CmdWait, Return, Copy, CopyEnds, CopyClosed, Deadline, RunnerDies, TreeTypes, tree
  <1>. QED BY <1>1, <1>2, <1>3, <1>4, <1>5, <1>6, <1>7, <1>8, <1>9, <1>10, <1>11, <1>12, <1>13,
       <1>14, <1>15, <1>16 DEF Next, Processes, Kernel, Supervisor, Runner, Copier

\* Every step keeps the types of the runner.
LEMMA RunTypesKept ==
  ASSUME RunTypes, Next
  PROVE  RunTypes'
  <1>1. CASE TakeCopy
    BY <1>1 DEF TakeCopy, RunTypes, run
  <1>2. CASE TakeReport
    BY <1>2 DEF TakeReport, RunTypes, run
  <1>3. CASE TakeCancel
    BY <1>3 DEF TakeCancel, RunTypes, run
  <1>4. CASE CloseCtrl
    BY <1>4 DEF CloseCtrl, RunTypes, run
  <1>5. CASE CmdWait
    BY <1>5 DEF CmdWait, RunTypes, run
  <1>6. CASE SafetyNet
    BY <1>6 DEF SafetyNet, RunTypes, run
  <1>7. CASE Return
    BY <1>7 DEF Return, RunTypes, run, Outcome
  <1>8. CASE Copy
    BY <1>8 DEF Copy, RunTypes, run
  <1>9. CASE CopyEnds
    BY <1>9 DEF CopyEnds, RunTypes, run
  <1>10. CASE CopyClosed
    BY <1>10 DEF CopyClosed, RunTypes, run
  <1>11. CASE Deadline
    BY <1>11 DEF Deadline, RunTypes, run
  <1>12. CASE SweepTimesOut
    BY <1>12 DEF SweepTimesOut, RunTypes, run
  <1>13. CASE RunnerDies
    BY <1>13 DEF RunnerDies, RunTypes, run
  <1>14. ASSUME NEW p \in Procs,
               Escape(p) \/ Write(p) \/ CloseOutput(p) \/ Exit(p) \/ (\E q \in Procs : Fork(p, q))
               \/ Die(p) \/ Reap(p) \/ (ReadStat(p) \/ ReadStatFails(p)) \/ KillKid(p)
        PROVE  RunTypes'
    BY <1>14 DEF Escape, Write, CloseOutput, Exit, Fork, Die, Reap, ReadStat, ReadStatFails, KillKid, RunTypes,
      run
  <1>15. CASE StartProgram \/ StartFails \/ Select \/ Report \/ GoAhead \/ List \/ ListFails \/ EndPass \/ ReapAll \/
          Leaves \/ Wait \/ SupervisorDies
    BY <1>15 DEF StartProgram, StartFails, Select, Report, GoAhead, List, ListFails, EndPass, ReapAll, Reaped,
      Leaves, Wait, SupervisorDies, RunTypes, run
  <1>. QED BY <1>1, <1>2, <1>3, <1>4, <1>5, <1>6, <1>7, <1>8, <1>9, <1>10, <1>11, <1>12, <1>13,
       <1>14, <1>15 DEF Next, Processes, Kernel, Supervisor, Runner, Copier

\* Every step keeps the types of the supervisor.
LEMMA SupTypesKept ==
  ASSUME TreeTypes, SupTypes, PassesLeft, Next
  PROVE  SupTypes' /\ PassesLeft'
  <1>1. CASE StartProgram
    BY <1>1, Distinct DEF StartProgram, SupTypes, PassesLeft, supervisor, sweep
  <1>2. CASE StartFails
    BY <1>2, Distinct DEF StartFails, SupTypes, PassesLeft, supervisor, sweep, Leave
  <1>3. CASE Select
    BY <1>3, Distinct DEF Select, SupTypes, PassesLeft, supervisor, sweep
  <1>4. CASE Report
    BY <1>4, Distinct DEF Report, SupTypes, PassesLeft, supervisor, sweep
  <1>5. CASE GoAhead
    BY <1>5, Distinct DEF GoAhead, SupTypes, PassesLeft, supervisor, sweep
  <1>6. CASE List \/ ListFails
    BY <1>6, Distinct DEF List, ListFails, SupTypes, PassesLeft, supervisor, sweep
  <1>7. ASSUME NEW p \in Procs, (ReadStat(p) \/ ReadStatFails(p))
        PROVE  SupTypes' /\ PassesLeft'
    BY <1>7, Distinct DEF ReadStat, ReadStatFails, SupTypes, PassesLeft, supervisor, sweep
  <1>8. CASE EndPass
    BY <1>8, Distinct DEF EndPass, Reaped, SupTypes, PassesLeft, supervisor, sweep
  <1>9. ASSUME NEW p \in Procs, KillKid(p)
        PROVE  SupTypes' /\ PassesLeft'
    BY <1>9, Distinct DEF KillKid, SupTypes, PassesLeft, supervisor, sweep
  <1>10. CASE ReapAll
    BY <1>10, Distinct DEF ReapAll, Reaped, SupTypes, PassesLeft, supervisor, sweep, NextPass
  <1>11. CASE Leaves
    BY <1>11, Distinct DEF Leaves, SupTypes, PassesLeft, supervisor, sweep, Leave, TreeTypes
  <1>12. CASE Wait
    BY <1>12, Distinct DEF Wait, SupTypes, PassesLeft, supervisor, sweep
  <1>13. CASE SupervisorDies
    BY <1>13, Distinct DEF SupervisorDies, SupTypes, PassesLeft, supervisor, sweep, Leave
  <1>14. CASE SweepTimesOut
    BY <1>14, Distinct DEF SweepTimesOut, SupTypes, PassesLeft, supervisor, sweep
  <1>15. ASSUME NEW p \in Procs,
               Escape(p) \/ Write(p) \/ CloseOutput(p) \/ Exit(p) \/ (\E q \in Procs : Fork(p, q))
               \/ Die(p) \/ Reap(p)
        PROVE  SupTypes' /\ PassesLeft'
    BY <1>15, Distinct DEF Escape, Write, CloseOutput, Exit, Fork, Die, Reap, SupTypes,
      PassesLeft, supervisor, sweep
  <1>16. CASE TakeCopy \/ TakeReport \/ TakeCancel \/ CloseCtrl \/ CmdWait \/ SafetyNet \/ Return \/
          Copy \/ CopyEnds \/ CopyClosed \/ Deadline \/ RunnerDies
    <2>1. CASE TakeCopy \/ TakeReport \/ TakeCancel
      BY <2>1 DEF TakeCopy, TakeReport, TakeCancel, SupTypes, PassesLeft, supervisor, sweep
    <2>2. CASE CloseCtrl \/ CmdWait \/ SafetyNet
      BY <2>2 DEF CloseCtrl, CmdWait, SafetyNet, SupTypes, PassesLeft, supervisor, sweep
    <2>3. CASE Return \/ Deadline \/ RunnerDies
      BY <2>3 DEF Return, Deadline, RunnerDies, SupTypes, PassesLeft, supervisor, sweep
    <2>4. CASE Copy \/ CopyEnds \/ CopyClosed
      BY <2>4 DEF Copy, CopyEnds, CopyClosed, SupTypes, PassesLeft, supervisor, sweep
    <2>. QED BY <1>16, <2>1, <2>2, <2>3, <2>4
  <1>. QED BY <1>1, <1>2, <1>3, <1>4, <1>5, <1>6, <1>7, <1>8, <1>9, <1>10, <1>11, <1>12, <1>13,
       <1>14, <1>15, <1>16 DEF Next, Processes, Kernel, Supervisor, Runner, Copier

\* Every step keeps what is known of the program's end.
LEMMA ProgramEndsKept ==
  ASSUME TreeTypes, SupTypes, ProgramEnds, Next
  PROVE  ProgramEnds'
  <1>1. CASE StartProgram
    BY <1>1, Distinct DEF StartProgram, ProgramEnds, tree, run, sweep, supervisor, TreeTypes,
      SupTypes
  <1>2. CASE StartFails
    BY <1>2, Distinct, NoneFacts, BuryFacts DEF StartFails, Leave, TreeTypes, SupTypes, ProgramEnds, run, sweep
  <1>3. CASE Select
    BY <1>3, Distinct DEF Select, ProgramEnds, tree, run, sweep, supervisor, TreeTypes, SupTypes
  <1>4. CASE Report
    BY <1>4, Distinct DEF Report, ProgramEnds, tree, run, sweep, supervisor, TreeTypes, SupTypes
  <1>5. CASE GoAhead
    BY <1>5, Distinct DEF GoAhead, ProgramEnds, tree, run, sweep, supervisor, TreeTypes, SupTypes
  <1>6. CASE List \/ ListFails
    BY <1>6, Distinct DEF List, ListFails, ProgramEnds, tree, run, sweep, supervisor, TreeTypes, SupTypes
  <1>7. CASE EndPass
    BY <1>7, Distinct DEF EndPass, Reaped, ProgramEnds, tree, run, sweep, supervisor, TreeTypes, SupTypes
  <1>8. ASSUME NEW p \in Procs, KillKid(p)
        PROVE  ProgramEnds'
    BY <1>8, Distinct, KillFacts DEF KillKid, TreeTypes, SupTypes, ProgramEnds, run, supervisor, sweep
  <1>9. CASE ReapAll
    BY <1>9, Distinct DEF ReapAll, Reaped, ProgramEnds, tree, run, sweep, supervisor, TreeTypes, SupTypes,
      NextPass
  <1>10. CASE Leaves
    BY <1>10, Distinct, NoneFacts, BuryFacts DEF Leaves, Leave, TreeTypes, SupTypes, ProgramEnds, run, sweep
  <1>11. CASE Wait
    BY <1>11, Distinct DEF Wait, ProgramEnds, tree, run, sweep, supervisor, TreeTypes, SupTypes
  <1>12. CASE SafetyNet
    BY <1>12, Distinct, KillFacts DEF SafetyNet, TreeTypes, SupTypes, ProgramEnds, run, supervisor, sweep
  <1>13. CASE Return
    BY <1>13, Distinct DEF Return, ProgramEnds, tree, run, sweep, supervisor, TreeTypes, SupTypes
  <1>14. CASE SupervisorDies
    BY <1>14, Distinct, NoneFacts, BuryFacts DEF SupervisorDies, Leave, TreeTypes, SupTypes, ProgramEnds, run, sweep
  <1>15. CASE SweepTimesOut
    BY <1>15, Distinct, NoneFacts, KillFacts DEF SweepTimesOut, TreeTypes, SupTypes, ProgramEnds, run, supervisor, sweep
  <1>16. CASE RunnerDies
    BY <1>16, Distinct DEF RunnerDies, ProgramEnds, tree, run, sweep, supervisor, TreeTypes,
      SupTypes
  <1>17. ASSUME NEW p \in Procs,
               Escape(p) \/ Write(p) \/ CloseOutput(p) \/ Exit(p) \/ (\E q \in Procs : Fork(p, q))
               \/ Die(p) \/ Reap(p) \/ (ReadStat(p) \/ ReadStatFails(p))
        PROVE  ProgramEnds'
    BY <1>17, Distinct DEF Escape, Write, CloseOutput, Exit, Fork, Die, Reap, ReadStat, ReadStatFails,
      ProgramEnds, tree, run, sweep, supervisor, TreeTypes, SupTypes
  <1>18. CASE TakeCopy \/ TakeReport \/ TakeCancel \/ CloseCtrl \/ CmdWait \/ Copy \/ CopyEnds \/
          CopyClosed \/ Deadline
    BY <1>18, Distinct DEF TakeCopy, TakeReport, TakeCancel, CloseCtrl, CmdWait, Copy, CopyEnds,
      CopyClosed, Deadline, ProgramEnds, tree, run, sweep, supervisor, TreeTypes, SupTypes
  <1>. QED BY <1>1, <1>2, <1>3, <1>4, <1>5, <1>6, <1>7, <1>8, <1>9, <1>10, <1>11, <1>12, <1>13,
       <1>14, <1>15, <1>16, <1>17, <1>18 DEF Next, Processes, Kernel, Supervisor, Runner, Copier

\* Every step keeps what is known of the output.
LEMMA OutputEndsKept ==
  ASSUME TreeTypes, RunTypes, SupTypes, ProgramEnds, OutputEnds, RunnerWaits, Next
  PROVE  OutputEnds'
  <1>1. ASSUME NEW p \in Procs, Write(p)
        PROVE  OutputEnds'
    BY <1>1, Distinct DEF Write, OutputEnds, Cancelled, tree, run, sweep, supervisor, TreeTypes,
      SupTypes, ProgramEnds
  <1>2. ASSUME NEW p \in Procs, CloseOutput(p)
        PROVE  OutputEnds'
    BY <1>2, Distinct DEF CloseOutput, OutputEnds, Cancelled, tree, run, sweep, supervisor,
      TreeTypes, SupTypes, ProgramEnds
  <1>3. ASSUME NEW p \in Procs, Exit(p)
        PROVE  OutputEnds'
    BY <1>3, Distinct, BuryFacts DEF Exit, Heir, TreeTypes, SupTypes, ProgramEnds, OutputEnds, Cancelled, tree, run, sweep, supervisor
  <1>4. ASSUME NEW p \in Procs, NEW q \in Procs, Fork(p, q)
        PROVE  OutputEnds'
    BY <1>4, Distinct DEF Fork, OutputEnds, Cancelled, tree, run, sweep, supervisor, TreeTypes,
      SupTypes, ProgramEnds
  <1>5. ASSUME NEW p \in Procs, Die(p)
        PROVE  OutputEnds'
    BY <1>5, Distinct, BuryFacts DEF Die, Heir, TreeTypes, SupTypes, ProgramEnds, OutputEnds, Cancelled, tree, run, sweep, supervisor
  <1>6. CASE StartProgram
    BY <1>6, Distinct DEF StartProgram, OutputEnds, Cancelled, tree, run, sweep, supervisor,
      TreeTypes, SupTypes, ProgramEnds
  <1>7. CASE StartFails
    BY <1>7, BuryFacts DEF StartFails, Leave, TreeTypes, OutputEnds, Cancelled, tree, run, sweep, supervisor
  <1>8. ASSUME NEW p \in Procs, KillKid(p)
        PROVE  OutputEnds'
    BY <1>8, Distinct, KillFacts DEF KillKid, TreeTypes, SupTypes, ProgramEnds, OutputEnds, Cancelled, tree, run, sweep, supervisor
  <1>9. CASE ReapAll
    BY <1>9, Distinct DEF ReapAll, Reaped, OutputEnds, Cancelled, tree, run, sweep, supervisor, TreeTypes,
      SupTypes, ProgramEnds, NextPass
  <1>10. CASE Leaves
    BY <1>10, BuryFacts DEF Leaves, Leave, TreeTypes, OutputEnds, Cancelled, tree, run, sweep, supervisor
  <1>11. CASE Wait
    BY <1>11, Distinct DEF Wait, OutputEnds, Cancelled, tree, run, sweep, supervisor, TreeTypes,
      SupTypes, ProgramEnds
  <1>12. CASE TakeCopy
    BY <1>12, Distinct DEF TakeCopy, OutputEnds, Cancelled, tree, run, sweep, supervisor,
      TreeTypes, SupTypes, ProgramEnds, Finished, RunTypes
  <1>13. CASE TakeReport
    BY <1>13, Distinct DEF TakeReport, OutputEnds, Cancelled, tree, run, sweep, supervisor,
      TreeTypes, SupTypes, ProgramEnds, Finished
  <1>14. CASE TakeCancel
    BY <1>14, Distinct DEF TakeCancel, OutputEnds, Cancelled, tree, run, sweep, supervisor,
      TreeTypes, SupTypes, ProgramEnds, Finished
  <1>15. CASE CloseCtrl
    BY <1>15, Distinct DEF CloseCtrl, OutputEnds, Cancelled, tree, run, sweep, supervisor,
      TreeTypes, SupTypes, ProgramEnds
  <1>16. CASE SafetyNet
    BY <1>16, Distinct, KillFacts DEF SafetyNet, TreeTypes, SupTypes, ProgramEnds, OutputEnds, Cancelled, tree, run, sweep, supervisor
  <1>17. CASE Return
    BY <1>17, NoneFacts DEF Return, Outcome, OutputEnds, RunnerWaits, ProgramEnds, Cancelled, tree, supervisor, sweep
  <1>18. CASE Copy
    BY <1>18, Distinct DEF Copy, OutputEnds, Cancelled, tree, run, sweep, supervisor, TreeTypes,
      SupTypes, ProgramEnds, RunTypes
  <1>19. CASE CopyEnds
    BY <1>19, Distinct DEF CopyEnds, OutputEnds, Cancelled, tree, run, sweep, supervisor,
      TreeTypes, SupTypes, ProgramEnds
  <1>20. CASE CopyClosed
    BY <1>20, Distinct DEF CopyClosed, OutputEnds, Cancelled, tree, run, sweep, supervisor,
      TreeTypes, SupTypes, ProgramEnds, OutputClosed
  <1>21. CASE Deadline
    BY <1>21, Distinct DEF Deadline, OutputEnds, Cancelled, tree, run, sweep, supervisor,
      TreeTypes, SupTypes, ProgramEnds
  <1>22. CASE SupervisorDies
    BY <1>22, BuryFacts DEF SupervisorDies, Leave, TreeTypes, OutputEnds, Cancelled, tree, run, sweep, supervisor
  <1>23. CASE SweepTimesOut
    BY <1>23, Distinct, KillFacts DEF SweepTimesOut, TreeTypes, SupTypes, ProgramEnds, OutputEnds, Cancelled, tree, run, sweep, supervisor
  <1>24. CASE RunnerDies
    BY <1>24, Distinct DEF RunnerDies, OutputEnds, Cancelled, tree, run, sweep, supervisor,
      TreeTypes, SupTypes, ProgramEnds
  <1>25. ASSUME NEW p \in Procs,
               Escape(p) \/ Reap(p) \/ (ReadStat(p) \/ ReadStatFails(p))
        PROVE  OutputEnds'
    BY <1>25, Distinct DEF Escape, Reap, ReadStat, ReadStatFails, OutputEnds, Cancelled, tree, run, sweep,
      supervisor, TreeTypes, SupTypes, ProgramEnds
  <1>26. CASE Select \/ Report \/ GoAhead \/ List \/ ListFails \/ EndPass \/ CmdWait
    BY <1>26, Distinct DEF Select, Report, GoAhead, List, ListFails, EndPass, Reaped, CmdWait, OutputEnds, Cancelled,
      tree, run, sweep, supervisor, TreeTypes, SupTypes, ProgramEnds
  <1>. QED BY <1>1, <1>2, <1>3, <1>4, <1>5, <1>6, <1>7, <1>8, <1>9, <1>10, <1>11, <1>12, <1>13,
       <1>14, <1>15, <1>16, <1>17, <1>18, <1>19, <1>20, <1>21, <1>22, <1>23, <1>24, <1>25, <1>26 DEF
       Next, Processes, Kernel, Supervisor, Runner, Copier

\* Every step keeps what the runner waits for.
LEMMA RunnerWaitsKept ==
  ASSUME TreeTypes, SupTypes, ProgramEnds, RunnerWaits, Next
  PROVE  RunnerWaits'
  <1>1. CASE StartFails
    BY <1>1, NoneFacts DEF StartFails, Leave, ProgramEnds, RunnerWaits, tree, run, sweep, supervisor
  <1>2. CASE Select
    BY <1>2 DEF Select, RunnerWaits, tree, run, sweep, supervisor, TreeTypes, SupTypes,
      ProgramEnds, CtrlClosed
  <1>3. CASE Report
    BY <1>3, NoneFacts DEF Report, RunnerWaits, tree, run, sweep, supervisor
  <1>4. CASE GoAhead
    BY <1>4 DEF GoAhead, RunnerWaits, tree, run, sweep, supervisor, TreeTypes, SupTypes,
      ProgramEnds, CtrlClosed
  <1>5. CASE EndPass
    BY <1>5 DEF EndPass, Reaped, RunnerWaits, tree, run, sweep, supervisor, TreeTypes, SupTypes,
      ProgramEnds
  <1>6. CASE ReapAll
    BY <1>6 DEF ReapAll, Reaped, RunnerWaits, tree, run, sweep, supervisor, TreeTypes, SupTypes,
      ProgramEnds, NextPass
  <1>7. CASE Leaves
    BY <1>7, NoneFacts DEF Leaves, Leave, ProgramEnds, RunnerWaits, tree, run, sweep, supervisor
  <1>8. CASE Wait
    BY <1>8 DEF Wait, RunnerWaits, tree, run, sweep, supervisor, TreeTypes, SupTypes, ProgramEnds
  <1>9. CASE TakeCopy
    BY <1>9 DEF TakeCopy, RunnerWaits, tree, run, sweep, supervisor, TreeTypes, SupTypes,
      ProgramEnds, Finished
  <1>10. CASE TakeReport
    BY <1>10 DEF TakeReport, Finished, RunnerWaits, tree, run, sweep, supervisor
  <1>11. CASE TakeCancel
    BY <1>11 DEF TakeCancel, RunnerWaits, tree, run, sweep, supervisor, TreeTypes, SupTypes,
      ProgramEnds, Finished
  <1>12. CASE CloseCtrl
    BY <1>12 DEF CloseCtrl, RunnerWaits, tree, run, sweep, supervisor, TreeTypes, SupTypes,
      ProgramEnds, Finished
  <1>13. CASE CmdWait
    BY <1>13 DEF CmdWait, RunnerWaits, tree, run, sweep, supervisor, TreeTypes, SupTypes,
      ProgramEnds
  <1>14. CASE SafetyNet
    BY <1>14 DEF SafetyNet, RunnerWaits, tree, run, sweep, supervisor, TreeTypes, SupTypes,
      ProgramEnds
  <1>15. CASE Return
    BY <1>15 DEF Return, RunnerWaits, tree, run, sweep, supervisor, TreeTypes, SupTypes,
      ProgramEnds
  <1>16. CASE SupervisorDies
    BY <1>16, NoneFacts DEF SupervisorDies, Leave, ProgramEnds, RunnerWaits, tree, run, sweep, supervisor
  <1>17. CASE SweepTimesOut
    BY <1>17 DEF SweepTimesOut, RunnerWaits, tree, run, sweep, supervisor, TreeTypes, SupTypes,
      ProgramEnds
  <1>18. CASE RunnerDies
    BY <1>18 DEF RunnerDies, RunnerWaits, tree, run, sweep, supervisor, TreeTypes, SupTypes,
      ProgramEnds
  <1>19. ASSUME NEW p \in Procs,
               Escape(p) \/ Write(p) \/ CloseOutput(p) \/ Exit(p) \/ (\E q \in Procs : Fork(p, q))
               \/ Die(p) \/ Reap(p) \/ (ReadStat(p) \/ ReadStatFails(p)) \/ KillKid(p)
        PROVE  RunnerWaits'
    BY <1>19 DEF Escape, Write, CloseOutput, Exit, Fork, Die, Reap, ReadStat, ReadStatFails, KillKid,
      RunnerWaits, tree, run, sweep, supervisor, TreeTypes, SupTypes, ProgramEnds
  <1>20. CASE StartProgram \/ List \/ ListFails \/ Copy \/ CopyEnds \/ CopyClosed \/ Deadline
    BY <1>20 DEF StartProgram, List, ListFails, Copy, CopyEnds, CopyClosed, Deadline, RunnerWaits, tree, run,
      sweep, supervisor, TreeTypes, SupTypes, ProgramEnds
  <1>. QED BY <1>1, <1>2, <1>3, <1>4, <1>5, <1>6, <1>7, <1>8, <1>9, <1>10, <1>11, <1>12, <1>13,
       <1>14, <1>15, <1>16, <1>17, <1>18, <1>19, <1>20 DEF Next, Processes, Kernel, Supervisor,
       Runner, Copier

\* Every step keeps what is known of the group.
LEMMA GroupEndsKept ==
  ASSUME TreeTypes, GroupEnds, Next
  PROVE  GroupEnds'
  <1>1. ASSUME NEW p \in Procs, Exit(p)
        PROVE  GroupEnds'
    BY <1>1, Distinct, BuryFacts DEF Exit, Leave, Heir, TreeTypes, GroupEnds, tree, run, sweep, supervisor
  <1>2. ASSUME NEW p \in Procs, NEW q \in Procs, Fork(p, q)
        PROVE  GroupEnds'
    BY <1>2 DEF Fork, GroupEnds, tree, run, sweep, supervisor, TreeTypes
  <1>3. ASSUME NEW p \in Procs, Die(p)
        PROVE  GroupEnds'
    BY <1>3, Distinct, BuryFacts DEF Die, Leave, Heir, TreeTypes, GroupEnds, tree, run, sweep, supervisor
  <1>4. ASSUME NEW p \in Procs, Reap(p)
        PROVE  GroupEnds'
    BY <1>4 DEF Reap, GroupEnds, tree, run, sweep, supervisor, TreeTypes
  <1>5. CASE StartProgram
    BY <1>5, Distinct DEF StartProgram, TreeTypes, GroupEnds, tree, run, sweep, supervisor
  <1>6. CASE StartFails
    BY <1>6, Distinct, BuryFacts DEF StartFails, Leave, Heir, TreeTypes, GroupEnds, tree, run, sweep, supervisor
  <1>7. CASE Select
    BY <1>7 DEF Select, GroupEnds, tree, run, sweep, supervisor
  <1>8. ASSUME NEW p \in Procs, KillKid(p)
        PROVE  GroupEnds'
    BY <1>8, KillFacts DEF KillKid, GroupEnds, TreeTypes, run
  <1>9. CASE ReapAll \/ EndPass
    BY <1>9 DEF ReapAll, EndPass, Reaped, TreeTypes, GroupEnds, run
  <1>10. CASE Leaves
    BY <1>10, Distinct, BuryFacts DEF Leaves, Leave, Heir, TreeTypes, GroupEnds, tree, run, sweep, supervisor
  <1>11. CASE SafetyNet
    BY <1>11, KillFacts, Distinct DEF SafetyNet, TreeTypes, GroupEnds, tree, run, sweep, supervisor
  <1>12. CASE SupervisorDies
    BY <1>12, Distinct, BuryFacts DEF SupervisorDies, Leave, Heir, TreeTypes, GroupEnds, tree, run, sweep, supervisor
  <1>13. CASE SweepTimesOut
    BY <1>13, KillFacts DEF SweepTimesOut, TreeTypes, GroupEnds, tree, run, sweep, supervisor
  <1>14. ASSUME NEW p \in Procs,
               Escape(p) \/ Write(p) \/ CloseOutput(p) \/ (ReadStat(p) \/ ReadStatFails(p))
        PROVE  GroupEnds'
    BY <1>14 DEF Escape, Write, CloseOutput, ReadStat, ReadStatFails, GroupEnds, tree, run, sweep, supervisor,
      TreeTypes
  <1>15. CASE Report \/ GoAhead \/ List \/ ListFails \/ Wait \/ TakeCopy \/ TakeReport \/ TakeCancel \/
          CloseCtrl \/ CmdWait \/ Return \/ Copy \/ CopyEnds \/ CopyClosed \/ Deadline \/ RunnerDies
    BY <1>15 DEF Report, GoAhead, List, ListFails, Wait, TakeCopy, TakeReport, TakeCancel,
      CloseCtrl, CmdWait, Return, Copy, CopyEnds, CopyClosed, Deadline, RunnerDies, GroupEnds, tree,
      run, sweep, supervisor, TreeTypes
  <1>. QED BY <1>1, <1>2, <1>3, <1>4, <1>5, <1>6, <1>7, <1>8, <1>9, <1>10, <1>11, <1>12, <1>13,
       <1>14, <1>15 DEF Next, Processes, Kernel, Supervisor, Runner, Copier
-----------------------------------------------------------------------------
(* The tree of processes, and what a pass of the sweep sees of it.         *)

\* A set of naturals that is not empty has a least element.
LEMMA LeastNatural ==
  ASSUME NEW T \in SUBSET Nat, T # {}
  PROVE  \E n \in T : \A m \in T : n <= m
  <1>1. PICK n \in T : \A m \in T : ~(<<m, n>> \in OpToRel(<, Nat))
    BY NatLessThanWellFounded, WFMin
  <1>2. \A m, k \in Nat : <<m, k>> \in OpToRel(<, Nat) <=> m < k
    BY DEF OpToRel
  <1>3. \A m \in T : ~(m < n)
    BY <1>1, <1>2
  <1>. QED BY <1>3

\* A process alive has an ancestor, or is one, that is a child of the supervisor.
LEMMA RootIsChild ==
  ASSUME TreeTypes, Descend, NEW q \in Procs, Living(q)
  PROVE  \E p \in Procs : Child(p) /\ Living(p)
  <1>1. PICK age \in [Procs -> Nat] : Younger(age)
    BY DEF Descend
  <1> DEFINE ages == {age[p] : p \in {r \in Procs : Living(r)}}
  <1>2. ages \subseteq Nat /\ ages # {}
    OBVIOUS
  <1>3. PICK n \in ages : \A m \in ages : n <= m
    BY <1>2, LeastNatural
  <1>4. PICK p \in Procs : Living(p) /\ age[p] = n
    BY <1>3
  <1>5. parent[p] = Sup
    <2> SUFFICES ASSUME parent[p] # Sup PROVE FALSE
      OBVIOUS
    <2>1. parent[p] \in Procs /\ Living(parent[p]) /\ age[parent[p]] < age[p]
      BY <1>1, <1>4 DEF Younger
    <2>2. age[parent[p]] \in ages /\ age[parent[p]] \in Nat /\ n \in Nat
      BY <2>1, <1>2, <1>3
    <2>. QED BY <1>3, <1>4, <2>1, <2>2
  <1>. QED BY <1>4, <1>5 DEF Child, Living

\* Deaths and reaps leave the tree a tree: who loses a parent goes to the supervisor.
LEMMA DescendAfterDeaths ==
  ASSUME TreeTypes, Descend, NEW dead \in SUBSET Procs,
         \A p \in Procs : Living(p)' => Living(p),
         \A p \in Procs : Living(p) /\ p \notin dead => Living(p)',
         \A p \in Procs : parent'[p] = IF parent[p] \in dead THEN Sup ELSE parent[p]
  PROVE  Descend'
  <1>1. PICK age \in [Procs -> Nat] : Younger(age)
    BY DEF Descend
  <1>2. ASSUME NEW p \in Procs, Living(p)'
        PROVE  \/ parent'[p] = Sup
               \/ parent'[p] \in Procs /\ Living(parent[p])' /\ parent'[p] = parent[p] /\ age[parent[p]] < age[p]
    BY <1>1, <1>2 DEF Younger
  <1>3. ASSUME NEW p \in Procs, Living(p)'
        PROVE  \/ parent'[p] = Sup
               \/ /\ parent'[p] \in Procs
                  /\ state'[parent'[p]] \in {"running", "killed"}
                  /\ age[parent'[p]] < age[p]
    BY <1>2, <1>3 DEF Living
  <1>. QED BY <1>3 DEF Descend, Younger, Living

\* A process that is started is younger than the one that starts it.
LEMMA DescendAfterFork ==
  ASSUME TreeTypes, Descend, NEW p \in Procs, NEW q \in Procs, Fork(p, q)
  PROVE  Descend'
  <1>1. PICK age \in [Procs -> Nat] : Younger(age)
    BY DEF Descend
  <1> DEFINE older == [age EXCEPT ![q] = age[p] + 1]
  <1>2. older \in [Procs -> Nat] /\ \A r \in Procs : older[r] = IF r = q THEN age[p] + 1 ELSE age[r]
    OBVIOUS
  <1>3. /\ p # q /\ Living(p) /\ ~Living(q)
        /\ \A r \in Procs : state'[r] = IF r = q THEN "running" ELSE state[r]
        /\ \A r \in Procs : parent'[r] = IF r = q THEN p ELSE parent[r]
    BY DEF Fork, TreeTypes, Living
  <1> HIDE DEF older
  <1>4. ASSUME NEW r \in Procs, state'[r] \in {"running", "killed"}
        PROVE  \/ parent'[r] = Sup
               \/ /\ parent'[r] \in Procs
                  /\ state'[parent'[r]] \in {"running", "killed"}
                  /\ older[parent'[r]] < older[r]
    <2>1. CASE r = q
      BY <2>1, <1>2, <1>3 DEF Living
    <2>2. CASE r # q
      <3>1. Living(r)
        BY <1>3, <1>4, <2>2 DEF Living
      <3>2. parent[r] = Sup \/ (parent[r] \in Procs /\ Living(parent[r]) /\ age[parent[r]] < age[r])
        BY <1>1, <3>1 DEF Younger
      <3>. QED BY <1>2, <1>3, <2>2, <3>2 DEF Living
    <2>. QED BY <2>1, <2>2
  <1>. QED BY <1>2, <1>4 DEF Descend, Younger, Living

\* Every step keeps the tree a tree while there is a supervisor to inherit.
LEMMA DescendKept ==
  ASSUME TreeTypes, ProgramEnds, GroupEnds, SweepSees, Next, sup' # "gone"
  PROVE  Descend'
  <1>0. sup # "gone" /\ Descend
    BY DEF Next, Processes, Kernel, Supervisor, Runner, Copier, SweepSees, supervisor, Escape, Write,
           CloseOutput, Exit, Fork, Die, Reap, StartProgram, StartFails, Select, Report, GoAhead, List, ListFails,
           ReadStat, ReadStatFails, EndPass, KillKid, ReapAll, Reaped, Leaves, Wait, TakeCopy, TakeReport, TakeCancel, CloseCtrl,
           CmdWait, SafetyNet, Return, Copy, CopyEnds, CopyClosed, Deadline, SupervisorDies,
           SweepTimesOut, RunnerDies, Leave
  <1>1. ASSUME NEW p \in Procs, NEW q \in Procs, Fork(p, q)
        PROVE  Descend'
    BY <1>0, <1>1, DescendAfterFork
  <1>2. ASSUME NEW p \in Procs, Exit(p) \/ Die(p)
        PROVE  Descend'
    <2>1. Bury({p}, Sup)
      BY <1>0, <1>2 DEF Exit, Die, Heir
    <2>2. \A q \in Procs : state'[q] = IF q = p THEN "zombie" ELSE state[q]
      BY <1>2 DEF Exit, Die, TreeTypes
    <2>. QED BY <1>0, <2>1, <2>2, BuryFacts, DescendAfterDeaths DEF Living
  <1>3. ASSUME NEW p \in Procs, KillKid(p)
        PROVE  Descend'
    <2> DEFINE dead == {r \in {p} : state[r] = "running"} \ Stubborn
    <2>1. dead \in SUBSET Procs /\ ({p} \ Procs) \cup (({r \in {p} \cap Procs : state[r] = "running"}) \ Stubborn) = dead
      OBVIOUS
    <2>2. /\ \A q \in Procs : parent'[q] = IF parent[q] \in dead THEN Sup ELSE parent[q]
          /\ \A q \in Procs : state'[q] = IF q \in dead THEN "zombie"
                                ELSE IF q = p /\ state[p] = "running" THEN "killed" ELSE state[q]
      BY <1>3, <2>1 DEF KillKid, Kill, Bury
    <2>3. /\ \A q \in Procs : Living(q)' => Living(q)
          /\ \A q \in Procs : Living(q) /\ q \notin dead => Living(q)'
      BY <2>2 DEF Living
    <2> HIDE DEF dead
    <2>. QED BY <1>0, <2>1, <2>2, <2>3, DescendAfterDeaths
  <1>4. CASE StartProgram
    <2>1. \A q \in Procs : ~Living(q)
      BY <1>4 DEF StartProgram, SweepSees
    <2>2. \A q \in Procs : state'[q] = IF q = Program THEN "running" ELSE state[q]
      BY <1>4 DEF StartProgram, TreeTypes
    <2>3. parent'[Program] = Sup
      BY <1>4, Distinct DEF StartProgram, TreeTypes
    <2>4. \A q \in Procs : Living(q)' => parent'[q] = Sup
      BY <2>1, <2>2, <2>3 DEF Living
    <2>. QED BY <1>0, <2>4 DEF Descend, Younger, Living
  <1>5. ASSUME NEW p \in Procs, Reap(p)
        PROVE  Descend'
    <2>1. \A q \in Procs : parent'[q] = parent[q] /\ state'[q] = IF q = p THEN "gone" ELSE state[q]
      BY <1>5 DEF Reap, TreeTypes
    <2>2. state[p] = "zombie"
      BY <1>5 DEF Reap
    <2>3. /\ \A q \in Procs : Living(q)' <=> Living(q)
          /\ {} \in SUBSET Procs /\ \A q \in Procs : parent'[q] = IF parent[q] \in {} THEN Sup ELSE parent[q]
      BY <2>1, <2>2 DEF Living
    <2>. QED BY <1>0, <2>3, DescendAfterDeaths
  <1>6. CASE Wait
    <2>1. \A q \in Procs : parent'[q] = parent[q] /\ state'[q] = IF q = Program THEN "gone" ELSE state[q]
      BY <1>6 DEF Wait, TreeTypes
    <2>2. state[Program] \in {"zombie", "gone"}
      BY <1>6 DEF Wait
    <2>3. /\ \A q \in Procs : Living(q)' <=> Living(q)
          /\ {} \in SUBSET Procs /\ \A q \in Procs : parent'[q] = IF parent[q] \in {} THEN Sup ELSE parent[q]
      BY <2>1, <2>2 DEF Living
    <2>. QED BY <1>0, <2>3, DescendAfterDeaths
  <1>7. CASE ReapAll \/ EndPass
    <2>1. \A q \in Procs : parent'[q] = parent[q] /\ (state'[q] = state[q] \/ (state[q] = "zombie" /\ state'[q] = "gone"))
      BY <1>7, Distinct DEF ReapAll, EndPass, Reaped, TreeTypes
    <2>2. /\ \A q \in Procs : Living(q)' <=> Living(q)
          /\ {} \in SUBSET Procs /\ \A q \in Procs : parent'[q] = IF parent[q] \in {} THEN Sup ELSE parent[q]
      BY <2>1 DEF Living
    <2>. QED BY <1>0, <2>2, DescendAfterDeaths
  <1>8. CASE StartFails \/ Leaves \/ SupervisorDies \/ SweepTimesOut
    BY <1>8 DEF StartFails, Leaves, SupervisorDies, SweepTimesOut, Leave
  <1>9. CASE SafetyNet
    BY <1>0, <1>9 DEF SafetyNet, GroupEnds
  <1>10. ASSUME NEW p \in Procs, Escape(p) \/ Write(p) \/ CloseOutput(p) \/ (ReadStat(p) \/ ReadStatFails(p))
         PROVE  Descend'
    BY <1>0, <1>10 DEF Escape, Write, CloseOutput, ReadStat, ReadStatFails, tree, Descend, Younger, Living
  <1>11. CASE Select \/ Report \/ GoAhead \/ List \/ ListFails \/ TakeCopy \/ TakeReport \/ TakeCancel
                \/ CloseCtrl \/ CmdWait \/ Return \/ CopyEnds \/ CopyClosed \/ Deadline \/ RunnerDies
    <2>1. state' = state /\ parent' = parent
      BY <1>11 DEF Select, Report, GoAhead, List, ListFails, TakeCopy, TakeReport, TakeCancel, CloseCtrl,
                   CmdWait, Return, CopyEnds, CopyClosed, Deadline, RunnerDies, tree
    <2>. QED BY <1>0, <2>1 DEF Descend, Younger, Living
  <1>12. CASE Copy
    BY <1>0, <1>12 DEF Copy, Descend, Younger, Living
  <1>. QED
    BY <1>1, <1>2, <1>3, <1>4, <1>5, <1>6, <1>7, <1>8, <1>9, <1>10, <1>11, <1>12
    DEF Next, Processes, Kernel, Supervisor, Runner, Copier

\* Nothing comes to life but by the supervisor's start and by one alive.
LEMMA LifeComesFromLife ==
  ASSUME TreeTypes, Next, ~StartProgram, \A p \in Procs : ~Living(p)
  PROVE  \A p \in Procs : ~Living(p)'
  <1>1. ASSUME NEW p \in Procs, Escape(p) \/ Write(p) \/ CloseOutput(p) \/ Exit(p) \/ Die(p) \/ Reap(p)
                                  \/ (ReadStat(p) \/ ReadStatFails(p)) \/ (\E q \in Procs : Fork(p, q))
        PROVE  \A q \in Procs : ~Living(q)'
    BY <1>1 DEF Escape, Write, CloseOutput, Exit, Die, Reap, ReadStat, ReadStatFails, Fork, TreeTypes, Living, tree
  <1>2. (SafetyNet \/ SweepTimesOut \/ \E p \in Procs : KillKid(p)) => \A q \in Procs : ~Living(q)'
    BY KillFacts DEF SafetyNet, SweepTimesOut, KillKid, Living
  <1>3. Wait \/ ReapAll => \A q \in Procs : ~Living(q)'
    BY DEF Wait, ReapAll, Reaped, TreeTypes, Living
  <1>4. CASE StartFails \/ Select \/ Report \/ GoAhead \/ List \/ ListFails \/ EndPass \/ Leaves \/ TakeCopy \/ TakeReport
               \/ TakeCancel \/ CloseCtrl \/ CmdWait \/ Return \/ Copy \/ CopyEnds \/ CopyClosed \/ Deadline
               \/ SupervisorDies \/ RunnerDies
    BY <1>4 DEF StartFails, Select, Report, GoAhead, List, ListFails, EndPass, Reaped, Leaves, TakeCopy, TakeReport, TakeCancel,
                CloseCtrl, CmdWait, Return, Copy, CopyEnds, CopyClosed, Deadline, SupervisorDies, RunnerDies,
                tree, Living
  <1>. QED BY <1>1, <1>2, <1>3, <1>4 DEF Next, Processes, Kernel, Supervisor, Runner, Copier

\* While a pass reads, the child it has to find stays one.
LEMMA PassKept ==
  ASSUME TreeTypes, SupTypes, ProgramEnds, GroupEnds, SweepSees, Next, sup' = "read", status' = "exited", ~blind'
  PROVE  (\A p \in Procs : ~Living(p)') \/ (\E p \in scan' \cup kids' : Child(p)')
  <1>1. CASE sup # "read"
    <2>1. List
      BY <1>1
      DEF Next, Processes, Kernel, Supervisor, Runner, Copier, supervisor, Escape, Write, CloseOutput, Exit,
          Fork, Die, Reap, StartProgram, StartFails, Select, Report, GoAhead, ListFails, ReadStat, ReadStatFails, EndPass, KillKid,
          ReapAll, Reaped, NextPass, Leaves, Wait, TakeCopy, TakeReport, TakeCancel, CloseCtrl, CmdWait, SafetyNet,
          Return, Copy, CopyEnds, CopyClosed, Deadline, SupervisorDies, SweepTimesOut, RunnerDies, Leave
    <2>2. /\ scan' = {p \in Procs : state[p] \notin {"unborn", "gone"}}
          /\ state' = state /\ parent' = parent /\ Descend
      BY <2>1 DEF List, tree, SweepSees
    <2>3. CASE \A p \in Procs : ~Living(p)
      BY <2>2, <2>3 DEF Living
    <2>4. CASE \E p \in Procs : Living(p)
      <3>1. PICK p \in Procs : Child(p)
        BY <2>2, <2>4, RootIsChild
      <3>. QED BY <2>2, <3>1 DEF Child
    <2>. QED BY <2>3, <2>4
  <1>2. CASE sup = "read" /\ (\A p \in Procs : ~Living(p))
    BY <1>2, LifeComesFromLife DEF StartProgram
  <1>3. CASE sup = "read" /\ (\E p \in Procs : Living(p))
    <2>1. status = "exited" /\ waited /\ ~blind
      <3>1. status = "exited"
        BY <1>3
        DEF Next, Processes, Kernel, Supervisor, Runner, Copier, supervisor, Escape, Write, CloseOutput, Exit,
            Fork, Die, Reap, StartProgram, StartFails, Select, Report, GoAhead, List, ListFails, ReadStat, ReadStatFails,
            EndPass, KillKid, ReapAll, Leaves, Wait, TakeCopy, TakeReport, TakeCancel, CloseCtrl, CmdWait, SafetyNet,
            Return, Copy, CopyEnds, CopyClosed, Deadline, SupervisorDies, SweepTimesOut, RunnerDies
      <3>2. ~blind
        BY <1>3
        DEF Next, Processes, Kernel, Supervisor, Runner, Copier, supervisor, sweep, Escape, Write, CloseOutput, Exit,
            Fork, Die, Reap, StartProgram, StartFails, Select, Report, GoAhead, List, ListFails, ReadStat, ReadStatFails,
            EndPass, KillKid, ReapAll, Leaves, Wait, TakeCopy, TakeReport, TakeCancel, CloseCtrl, CmdWait, SafetyNet,
            Return, Copy, CopyEnds, CopyClosed, Deadline, SupervisorDies, SweepTimesOut, RunnerDies
      <3>. QED BY <3>1, <3>2 DEF ProgramEnds
    <2>2. PICK c \in scan \cup kids : Child(c)
      BY <1>3, <2>1 DEF SweepSees
    <2>3. c \in Procs
      BY <2>2 DEF SupTypes
    <2>4. ASSUME NEW p \in Procs, NEW q \in Procs, Fork(p, q)
          PROVE  Child(c)' /\ c \in scan' \cup kids'
      BY <2>2, <2>3, <2>4 DEF Fork, Child, TreeTypes, supervisor, sweep
    <2>5. ASSUME NEW p \in Procs, Exit(p) \/ Die(p)
          PROVE  Child(c)' /\ c \in scan' \cup kids'
      <3>1. Bury({p}, Sup) /\ scan' = scan /\ kids' = kids
        BY <1>3, <2>5 DEF Exit, Die, Heir, supervisor, sweep
      <3>2. parent'[c] = Sup
        BY <2>2, <2>3, <3>1, BuryFacts DEF Child
      <3>3. state'[c] \notin {"unborn", "gone"}
        BY <2>2, <2>3, <2>5 DEF Exit, Die, Child, TreeTypes
      <3>. QED BY <2>2, <3>1, <3>2, <3>3 DEF Child
    <2>6. ASSUME NEW p \in Procs, Reap(p)
          PROVE  Child(c)' /\ c \in scan' \cup kids'
      BY <2>2, <2>3, <2>6 DEF Reap, Child, TreeTypes, supervisor, sweep
    <2>7. ASSUME NEW p \in Procs, (ReadStat(p) \/ ReadStatFails(p))
          PROVE  Child(c)' /\ c \in scan' \cup kids'
      BY <2>2, <2>3, <2>7 DEF ReadStat, ReadStatFails, Child, tree
    <2>8. ASSUME NEW p \in Procs, Escape(p) \/ Write(p) \/ CloseOutput(p)
          PROVE  Child(c)' /\ c \in scan' \cup kids'
      BY <2>2, <2>8 DEF Escape, Write, CloseOutput, Child, supervisor, sweep
    <2>9. ~StartProgram /\ ~StartFails /\ ~Select /\ ~Report /\ ~GoAhead /\ ~List /\ ~ListFails /\ ~EndPass /\ ~ReapAll
            /\ ~Leaves /\ ~Wait /\ ~SafetyNet /\ ~SupervisorDies /\ ~SweepTimesOut /\ (\A p \in Procs : ~KillKid(p))
      BY <1>3, <2>1
      DEF StartProgram, StartFails, Select, Report, GoAhead, List, ListFails, EndPass, ReapAll, Reaped, Leaves, Wait, SafetyNet,
          SupervisorDies, SweepTimesOut, KillKid, Leave, GroupEnds
    <2>10. CASE TakeCopy \/ TakeReport \/ TakeCancel \/ CloseCtrl \/ CmdWait \/ Return \/ Copy \/ CopyEnds
                  \/ CopyClosed \/ Deadline \/ RunnerDies
      BY <2>2, <2>10 DEF TakeCopy, TakeReport, TakeCancel, CloseCtrl, CmdWait, Return, Copy, CopyEnds, CopyClosed,
                         Deadline, RunnerDies, tree, supervisor, sweep, Child
    <2>. QED
      BY <2>4, <2>5, <2>6, <2>7, <2>8, <2>9, <2>10 DEF Next, Processes, Kernel, Supervisor, Runner, Copier
  <1>. QED BY <1>1, <1>2, <1>3

\* A pass that could read all it listed and ends without a child has seen the whole
\* tree gone.
LEMMA PassEnds ==
  ASSUME TreeTypes, SweepSees, EndPass
  PROVE  SweptTreeIsGone'
  <1>1. CASE kids = {} /\ status = "exited" /\ ~blind
    BY <1>1 DEF EndPass, Reaped, SweepSees, SweptTreeIsGone, Living, tree
  <1>2. CASE ~(kids = {} /\ status = "exited" /\ ~blind)
    BY <1>2 DEF EndPass, Reaped, SweptTreeIsGone
  <1>. QED BY <1>1, <1>2

\* Every step keeps what the sweep sees.
LEMMA SweepSeesKept ==
  ASSUME TreeTypes, SupTypes, ProgramEnds, GroupEnds, SweepSees, Next
  PROVE  SweepSees'
  <1>1. sup' = "start" => \A p \in Procs : ~Living(p)'
    <2>1. sup' = "start" => sup = "start" /\ ~StartProgram
      BY DEF Next, Processes, Kernel, Supervisor, Runner, Copier, supervisor, Escape, Write, CloseOutput, Exit,
          Fork, Die, Reap, StartProgram, StartFails, Select, Report, GoAhead, List, ListFails, ReadStat, ReadStatFails, EndPass, KillKid,
          ReapAll, Reaped, NextPass, Leaves, Wait, TakeCopy, TakeReport, TakeCancel, CloseCtrl, CmdWait, SafetyNet,
          Return, Copy, CopyEnds, CopyClosed, Deadline, SupervisorDies, SweepTimesOut, RunnerDies, Leave
    <2>. QED BY <2>1, LifeComesFromLife DEF SweepSees
  <1>2. clean' => sup' \in {"exit", "gone"}
    BY DEF Next, Processes, Kernel, Supervisor, Runner, Copier, supervisor, Escape, Write, CloseOutput, Exit,
       Fork, Die, Reap, StartProgram, StartFails, Select, Report, GoAhead, List, ListFails, ReadStat, ReadStatFails, EndPass, KillKid,
       ReapAll, Reaped, NextPass, Leaves, Wait, TakeCopy, TakeReport, TakeCancel, CloseCtrl, CmdWait, SafetyNet,
       Return, Copy, CopyEnds, CopyClosed, Deadline, SupervisorDies, SweepTimesOut, RunnerDies, Leave, sweep, SweepSees
  <1>3. sup' # "gone" => Descend'
    BY DescendKept
  <1>4. sup' = "read" /\ status' = "exited" /\ ~blind' =>
          (\A p \in Procs : ~Living(p)') \/ (\E p \in scan' \cup kids' : Child(p)')
    BY PassKept
  <1>5. SweptTreeIsGone'
    <2>1. CASE EndPass
      BY <2>1, PassEnds
    <2>2. CASE ~EndPass
      <3>1. clean' /\ status' = "exited" /\ ~blind' =>
               clean /\ status = "exited" /\ ~blind /\ ~StartProgram
        BY <2>2 DEF Next, Processes, Kernel, Supervisor, Runner, Copier, supervisor, Escape, Write, CloseOutput, Exit,
          Fork, Die, Reap, StartProgram, StartFails, Select, Report, GoAhead, List, ListFails, ReadStat, ReadStatFails, EndPass, KillKid,
          ReapAll, Reaped, NextPass, Leaves, Wait, TakeCopy, TakeReport, TakeCancel, CloseCtrl, CmdWait, SafetyNet,
          Return, Copy, CopyEnds, CopyClosed, Deadline, SupervisorDies, SweepTimesOut, RunnerDies, Leave, sweep, SweepSees
      <3>. QED BY <3>1, LifeComesFromLife DEF SweepSees, SweptTreeIsGone
    <2>. QED BY <2>1, <2>2
  <1>. QED BY <1>1, <1>2, <1>3, <1>4, <1>5 DEF SweepSees, Child, Living

-----------------------------------------------------------------------------
\* Initially.
LEMMA InitIInv == Init => IInv
  <1> SUFFICES ASSUME Init PROVE IInv
    OBVIOUS
  <1>1. TreeTypes /\ RunTypes /\ SupTypes /\ PassesLeft
    <2>1. TreeTypes
      BY DEF Init, TreeTypes
    <2>2. RunTypes
      BY DEF Init, RunTypes
    <2>3. passes \in 0 .. MaxPasses /\ PassesLeft
      <3>1. MaxPasses \in Nat /\ MaxPasses # 0
        BY ExecContainAssumption
      <3>2. passes = 0
        BY DEF Init
      <3>. QED BY <3>1, <3>2 DEF PassesLeft
    <2>4. SupTypes
      BY <2>3 DEF Init, SupTypes
    <2>. QED BY <2>1, <2>2, <2>3, <2>4
  <1>2. ProgramEnds
    BY NoneFacts, Distinct DEF Init, ProgramEnds
  <1>3. OutputEnds
    BY NoneFacts DEF Init, OutputEnds
  <1>4. RunnerWaits /\ GroupEnds
    BY DEF Init, RunnerWaits, GroupEnds
  <1>5. \A p \in Procs : ~Living(p)
    BY DEF Init, Living
  <1>6. Descend
    <2>1. [p \in Procs |-> 0] \in [Procs -> Nat]
      OBVIOUS
    <2>. QED BY <1>5, <2>1 DEF Descend, Younger
  <1>7. SweepSees
    BY <1>5, <1>6 DEF Init, SweepSees, SweptTreeIsGone
  <1>. QED BY <1>1, <1>2, <1>3, <1>4, <1>7 DEF IInv

\* Every step keeps the invariant.
LEMMA StepIInv == IInv /\ [Next]_vars => IInv'
  <1> SUFFICES ASSUME IInv, [Next]_vars PROVE IInv'
    OBVIOUS
  <1>1. CASE Next
    <2>1. TreeTypes' /\ RunTypes' /\ SupTypes' /\ PassesLeft'
      BY <1>1, TreeTypesKept, RunTypesKept, SupTypesKept DEF IInv
    <2>2. ProgramEnds' /\ OutputEnds' /\ RunnerWaits' /\ GroupEnds'
      BY <1>1, ProgramEndsKept, OutputEndsKept, RunnerWaitsKept, GroupEndsKept DEF IInv
    <2>3. SweepSees'
      BY <1>1, SweepSeesKept DEF IInv
    <2>. QED BY <2>1, <2>2, <2>3 DEF IInv
  <1>2. CASE UNCHANGED vars
    <2>1. TreeTypes' /\ RunTypes' /\ SupTypes' /\ PassesLeft'
      <3>1. TreeTypes'
        BY <1>2 DEF IInv, vars, tree, TreeTypes
      <3>2. RunTypes'
        BY <1>2 DEF IInv, vars, run, RunTypes
      <3>3. SupTypes' /\ PassesLeft'
        BY <1>2 DEF IInv, vars, supervisor, sweep, SupTypes, PassesLeft
      <3>. QED BY <3>1, <3>2, <3>3
    <2>2. ProgramEnds' /\ OutputEnds'
      BY <1>2 DEF IInv, vars, tree, run, supervisor, sweep, ProgramEnds, OutputEnds, Cancelled
    <2>3. RunnerWaits' /\ GroupEnds'
      BY <1>2 DEF IInv, vars, tree, run, supervisor, sweep, RunnerWaits, GroupEnds
    <2>4. SweepSees'
      BY <1>2 DEF IInv, vars, tree, run, supervisor, sweep, SweepSees, SweptTreeIsGone, Descend, Younger, Living, Child
    <2>. QED BY <2>1, <2>2, <2>3, <2>4 DEF IInv
  <1>. QED BY <1>1, <1>2

\* The inductive invariant holds in every behaviour.
THEOREM IInvHolds == Spec => []IInv
  BY InitIInv, StepIInv, PTL DEF Spec

-----------------------------------------------------------------------------

\* Every variable keeps its type.
THEOREM TypeCorrect == Spec => []TypeOK
  <1>1. IInv => TypeOK
    BY TypeParts DEF IInv
  <1>. QED BY <1>1, IInvHolds, PTL

\* However the tree forks, escapes and dies while /proc is read, a pass of the sweep
\* that could read /proc and every process in it and finds no child, after the program
\* exited, has seen the whole tree gone.  Of a pass that an error blinded, which
\* childrenOf does not tell from one that found nothing, the theorem says nothing.
THEOREM SweepIsThorough == Spec => []SweptTreeIsGone
  <1>1. IInv => SweptTreeIsGone
    BY DEF IInv, SweepSees
  <1>. QED BY <1>1, IInvHolds, PTL

\* Whatever fails, the call returns only after every process that stayed in the
\* supervisor's group has been killed.
THEOREM GroupIsAlwaysKilled == Spec => []GroupIsKilled
  <1>1. IInv => GroupIsKilled
    BY DEF IInv, GroupEnds, GroupIsKilled
  <1>. QED BY <1>1, IInvHolds, PTL

\* Unless it is stopped or its supervisor is killed, a call lets the program exit
\* and its output end before anything is killed.
THEOREM NothingIsCutShort == Spec => []NotCutShort
  <1>1. IInv => NotCutShort
    <2> SUFFICES ASSUME IInv, CtrlClosed, ~stopNow, runner # "dead", verdict # "signal"
                 PROVE  holders = {} /\ ~unread /\ ~Living(Program)
      BY DEF NotCutShort
    <2>1. copyEnded /\ exited
      BY DEF IInv, RunnerWaits, CtrlClosed
    <2>2. holders = {} /\ ~unread
      BY <2>1 DEF IInv, OutputEnds
    <2>3. status # None
      BY <2>1 DEF IInv, RunnerWaits
    <2>4. state[Program] \in {"gone", "unborn"}
      BY <2>3 DEF IInv, ProgramEnds, SupTypes
    <2>. QED BY <2>2, <2>4 DEF Living
  <1>. QED BY <1>1, IInvHolds, PTL

\* exec succeeds only with the whole output of a program that ended with zero.
THEOREM SuccessMeansWhole == Spec => []SuccessIsWhole
  <1>1. IInv => SuccessIsWhole
    BY DEF IInv, OutputEnds, SuccessIsWhole
  <1>. QED BY <1>1, IInvHolds, PTL
=============================================================================
