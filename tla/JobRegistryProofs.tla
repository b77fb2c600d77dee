------------------------- MODULE JobRegistryProofs -------------------------
(***************************************************************************)
(* The safety properties of the job registry hold for any number of jobs,  *)
(* listers, cancellers and taggers, whatever is killed at whatever moment. *)
(***************************************************************************)
EXTENDS JobRegistry, TLAPS

-----------------------------------------------------------------------------
(* The inductive invariant *)

Over(j)     == sup[j] \in {"ending", "failing", "gone"}
OverNext(j) == sup'[j] \in {"ending", "failing", "gone"}

\* What a job leaves on the disk or in the hands of a process, it leaves after
\* its supervisor has begun.
BegunBefore ==
    /\ \A j \in Jobs : record[j] # Missing \/ temp[j] # Missing => sup[j] # "new"
    /\ \A p \in Processes : op[p] # Idle => sup[op[p].job] # "new"

\* A status that says that a job is over, in its file, in the temporary file or
\* on its way there, is never ahead of the job.
NoEarlyEnd ==
    /\ \A j \in Jobs : temp[j] \in Terminal => Over(j)
    /\ \A p \in Processes :
          op[p] # Idle /\ op[p].status \in Terminal => Over(op[p].job)

\* From the moment at which it reports that it runs, until its command has
\* ended, nobody but an exclusive job has taken the lock.
NeedsGpu(j) == cmd[j] = "running" \/ sup[j] \in {"starting", "ready", "running"}

GpuIsHeld == \A j \in Exclusive : NeedsGpu(j) => gpu = j

JobInv == TypeOK /\ BegunBefore /\ NoEarlyEnd /\ TerminalMeansOver

-----------------------------------------------------------------------------
(* Types *)

LEMMA InitLemma == Init => JobInv /\ GpuIsHeld
BY JobAssumption DEF Init, JobInv, TypeOK, BegunBefore, NoEarlyEnd, TerminalMeansOver,
   GpuIsHeld, NeedsGpu, Idle, Terminal, Missing, Processes, Callers, Statuses, Alive, Over

LEMMA ProcessLemma ==
    /\ \A j \in Jobs : j \in Processes /\ j \notin Callers
    /\ \A p \in Callers : p \in Processes /\ p \notin Jobs
    /\ Listers \subseteq Callers /\ Cancellers \subseteq Callers /\ Taggers \subseteq Callers
BY JobAssumption DEF Processes, Callers

\* What a process does to a record, as long as it does anything.
Work == [job : Jobs, status : Statuses, at : {"read", "loaded", "written"}]

LEMMA WorkLemma ==
  ASSUME TypeOK, NEW p \in Processes, op[p].at # "idle"
  PROVE  /\ op[p] # Idle /\ op[p] \in Work
         /\ op[p].job \in Jobs /\ op[p].status \in Statuses
         /\ p \in Jobs => op[p].job = p
BY DEF TypeOK, Idle, Work

LEMMA DoingLemma ==
  ASSUME NEW j \in Jobs, NEW s \in Statuses, NEW a \in {"read", "loaded", "written"}
  PROVE  /\ Doing(j, s, a) \in Work /\ Doing(j, s, a) # Idle
         /\ Doing(j, s, a).job = j /\ Doing(j, s, a).status = s /\ Doing(j, s, a).at = a
BY JobAssumption DEF Doing, Work, Idle

LEMMA TypeLemma == TypeOK /\ [Next]_vars => TypeOK'
<1> SUFFICES ASSUME TypeOK, [Next]_vars PROVE TypeOK'
  OBVIOUS
<1> USE JobAssumption, ProcessLemma DEF TypeOK, Alive
<1>1. ASSUME NEW p \in Processes, WriteTemp(p) PROVE TypeOK'
  BY <1>1, WorkLemma DEF WriteTemp, Idle, Work
<1>2. ASSUME NEW p \in Processes, Rename(p) PROVE TypeOK'
  BY <1>2, WorkLemma DEF Rename, Idle, AfterSave, Missing
<1>3. ASSUME NEW j \in Jobs, Register(j) PROVE TypeOK'
  BY <1>3, DoingLemma DEF Register, Update, Statuses, Work, Idle
<1>4. ASSUME NEW j \in Jobs, LockGpu(j) PROVE TypeOK'
  BY <1>4 DEF LockGpu, MayLock
<1>5. ASSUME NEW j \in Jobs, ReportRunning(j) PROVE TypeOK'
  BY <1>5, DoingLemma DEF ReportRunning, Update, Statuses, Work
<1>6. ASSUME NEW j \in Jobs, WaitRunsOut(j) PROVE TypeOK'
  BY <1>6, DoingLemma DEF WaitRunsOut, Update, Statuses, Terminal, Work
<1>7. ASSUME NEW j \in Jobs, PreparationFails(j) PROVE TypeOK'
  BY <1>7 DEF PreparationFails
<1>8. ASSUME NEW j \in Jobs, RunCommand(j) PROVE TypeOK'
  BY <1>8 DEF RunCommand
<1>9. ASSUME NEW j \in Jobs, CommandEnds(j) PROVE TypeOK'
  BY <1>9 DEF CommandEnds
<1>10. ASSUME NEW j \in Jobs, LeaveDone(j) PROVE TypeOK'
  BY <1>10 DEF LeaveDone
<1>11. ASSUME NEW j \in Jobs, ReportEnd(j) PROVE TypeOK'
  <2>1. PICK s \in {"done", "failed"} : Update(j, "ending", s)
    BY <1>11 DEF ReportEnd
  <2> QED
    BY <1>11, <2>1, DoingLemma DEF ReportEnd, Update, Statuses, Terminal, Work
<1>12. ASSUME NEW j \in Jobs, SupervisorIsKilled(j) \/ LauncherGivesUp(j) PROVE TypeOK'
  BY <1>12 DEF SupervisorIsKilled, LauncherGivesUp, Dies
<1>13. ASSUME NEW p \in Listers \cup Cancellers, NEW j \in Jobs, ReadRecord(p, j) PROVE TypeOK'
  BY <1>13, DoingLemma DEF ReadRecord, Active, Work
<1>14. ASSUME NEW p \in Listers, Refresh(p) PROVE TypeOK'
  BY <1>14, DoingLemma, WorkLemma DEF Refresh, Statuses, Terminal, Work, Idle
<1>15. ASSUME NEW p \in Cancellers, Cancel(p) PROVE TypeOK'
  <2> DEFINE j == op[p].job
             doing == Doing(j, "cancelled", "loaded")
  <2>1. /\ j \in Jobs /\ p \in Processes /\ p \notin Jobs
        /\ doing \in Work
    BY <1>15, DoingLemma, WorkLemma DEF Cancel, Statuses, Terminal
  <2>2. UNCHANGED <<record, temp, doneFile, gpu, tags>>
    BY <1>15 DEF Cancel
  <2>3. CASE SignalGroup(j) /\ op' = [[op EXCEPT ![p] = doing] EXCEPT ![j] = Idle]
    <3> HIDE DEF doing, j
    <3>1. /\ sup' = [sup EXCEPT ![j] = "gone"]
          /\ cmd' = cmd \/ cmd' = [cmd EXCEPT ![j] = "erred"]
      BY <2>3 DEF SignalGroup, Dies
    <3>2. \A i \in Jobs : op'[i] = IF i = j THEN Idle ELSE op[i]
      BY <2>1, <2>3
    <3>3. \A i \in Processes :
             op'[i] \in {Idle, doing, op[i]}
      BY <2>1, <2>3
    <3>4. op' \in [Processes -> {Idle} \cup Work]
      BY <2>1, <2>3, <3>3 DEF Work
    <3> QED BY <2>1, <2>2, <3>1, <3>2, <3>4 DEF Work
  <2>4. CASE op' = [op EXCEPT ![p] = doing] /\ UNCHANGED <<sup, cmd>>
    <3> HIDE DEF doing, j
    <3> QED BY <2>1, <2>2, <2>4 DEF Work
  <2> QED BY <1>15, <2>3, <2>4 DEF Cancel
<1>16. ASSUME NEW p \in Taggers, NEW j \in Jobs, Tag(p, j) PROVE TypeOK'
  BY <1>16, DoingLemma DEF Tag, Statuses, Work
<1>17. CASE UNCHANGED vars
  BY <1>17 DEF vars
<1> QED
  BY <1>1, <1>2, <1>3, <1>4, <1>5, <1>6, <1>7, <1>8, <1>9, <1>10, <1>11, <1>12, <1>13,
     <1>14, <1>15, <1>16, <1>17 DEF Next, SupervisorStep

-----------------------------------------------------------------------------
(* What a record says of a job *)

\* A supervisor that has begun never begins again, and one that has no more to
\* do than to report the end goes on to nothing else.
LEMMA SupervisorLemma ==
  ASSUME TypeOK, BegunBefore, [Next]_vars, NEW j \in Jobs
  PROVE  /\ sup[j] # "new" => sup'[j] # "new"
         /\ Over(j) => OverNext(j)
<1> USE JobAssumption, ProcessLemma DEF TypeOK, Over, OverNext
<1>1. ASSUME NEW p \in Processes, Rename(p)
      PROVE  (sup[j] # "new" => sup'[j] # "new") /\ (Over(j) => OverNext(j))
  BY <1>1 DEF Rename, AfterSave
<1>2. ASSUME NEW i \in Jobs,
             \/ Register(i) \/ ReportRunning(i) \/ WaitRunsOut(i) \/ PreparationFails(i)
             \/ RunCommand(i) \/ ReportEnd(i) \/ SupervisorIsKilled(i) \/ LauncherGivesUp(i)
      PROVE  (sup[j] # "new" => sup'[j] # "new") /\ (Over(j) => OverNext(j))
  BY <1>2 DEF Register, ReportRunning, WaitRunsOut, PreparationFails, RunCommand, ReportEnd,
     SupervisorIsKilled, LauncherGivesUp, Update, Dies
<1>3. ASSUME NEW p \in Cancellers, Cancel(p)
      PROVE  (sup[j] # "new" => sup'[j] # "new") /\ (Over(j) => OverNext(j))
  BY <1>3, WorkLemma DEF Cancel, SignalGroup, Dies
<1>4. CASE UNCHANGED sup
  BY <1>4
<1> QED
  BY <1>1, <1>2, <1>3, <1>4 DEF Next, SupervisorStep, WriteTemp, LockGpu, CommandEnds, LeaveDone,
     ReadRecord, Refresh, Tag, vars

\* Whatever is at work on a record, on its way to it or in it, is either what
\* was there before, or fit for the job.
Fit(j, s) == sup'[j] # "new" /\ (s \in Terminal => OverNext(j))

LEMMA StatusLemma ==
  ASSUME JobInv, [Next]_vars
  PROVE  /\ \A j \in Jobs : record'[j] # Missing => Fit(j, record'[j])
         /\ \A j \in Jobs : temp'[j] # Missing => Fit(j, temp'[j])
         /\ \A p \in Processes : op'[p] # Idle => Fit(op'[p].job, op'[p].status)
<1> DEFINE FilesFit == /\ \A j \in Jobs : record'[j] # Missing => Fit(j, record'[j])
                       /\ \A j \in Jobs : temp'[j] # Missing => Fit(j, temp'[j])
           WorkFits == \A p \in Processes : op'[p] # Idle => Fit(op'[p].job, op'[p].status)
<1> USE JobAssumption, ProcessLemma
<1>1. TypeOK /\ BegunBefore /\ NoEarlyEnd /\ TerminalMeansOver
  BY DEF JobInv
<1>2. /\ \A j \in Jobs : record[j] # Missing => Fit(j, record[j])
      /\ \A j \in Jobs : temp[j] # Missing => Fit(j, temp[j])
  BY <1>1, SupervisorLemma DEF BegunBefore, NoEarlyEnd, TerminalMeansOver, Fit, Over, OverNext
<1>3. \A p \in Processes : op[p] # Idle => op[p].job \in Jobs /\ Fit(op[p].job, op[p].status)
  <2> SUFFICES ASSUME NEW p \in Processes, op[p] # Idle
               PROVE  op[p].job \in Jobs /\ Fit(op[p].job, op[p].status)
    OBVIOUS
  <2>1. op[p].job \in Jobs
    BY <1>1 DEF TypeOK
  <2> QED BY <1>1, <2>1, SupervisorLemma DEF BegunBefore, NoEarlyEnd, Fit
<1>4. ASSUME NEW q \in Processes, NEW w, op' = [op EXCEPT ![q] = w],
             w # Idle => Fit(w.job, w.status)
      PROVE  WorkFits
  BY <1>1, <1>3, <1>4 DEF TypeOK
<1>5. ASSUME NEW p \in Processes, WriteTemp(p) PROVE FilesFit /\ WorkFits
  <2>1. op[p] # Idle /\ op[p].job \in Jobs /\ op[p] \in Work
    BY <1>1, <1>5, WorkLemma DEF WriteTemp
  <2>2. FilesFit
    BY <1>1, <1>2, <1>3, <1>5, <2>1 DEF WriteTemp, TypeOK
  <2>3. op' = [op EXCEPT ![p] = [op[p] EXCEPT !.at = "written"]]
    BY <1>5 DEF WriteTemp
  <2>4. PICK w : w = [op[p] EXCEPT !.at = "written"]
    OBVIOUS
  <2>5. w.job = op[p].job /\ w.status = op[p].status
    BY <2>1, <2>4 DEF Work
  <2>6. WorkFits
    BY <1>3, <1>4, <2>1, <2>3, <2>4, <2>5
  <2> QED BY <2>2, <2>6
<1>6. ASSUME NEW p \in Processes, Rename(p) PROVE FilesFit /\ WorkFits
  <2>1. op[p] # Idle /\ op[p].job \in Jobs
    BY <1>1, <1>6, WorkLemma DEF Rename
  <2>2. FilesFit
    BY <1>1, <1>2, <1>6, <2>1 DEF Rename, TypeOK
  <2> QED BY <1>4, <1>6, <2>2 DEF Rename
<1>7. ASSUME NEW j \in Jobs, NEW next, NEW s \in Statuses, Update(j, next, s), next # "new",
             s \in Terminal => next \in {"ending", "failing", "gone"},
             UNCHANGED <<record, temp>>
      PROVE  FilesFit /\ WorkFits
  <2>1. Fit(j, s)
    BY <1>1, <1>7 DEF Update, TypeOK, Fit, OverNext
  <2>2. WorkFits
    <3>1. op' = [op EXCEPT ![j] = Doing(j, s, "loaded")]
      BY <1>7 DEF Update
    <3>2. Fit(Doing(j, s, "loaded").job, Doing(j, s, "loaded").status)
      BY <2>1 DEF Doing, Fit, OverNext
    <3> QED BY <1>4, <3>1, <3>2
  <2> QED BY <1>2, <1>7, <2>2
<1>8. ASSUME NEW j \in Jobs,
             Register(j) \/ ReportRunning(j) \/ WaitRunsOut(j) \/ ReportEnd(j)
      PROVE  FilesFit /\ WorkFits
  <2>1. \/ Update(j, "registering", "waiting") \/ Update(j, "starting", "running")
        \/ Update(j, "failing", "failed")
        \/ Update(j, "ending", "done") \/ Update(j, "ending", "failed")
    BY <1>8 DEF Register, ReportRunning, WaitRunsOut, ReportEnd
  <2>2. UNCHANGED <<record, temp>>
    BY <1>8 DEF Register, ReportRunning, WaitRunsOut, ReportEnd
  <2> QED BY <1>7, <2>1, <2>2 DEF Statuses, Terminal
<1>9. ASSUME NEW j \in Jobs, SupervisorIsKilled(j) \/ LauncherGivesUp(j)
      PROVE  FilesFit /\ WorkFits
  <2>1. CASE SupervisorIsKilled(j)
    BY <1>2, <1>3, <2>1 DEF SupervisorIsKilled
  <2>2. CASE LauncherGivesUp(j)
    BY <1>2, <1>4, <2>2 DEF LauncherGivesUp
  <2> QED BY <1>9, <2>1, <2>2
<1>10. ASSUME NEW p \in Listers \cup Cancellers, NEW j \in Jobs, ReadRecord(p, j)
       PROVE  FilesFit /\ WorkFits
  <2>1. record[j] \in Statuses \ Terminal
    BY <1>1, <1>10 DEF ReadRecord, Active, TypeOK
  <2>2. Doing(j, record[j], "read").job = j /\ Doing(j, record[j], "read").status = record[j]
    BY DEF Doing
  <2> QED BY <1>2, <1>4, <1>10, <2>1, <2>2 DEF ReadRecord, Active
<1>11. ASSUME NEW p \in Listers, Refresh(p) PROVE FilesFit /\ WorkFits
  <2> DEFINE j == op[p].job
  <2>1. op[p] # Idle /\ j \in Jobs /\ sup[j] # "new"
    BY <1>1, <1>11, WorkLemma DEF Refresh, BegunBefore
  <2>2. UNCHANGED <<record, temp, sup>>
    BY <1>11 DEF Refresh
  <2>3. CASE IsAbandoned(op[p])
    <3>1. PICK s : op' = [op EXCEPT ![p] = Doing(j, s, "loaded")]
      BY <1>11, <2>3 DEF Refresh
    <3>2. OverNext(j) /\ Doing(j, s, "loaded").job = j
      BY <1>1, <2>1, <2>2, <2>3 DEF IsAbandoned, Alive, OverNext, TypeOK, Doing
    <3>3. Fit(j, Doing(j, s, "loaded").status)
      BY <2>1, <2>2, <3>2 DEF Fit
    <3> QED BY <1>2, <1>4, <2>2, <3>1, <3>2, <3>3
  <2>4. CASE ~IsAbandoned(op[p])
    BY <1>2, <1>4, <1>11, <2>2, <2>4 DEF Refresh
  <2> QED BY <2>3, <2>4
<1>12. ASSUME NEW p \in Cancellers, Cancel(p) PROVE FilesFit /\ WorkFits
  <2> DEFINE j == op[p].job
             doing == Doing(j, "cancelled", "loaded")
  <2>1. /\ op[p] # Idle /\ j \in Jobs /\ sup[j] # "new" /\ p # j
        /\ UNCHANGED <<record, temp>>
    BY <1>1, <1>12, WorkLemma DEF Cancel, BegunBefore
  <2>2. OverNext(j)
    BY <1>1, <1>12, <2>1 DEF Cancel, SignalGroup, Dies, Alive, OverNext, TypeOK
  <2>3. doing.job = j /\ Fit(j, doing.status)
    BY <2>2 DEF Doing, Fit, OverNext
  <2>4. \A q \in Processes : op'[q] \in {Idle, doing, op[q]}
    <3> HIDE DEF doing, j
    <3> QED BY <1>1, <1>12, <2>1 DEF Cancel, TypeOK, j, doing
  <2> HIDE DEF doing, j
  <2> QED BY <1>2, <1>3, <2>1, <2>3, <2>4
<1>13. ASSUME NEW p \in Taggers, NEW j \in Jobs, Tag(p, j) PROVE FilesFit /\ WorkFits
  <2>1. PICK s : /\ op' = [op EXCEPT ![p] = Doing(j, s, "loaded")]
                 /\ s = record[j] \/ s = "running"
    BY <1>13 DEF Tag
  <2>2. record[j] # Missing /\ UNCHANGED <<record, temp, sup>>
    BY <1>13 DEF Tag
  <2>3. Doing(j, s, "loaded").job = j /\ Doing(j, s, "loaded").status = s
    BY DEF Doing
  <2>4. Fit(j, s)
    BY <1>2, <2>1, <2>2 DEF Fit, Terminal
  <2> QED BY <1>2, <1>4, <2>1, <2>2, <2>3, <2>4
<1>14. CASE UNCHANGED <<record, temp, op>>
  BY <1>2, <1>3, <1>14
<1> QED
  BY <1>5, <1>6, <1>8, <1>9, <1>10, <1>11, <1>12, <1>13, <1>14
     DEF Next, SupervisorStep, LockGpu, RunCommand, PreparationFails, CommandEnds, LeaveDone, vars

LEMMA InvariantLemma == JobInv /\ [Next]_vars => JobInv'
<1> SUFFICES ASSUME JobInv, [Next]_vars PROVE JobInv'
  OBVIOUS
<1>1. TypeOK'
  BY TypeLemma DEF JobInv
<1>2. BegunBefore'
  BY StatusLemma DEF BegunBefore, Fit
<1>3. NoEarlyEnd'
  BY StatusLemma DEF NoEarlyEnd, Fit, Over, OverNext, Terminal, Missing
<1>4. TerminalMeansOver'
  BY StatusLemma DEF TerminalMeansOver, Fit, OverNext, Terminal, Missing
<1> QED BY <1>1, <1>2, <1>3, <1>4 DEF JobInv

\* The files, the processes and what is under way between them are well formed
\* in every reachable state.
THEOREM RegistryTypes == Spec => []TypeOK
<1>1. Spec => []JobInv
  BY InitLemma, InvariantLemma, PTL DEF Spec
<1>2. JobInv => TypeOK
  BY DEF JobInv
<1> QED BY <1>1, <1>2, PTL

\* No record says that a job is over before its supervisor has nothing left to
\* do, however many processes write to the records at once.
THEOREM EndsAreReal == Spec => []TerminalMeansOver
<1>1. Spec => []JobInv
  BY InitLemma, InvariantLemma, PTL DEF Spec
<1>2. JobInv => TerminalMeansOver
  BY DEF JobInv
<1> QED BY <1>1, <1>2, PTL

-----------------------------------------------------------------------------
(* The GPU *)

\* Whoever needs the GPU keeps the lock until it needs it no more.
LEMMA GpuLemma == TypeOK /\ GpuIsHeld /\ [Next]_vars => GpuIsHeld'
<1> SUFFICES ASSUME TypeOK, GpuIsHeld, [Next]_vars, NEW k \in Exclusive, NeedsGpu(k)'
             PROVE  gpu' = k
  BY DEF GpuIsHeld
<1> USE JobAssumption, ProcessLemma DEF TypeOK
<1>1. ASSUME NEW j \in Jobs, LockGpu(j) PROVE gpu' = k
  <2>1. NeedsGpu(k) /\ gpu = k
    BY <1>1 DEF LockGpu, NeedsGpu, GpuIsHeld
  <2>2. Holds(k)
    BY <2>1 DEF NeedsGpu, Holds, Alive
  <2> QED BY <1>1, <2>1, <2>2 DEF LockGpu, MayLock, GpuIsFree
<1>2. ASSUME NEW j \in Jobs, ReportRunning(j) PROVE gpu' = k
  BY <1>2 DEF ReportRunning, Update, GpuIsHeld, NeedsGpu
<1>3. ASSUME NEW j \in Jobs, RunCommand(j) PROVE gpu' = k
  BY <1>3 DEF RunCommand, GpuIsHeld, NeedsGpu
<1>4. ASSUME NEW p \in Processes, Rename(p) PROVE gpu' = k
  BY <1>4 DEF Rename, AfterSave, GpuIsHeld, NeedsGpu
<1>5. CASE NeedsGpu(k)' => NeedsGpu(k) /\ UNCHANGED gpu
  BY <1>5 DEF GpuIsHeld
<1>6. ASSUME NEW j \in Jobs,
             \/ Register(j) \/ WaitRunsOut(j) \/ PreparationFails(j) \/ CommandEnds(j)
             \/ LeaveDone(j) \/ ReportEnd(j) \/ SupervisorIsKilled(j) \/ LauncherGivesUp(j)
      PROVE gpu' = k
  BY <1>6, <1>5 DEF Register, WaitRunsOut, PreparationFails, CommandEnds, LeaveDone, ReportEnd,
     SupervisorIsKilled, LauncherGivesUp, Update, Dies, NeedsGpu
<1>7. ASSUME NEW p \in Cancellers, Cancel(p) PROVE gpu' = k
  BY <1>7, <1>5, WorkLemma DEF Cancel, SignalGroup, Dies, NeedsGpu
<1>8. CASE UNCHANGED <<gpu, sup, cmd>>
  BY <1>8, <1>5 DEF NeedsGpu
<1> QED
  BY <1>1, <1>2, <1>3, <1>4, <1>6, <1>7, <1>8
     DEF Next, SupervisorStep, WriteTemp, ReadRecord, Refresh, Tag, vars

\* Two exclusive jobs never run their commands at the same time, even when a
\* command outlives its supervisor.
THEOREM OneOnTheGpu == Spec => []GpuExclusive
<1>1. Spec => [](TypeOK /\ GpuIsHeld)
  <2>1. Init => TypeOK /\ GpuIsHeld
    BY InitLemma DEF JobInv
  <2>2. TypeOK /\ GpuIsHeld /\ [Next]_vars => TypeOK' /\ GpuIsHeld'
    BY TypeLemma, GpuLemma
  <2> QED BY <2>1, <2>2, PTL DEF Spec
<1>2. GpuIsHeld => GpuExclusive
  BY DEF GpuIsHeld, GpuExclusive, NeedsGpu
<1> QED BY <1>1, <1>2, PTL

=============================================================================
