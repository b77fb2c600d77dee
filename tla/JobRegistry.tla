---------------------------- MODULE JobRegistry ----------------------------
(***************************************************************************)
(* The job registry (emet/utils/job_registry.py) and the supervisor script *)
(* that `emet jobs run` writes for every job (emet/cli_cmds/jobs.py).      *)
(*                                                                         *)
(* A job is a record in a file, a supervisor (bash) and the command it     *)
(* runs.  Nothing guards a record: the supervisor, people who tag the job  *)
(* or report its progress, listers that notice dead supervisors and people *)
(* who cancel all load it, change it and write it back, through one        *)
(* temporary file per job that they share.  What is guarded is the GPU: a  *)
(* host-wide flock, held by whoever holds the file descriptor the          *)
(* supervisor opened and the command inherited.                            *)
(*                                                                         *)
(* A record is reduced to its status; a write of the temporary file is one *)
(* step, so a file half written is not represented.                        *)
(***************************************************************************)
EXTENDS Naturals

CONSTANTS
    Jobs,
    Waits,       \* job |-> the jobs its --wait-pid prerequisites supervise
    Exclusive,   \* the jobs that take the GPU lock
    Listers,     \* processes that run `jobs list` and `jobs status`
    Cancellers,  \* processes that run `jobs cancel`
    Taggers,     \* processes that run `jobs update` on another's job
    MaxTags,     \* bound: calls the taggers make
    Killable,    \* supervisors that may be killed from outside
    Impatient,   \* whether a bounded wait may run out
    None

ASSUME JobAssumption ==
    /\ Waits \in [Jobs -> SUBSET Jobs]
    /\ Exclusive \subseteq Jobs
    /\ Killable \subseteq Jobs
    /\ None \notin Jobs
    /\ Jobs \cap (Listers \cup Cancellers \cup Taggers) = {}
    /\ MaxTags \in Nat
    /\ Impatient \in BOOLEAN

Callers == Listers \cup Cancellers \cup Taggers

Processes == Jobs \cup Callers   \* a supervisor is named by its job

Terminal == {"done", "failed", "cancelled"}

Statuses == {"waiting", "running"} \cup Terminal

Missing == "missing"             \* no such file

VARIABLES
    record,     \* the status in <job>.json
    temp,       \* the status in <job>.json.tmp
    doneFile,   \* whether the command has left DONE in its output directory
    sup,        \* where the supervisor is
    cmd,        \* the command
    gpu,        \* the job whose descriptor took the lock last
    op,         \* what each process is doing to a record
    tags        \* calls of the taggers so far

vars == <<record, temp, doneFile, sup, cmd, gpu, op, tags>>

Idle == [job |-> None, status |-> Missing, at |-> "idle"]

Doing(j, s, a) == [job |-> j, status |-> s, at |-> a]

\* A supervisor is past "gone" only; "new" ones have no process yet.
Alive(j) == sup[j] \notin {"new", "gone"}

\* Fault: the lock does not outlive the supervisor.
HoldsWhileSupervised(j) == Alive(j)

\* The descriptor of the lock is closed when nobody who inherited it is left:
\* the supervisor, its command and the program that updates its record.
Holds(j) == Alive(j) \/ cmd[j] = "running" \/ op[j] # Idle

GpuIsFree == gpu # None => ~Holds(gpu)

Init ==
    /\ record = [j \in Jobs |-> Missing]
    /\ temp = [j \in Jobs |-> Missing]
    /\ doneFile = [j \in Jobs |-> FALSE]
    /\ sup = [j \in Jobs |-> "new"]
    /\ cmd = [j \in Jobs |-> "none"]
    /\ gpu = None
    /\ op = [p \in Processes |-> Idle]
    /\ tags = 0

-----------------------------------------------------------------------------
(* Writing a record: save_job writes the temporary file and renames it.    *)

\* What comes after a save of the supervisor: its script stops at a failure
\* (set -e), and at the end of a job that timed out or is over.
AfterSave(s, saved) ==
    CASE saved /\ s = "registering" -> "waiting"
      [] saved /\ s = "starting" -> "ready"
      [] OTHER -> "gone"

WriteTemp(p) ==
    /\ op[p].at = "loaded"
    /\ temp' = [temp EXCEPT ![op[p].job] = op[p].status]
    /\ op' = [op EXCEPT ![p].at = "written"]
    /\ UNCHANGED <<record, doneFile, sup, cmd, gpu, tags>>

\* Whoever renames first publishes what was written last; the other one finds
\* no temporary file, and raises.
Rename(p) ==
    LET j == op[p].job
        saved == temp[j] # Missing
    IN  /\ op[p].at = "written"
        /\ record' = IF saved THEN [record EXCEPT ![j] = temp[j]] ELSE record
        /\ temp' = [temp EXCEPT ![j] = Missing]
        /\ op' = [op EXCEPT ![p] = Idle]
        /\ sup' = IF p \in Jobs
                  THEN [sup EXCEPT ![p] = AfterSave(@, saved)] ELSE sup
        /\ UNCHANGED <<doneFile, cmd, gpu, tags>>

-----------------------------------------------------------------------------
(* The supervisor.                                                         *)

\* The supervisor runs "emet jobs register" or "emet jobs update" and waits for
\* it: a process of its own, that loads the record, which exists, and saves it.
Update(j, next, s) ==
    /\ sup' = [sup EXCEPT ![j] = next]
    /\ op' = [op EXCEPT ![j] = Doing(j, s, "loaded")]

\* A prerequisite is the pid of a process that exists when the job is launched.
Register(j) ==
    /\ sup[j] = "new"
    /\ \A w \in Waits[j] : sup[w] # "new"
    /\ Update(j, "registering", "waiting")
    /\ UNCHANGED <<record, temp, doneFile, cmd, gpu, tags>>

PrerequisitesAreOver(j) == \A w \in Waits[j] : ~Alive(w)

\* Fault: the lock is taken before the prerequisites are waited for.
LocksFirst(j) == sup[j] = "waiting" /\ gpu # j /\ GpuIsFree

MayLock(j) == sup[j] = "waiting" /\ PrerequisitesAreOver(j) /\ GpuIsFree

LockGpu(j) ==
    /\ j \in Exclusive
    /\ MayLock(j)
    /\ gpu' = j
    /\ UNCHANGED <<record, temp, doneFile, sup, cmd, op, tags>>

\* "jobs update --status running", once everything waited for has come.
ReportRunning(j) ==
    /\ sup[j] = "waiting"
    /\ PrerequisitesAreOver(j)
    /\ j \in Exclusive => gpu = j
    /\ Update(j, "starting", "running")
    /\ UNCHANGED <<record, temp, doneFile, cmd, gpu, tags>>

\* A wait for a prerequisite or for the lock runs out: the job is failed.
WaitRunsOut(j) ==
    /\ Impatient
    /\ sup[j] = "waiting"
    /\ gpu # j
    /\ ~PrerequisitesAreOver(j) \/ (j \in Exclusive /\ ~GpuIsFree)
    /\ Update(j, "failing", "failed")
    /\ UNCHANGED <<record, temp, doneFile, cmd, gpu, tags>>

\* Memory never becomes free, or the processors cannot be pinned: the script
\* stops, and the record is left as it is.
PreparationFails(j) ==
    /\ Impatient
    /\ sup[j] = "waiting"
    /\ PrerequisitesAreOver(j)
    /\ j \in Exclusive => gpu = j
    /\ sup' = [sup EXCEPT ![j] = "gone"]
    /\ UNCHANGED <<record, temp, doneFile, cmd, gpu, op, tags>>

RunCommand(j) ==
    /\ sup[j] = "ready"
    /\ sup' = [sup EXCEPT ![j] = "running"]
    /\ cmd' = [cmd EXCEPT ![j] = "running"]
    /\ UNCHANGED <<record, temp, doneFile, gpu, op, tags>>

\* The command ends, well or not, and an orphan as well as another.
CommandEnds(j) ==
    /\ cmd[j] = "running"
    /\ \E outcome \in {"succeeded", "erred"} :
          cmd' = [cmd EXCEPT ![j] = outcome]
    /\ UNCHANGED <<record, temp, doneFile, sup, gpu, op, tags>>

\* Commands that keep a DONE file leave it when their work is complete.
LeaveDone(j) ==
    /\ cmd[j] = "running"
    /\ doneFile' = [doneFile EXCEPT ![j] = TRUE]
    /\ UNCHANGED <<record, temp, sup, cmd, gpu, op, tags>>

ReportEnd(j) ==
    /\ sup[j] = "running"
    /\ cmd[j] # "running"
    /\ Update(j, "ending", IF cmd[j] = "succeeded" THEN "done" ELSE "failed")
    /\ UNCHANGED <<record, temp, doneFile, cmd, gpu, tags>>

Dies(j) == sup' = [sup EXCEPT ![j] = "gone"]

\* It is killed alone (out of memory, by hand): its command goes on, and so does
\* the program that was updating the record, which will still be saved.
SupervisorIsKilled(j) ==
    /\ j \in Killable
    /\ Alive(j)
    /\ Dies(j)
    /\ UNCHANGED <<record, temp, doneFile, cmd, gpu, op, tags>>

\* The launcher waits ten seconds for the record, and kills the supervisor with
\* everything in its group: the registration it was making is never finished.
LauncherGivesUp(j) ==
    /\ Impatient
    /\ sup[j] = "registering"
    /\ record[j] = Missing
    /\ Dies(j)
    /\ op' = [op EXCEPT ![j] = Idle]
    /\ UNCHANGED <<record, temp, doneFile, cmd, gpu, tags>>

-----------------------------------------------------------------------------
(* Listers: refresh_job_liveness on a record that was loaded before.       *)

Active(j) == record[j] \notin Terminal \cup {Missing}

ReadRecord(p, j) ==
    /\ op[p] = Idle
    /\ Active(j)
    /\ op' = [op EXCEPT ![p] = Doing(j, record[j], "read")]
    /\ UNCHANGED <<record, temp, doneFile, sup, cmd, gpu, tags>>

\* Fault: only a job that was running is looked after.
IsAbandonedWhileRunning(seen) ==
    ~Alive(seen.job) /\ seen.status = "running"

\* Fault: the DONE file is believed while the supervisor is alive.
IsAbandonedOrDone(seen) == ~Alive(seen.job) \/ doneFile[seen.job]

IsAbandoned(seen) ==
    ~Alive(seen.job) /\ seen.status \in {"waiting", "running"}

Refresh(p) ==
    LET j == op[p].job
        found == IF doneFile[j] THEN "done" ELSE "failed"
    IN  /\ p \in Listers
        /\ op[p].at = "read"
        /\ op' = [op EXCEPT ![p] = IF IsAbandoned(op[p])
                                   THEN Doing(j, found, "loaded") ELSE Idle]
        /\ UNCHANGED <<record, temp, doneFile, sup, cmd, gpu, tags>>

-----------------------------------------------------------------------------
(* cancel_job: the group of the supervisor is signalled, then the record   *)
(* that was loaded before is saved as cancelled.  bash dies of SIGTERM at  *)
(* once; the command may take its time or ignore the signal, and is not    *)
(* killed: only the supervisor is waited for.                              *)

SignalGroup(j) ==
    /\ Dies(j)
    /\ \/ cmd' = cmd
       \/ cmd[j] = "running" /\ cmd' = [cmd EXCEPT ![j] = "erred"]

Cancel(p) ==
    LET j == op[p].job
        cancelled == [op EXCEPT ![p] = Doing(j, "cancelled", "loaded")]
    IN  /\ p \in Cancellers
        /\ op[p].at = "read"
        /\ \/ /\ Alive(j)
              /\ SignalGroup(j)
              /\ op' = [cancelled EXCEPT ![j] = Idle]
           \/ /\ ~Alive(j)
              /\ op' = cancelled
              /\ UNCHANGED <<sup, cmd>>
        /\ UNCHANGED <<record, temp, doneFile, gpu, tags>>

-----------------------------------------------------------------------------
(* Taggers: update_job on another's job, that keeps its status (a          *)
(* description, progress) or, from within the command, repeats "running".  *)

Tag(p, j) ==
    /\ tags < MaxTags
    /\ op[p] = Idle
    /\ record[j] # Missing
    /\ \E s \in {record[j]} \cup (IF cmd[j] = "running" THEN {"running"} ELSE {}) :
          op' = [op EXCEPT ![p] = Doing(j, s, "loaded")]
    /\ tags' = tags + 1
    /\ UNCHANGED <<record, temp, doneFile, sup, cmd, gpu>>

-----------------------------------------------------------------------------
SupervisorStep(j) ==
    \/ Register(j) \/ LockGpu(j) \/ ReportRunning(j) \/ RunCommand(j)
    \/ ReportEnd(j) \/ WriteTemp(j) \/ Rename(j)

Next ==
    \/ \E j \in Jobs :
          \/ SupervisorStep(j)
          \/ WaitRunsOut(j) \/ PreparationFails(j)
          \/ CommandEnds(j) \/ LeaveDone(j)
          \/ SupervisorIsKilled(j) \/ LauncherGivesUp(j)
    \/ \E p \in Callers : WriteTemp(p) \/ Rename(p)
    \/ \E p \in Listers \cup Cancellers, j \in Jobs : ReadRecord(p, j)
    \/ \E p \in Listers : Refresh(p)
    \/ \E p \in Cancellers : Cancel(p)
    \/ \E p \in Taggers, j \in Jobs : Tag(p, j)

Spec == Init /\ [][Next]_vars

\* The operating system runs every process, commands end, and somebody lists
\* the jobs again and again, each of them whenever a lister has time for it.
Fairness ==
    /\ \A j \in Jobs : WF_vars(SupervisorStep(j)) /\ WF_vars(CommandEnds(j))
    /\ \A p \in Callers : WF_vars(WriteTemp(p) \/ Rename(p) \/ Refresh(p))
    /\ \A j \in Jobs : SF_vars(\E p \in Listers : ReadRecord(p, j))

FairSpec == Spec /\ Fairness

-----------------------------------------------------------------------------
(* Properties.                                                             *)

\* The files, the processes and what they do to the records are well formed;
\* a supervisor works on its own record only, and when its script does; what it
\* leaves behind when it is killed is an update of that record.
TypeOK ==
    /\ record \in [Jobs -> Statuses \cup {Missing}]
    /\ temp \in [Jobs -> Statuses \cup {Missing}]
    /\ doneFile \in [Jobs -> BOOLEAN]
    /\ sup \in [Jobs -> {"new", "registering", "waiting", "starting", "ready",
                         "running", "ending", "failing", "gone"}]
    /\ cmd \in [Jobs -> {"none", "running", "succeeded", "erred"}]
    /\ gpu \in Exclusive \cup {None}
    /\ op \in [Processes -> {Idle} \cup
                 [job : Jobs, status : Statuses, at : {"read", "loaded", "written"}]]
    /\ tags \in 0..MaxTags
    /\ \A j \in Jobs : op[j] # Idle =>
          /\ op[j].job = j
          /\ sup[j] \in {"registering", "starting", "ending", "failing", "gone"}

\* No two commands that need the GPU run at the same time, whichever
\* supervisors were killed and whichever commands outlived them
\* (docs/cli.md: the flock is the serialization authority).
GpuExclusive ==
    \A j, k \in Exclusive :
       cmd[j] = "running" /\ cmd[k] = "running" => j = k

\* A record that says a job is over is never ahead of the job: whoever wrote
\* it, through whatever interleaving of saves, the supervisor is dead, or has
\* no more to do than to report the end.
TerminalMeansOver ==
    \A j \in Jobs : record[j] \in Terminal => sup[j] \in {"ending", "failing", "gone"}

\* A job never waits for good, even when no wait is bounded: none holds the GPU
\* that one of its prerequisites needs, and the GPU of a job whose supervisor was
\* killed comes free when its command ends.
JobsEnd == \A j \in Jobs : sup[j] = "registering" ~> sup[j] = "gone"

\* A registered job whose supervisor is gone, at whatever point it was killed,
\* is shown as over in the end, and for ever.
RecordsSettle ==
    \A j \in Jobs :
       (sup[j] = "gone" /\ record[j] # Missing) ~> [](record[j] \in Terminal)

\* "Tag an already-running job without restarting it": a description added
\* while nothing else happens to a job does not keep its supervisor from
\* running the command and from recording how it ended.
TagsAreHarmless ==
    \A j \in Jobs : sup[j] = "gone" => record[j] \in Terminal
=============================================================================
