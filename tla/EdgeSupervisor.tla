---------------------------- MODULE EdgeSupervisor ----------------------------
(***************************************************************************)
(* The supervision of the Edge worker on its Windows host: the scheduled   *)
(* task (install_edge_worker_task.ps1) runs the supervisor                 *)
(* (start_edge_worker_supervisor.ps1), which runs the worker               *)
(* (run_browser_worker.ps1, browser_worker.py) and writes a health file.   *)
(***************************************************************************)
EXTENDS Naturals

CONSTANTS
  MaxRestarts,   \* of the worker, by the supervisor
  RestartCount,  \* of the supervisor, by the task scheduler
  MaxKills       \* bound: supervisors that are killed

ASSUME SupervisorAssumption ==
  MaxRestarts \in Nat /\ RestartCount \in Nat /\ MaxKills \in Nat

VARIABLES
  supervisor,  \* the statement it is at; "off", "done" and "failed" outside
  usable,      \* the settings pass browser_worker.main
  restart,     \* $attempt
  worker,      \* the worker it waits for runs
  orphans,     \* workers whose supervisor was killed
  exitCode,    \* of the last worker: 0 or 1 for any other
  healthFile,  \* the status in the file
  taskRuns,    \* restarts by the task scheduler
  kills

supervisorVars ==
  <<supervisor, usable, restart, worker, orphans, exitCode, healthFile, taskRuns, kills>>

Statements == {"report start", "start", "wait", "report end", "decide", "sleep"}

SupervisorInit ==
  /\ supervisor = "off" /\ usable = TRUE /\ restart = 0
  /\ worker = FALSE /\ orphans = 0 /\ exitCode = 0 /\ healthFile = "none"
  /\ taskRuns = 0 /\ kills = 0

\* The operator logs on: the task runs, with the settings of that moment.
LogOn ==
  /\ supervisor = "off" /\ supervisor' = "report start"
  /\ usable' \in BOOLEAN
  /\ UNCHANGED <<restart, worker, orphans, exitCode, healthFile, taskRuns, kills>>

\* Set-Content; a file that cannot be written ends the script.
Report(from, status, to) ==
  /\ supervisor = from
  /\ \/ supervisor' = to /\ healthFile' = status
     \/ supervisor' = "failed" /\ UNCHANGED healthFile
  /\ UNCHANGED <<usable, restart, worker, orphans, exitCode, taskRuns, kills>>

ReportStart == Report("report start", "starting", "start")
ReportEnd == Report("report end", "stopped", "decide")

StartWorker ==
  /\ supervisor = "start" /\ supervisor' = "wait"
  /\ worker' = TRUE
  /\ UNCHANGED <<usable, restart, orphans, exitCode, healthFile, taskRuns, kills>>

(* A faulty variant of WorkerExits: a mistake the property must find. *)

\* The worker starts without looking at its settings.
WorkerExitsUnchecked ==
  /\ usable /\ worker /\ supervisor = "wait" /\ supervisor' = "report end"
  /\ worker' = FALSE /\ exitCode' \in {0, 1}
  /\ UNCHANGED <<usable, restart, orphans, healthFile, taskRuns, kills>>

\* With unusable settings the worker ends before it takes a task; otherwise it
\* ends when it is shut down or crashes.
WorkerExits ==
  /\ worker /\ supervisor = "wait" /\ supervisor' = "report end"
  /\ worker' = FALSE
  /\ exitCode' \in IF usable THEN {0, 1} ELSE {1}
  /\ UNCHANGED <<usable, restart, orphans, healthFile, taskRuns, kills>>

Decide ==
  /\ supervisor = "decide"
  /\ supervisor' = IF exitCode = 0 THEN "done"
                   ELSE IF restart = MaxRestarts THEN "failed" ELSE "sleep"
  /\ UNCHANGED <<usable, restart, worker, orphans, exitCode, healthFile, taskRuns, kills>>

\* Start-Sleep, and the next round of the loop.
TryAgain ==
  /\ supervisor = "sleep" /\ supervisor' = "report start"
  /\ restart' = restart + 1
  /\ UNCHANGED <<usable, worker, orphans, exitCode, healthFile, taskRuns, kills>>

\* The process of the supervisor is killed; a worker it started goes on.
SupervisorKilled ==
  /\ supervisor \in Statements /\ kills < MaxKills
  /\ supervisor' = "failed" /\ kills' = kills + 1
  /\ worker' = FALSE /\ orphans' = IF worker THEN orphans + 1 ELSE orphans
  /\ UNCHANGED <<usable, restart, exitCode, healthFile, taskRuns>>

OrphanExits ==
  /\ orphans > 0 /\ orphans' = orphans - 1
  /\ UNCHANGED <<supervisor, usable, restart, worker, exitCode, healthFile, taskRuns, kills>>

\* A task that failed is run again.
TaskRestarts ==
  /\ supervisor = "failed" /\ taskRuns < RestartCount
  /\ supervisor' = "report start" /\ restart' = 0 /\ taskRuns' = taskRuns + 1
  /\ UNCHANGED <<usable, worker, orphans, exitCode, healthFile, kills>>

SupervisorSteps == ReportStart \/ StartWorker \/ ReportEnd \/ Decide \/ TryAgain

SupervisorNext ==
  LogOn \/ SupervisorSteps \/ WorkerExits \/ SupervisorKilled \/ OrphanExits \/ TaskRestarts

SupervisorSpec == SupervisorInit /\ [][SupervisorNext]_supervisorVars

\* The script runs on, and a worker that cannot start ends.
FairSupervisorSpec ==
  /\ SupervisorSpec
  /\ WF_supervisorVars(SupervisorSteps) /\ WF_supervisorVars(~usable /\ WorkerExits)

-----------------------------------------------------------------------------
\* A worker that cannot start is given up.
BrokenWorkerIsGivenUp ==
  ~usable /\ supervisor \in Statements ~> supervisor \in {"done", "failed"}
=============================================================================
