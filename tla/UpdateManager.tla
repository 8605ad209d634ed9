--------------------------- MODULE UpdateManager ---------------------------
(***************************************************************************)
(* The application upgrade engine of scripts/rk3562/update-manager.py, the *)
(* systemd units that run it (edge-upgrade@, edge-upgrade-recovery,        *)
(* edge-upgrade-recovery-verify) and the gate in front of the services.    *)
(*                                                                         *)
(* One process at a time holds update.lock; `lock' says which, and which   *)
(* of its steps comes next.  A step ends where the disk changes, so that   *)
(* power may fail, or systemd may kill the process, between any two.       *)
(* Package k installs version k, newer or older.  A program that runs on   *)
(* the databases may migrate them: `data' is the last one that did.        *)
(***************************************************************************)
EXTENDS Integers

CONSTANTS
  MaxPackage,   \* packages 1 .. MaxPackage may be uploaded over version 0
  MaxAttempts,  \* MAX_RECOVERY_ATTEMPTS
  MaxFaults     \* bound on power cuts, kills, failed steps, and installations
                \* by hand in the midst of a transaction

ASSUME UpdateAssumption ==
  /\ MaxPackage \in Nat \ {0}
  /\ MaxAttempts \in Nat \ {0}
  /\ MaxFaults \in Nat

VARIABLES
  status,     \* update/status.json
  program,    \* the program directories: a version, or Mixed while replaced
  data,       \* the databases: last version that ran on them, or Mixed
  backup,     \* update/backup/<job>: [program, data, complete]
  incoming,   \* the package file in update/incoming, or Mixed for none
  job,        \* update/jobs/<job>: [target, base], or NoJob
  running,    \* whether the three services are active
  lock,       \* the process that holds update.lock and its next step
  units,      \* the systemd jobs still to run
  overruled,  \* history: "validation", one began over a recovery required or
              \* given up; "hand", install.sh was run by hand while one was under
              \* way or owed; "outcome", it replaced what a status tells of; or "no"
  faults

updateVars == <<status, program, data, backup, incoming, job, running, lock,
                units, overruled, faults>>
files == <<program, data, backup>>

Versions == 0..MaxPackage
Mixed == -1
NoJob == [target |-> Mixed, base |-> Mixed]
NoBackup == [program |-> Mixed, data |-> Mixed, complete |-> FALSE]
Free == [by |-> "nobody", at |-> "idle"]

Terminal == {"IDLE", "SUCCESS", "FAILED", "ROLLED_BACK"}
Active == {"VALIDATING", "BACKING_UP", "STOPPING", "INSTALLING", "STARTING",
           "VERIFYING", "ROLLING_BACK"}
RecoveryRollback == {"STOPPING", "INSTALLING", "STARTING", "VERIFYING",
                     "ROLLING_BACK"}

DefaultStatus ==
  [state |-> "IDLE", requested |-> FALSE, required |-> FALSE,
   pending |-> FALSE, from |-> "", attempts |-> 0, prev |-> Mixed]

-----------------------------------------------------------------------------
Holds(by, at) == lock = [by |-> by, at |-> at]
Goes(by, at) == lock' = [by |-> by, at |-> at]
Ends(next) == lock' = Free /\ units' = next

ActiveOrRequested == status.state \in Active \/ status.requested

(* Mutation: the gate forgets the state in which the files are replaced.   *)
GateOpenInstalling ==
  /\ ~(status.state = "FAILED" /\ status.required)
  /\ status.state # "STOPPING"
  /\ status.state = "ROLLING_BACK" => status.pending

(* service_start_allowed                                                   *)
GateOpen ==
  /\ ~(status.state = "FAILED" /\ status.required)
  /\ status.state \notin {"STOPPING", "INSTALLING"}
  /\ status.state = "ROLLING_BACK" => status.pending

Exhausted == status.attempts >= MaxAttempts

Fault == faults < MaxFaults /\ faults' = faults + 1

\* The checks that find another program than their transaction has put there.
Mismatch ==
  \/ lock.at = "verify" /\ ~(running /\ program = job.target)
  \/ lock.at = "confirm" /\ ~(running /\ program = status.prev)
  \/ lock.at = "reinstall" /\ ~(backup.complete /\ backup.program = status.prev)

StepFails == Fault \/ (Mismatch /\ UNCHANGED faults)

RetryFailed == status.state = "FAILED" /\ status.required
GivenUp == status.state = "FAILED" /\ Exhausted /\ ~status.required

\* start_services and systemd's own starts: each service passes the gate.
ServicesStart ==
  /\ running' = TRUE
  /\ data' = IF data = Mixed THEN Mixed ELSE program

Fail(required) ==
  status' = [status EXCEPT !.state = "FAILED", !.requested = FALSE,
                           !.required = required, !.pending = FALSE]

-----------------------------------------------------------------------------
(* Upload and validation, by the backend or by hand.                       *)

Import(k) ==
  /\ lock = Free /\ ~ActiveOrRequested
  /\ incoming' = k
  /\ job' = IF status.state = "READY" THEN NoJob ELSE job
  /\ \/ \* the archive cannot be read: nothing else has changed yet
        /\ Fault
        /\ UNCHANGED <<status, lock, overruled>>
     \/ /\ status' = [DefaultStatus EXCEPT !.state = "VALIDATING"]
        /\ overruled' = CASE overruled = "hand" -> "hand"
                          [] overruled # "hand" /\ (status.required \/ GivenUp) -> "validation"
                          [] OTHER -> IF overruled = "outcome" THEN "no" ELSE overruled
        /\ Goes("validate", "extract")
        /\ UNCHANGED faults
  /\ UNCHANGED <<program, data, backup, running, units>>

Validated ==
  /\ Holds("validate", "extract")
  /\ \/ /\ status' = [status EXCEPT !.state = "READY"]
        /\ job' = [target |-> incoming, base |-> program]
        /\ UNCHANGED faults
     \/ /\ Fault
        /\ Fail(FALSE)
        /\ job' = NoJob
  /\ lock' = Free
  /\ UNCHANGED <<files, incoming, running, units, overruled>>

Restoring == {"runner", "recovery"}
Overruled == overruled \in {"validation", "hand"}

\* install.sh run by hand takes no lock and looks at no status: it may replace
\* the program at any time, and restarts the services where the gate lets it.
ManualInstall(k) ==
  /\ program' = k
  /\ IF GateOpen
       THEN running' = TRUE /\ data' = IF data = Mixed THEN Mixed ELSE k
       ELSE running' = FALSE /\ UNCHANGED data
  /\ overruled' =
       IF \/ Overruled \/ RetryFailed
          \/ lock.by \in Restoring \/ status.state \in Active \ {"VALIDATING"}
         THEN "hand"
         ELSE IF status.state \in {"SUCCESS", "ROLLED_BACK"} THEN "outcome" ELSE overruled
  /\ IF overruled' = "hand" THEN Fault ELSE UNCHANGED faults
  /\ UNCHANGED <<status, backup, incoming, job, lock, units>>

RequestStart ==
  /\ lock = Free
  /\ status.state = "READY" /\ ~status.requested
  /\ job # NoJob /\ incoming = job.target
  /\ IF program = job.base
       THEN /\ status' = [status EXCEPT !.requested = TRUE]
            /\ Goes("start", "systemctl")
       ELSE /\ Fail(FALSE)
            /\ UNCHANGED lock
  /\ UNCHANGED <<files, incoming, job, running, units, overruled, faults>>

\* `systemctl start --no-block' that times out may have queued the runner.
StartRunner ==
  /\ Holds("start", "systemctl")
  /\ \/ Ends(units \cup {"runner"}) /\ UNCHANGED <<status, faults>>
     \/ /\ Fault /\ Fail(FALSE)
        /\ \E queued \in SUBSET {"runner"} : Ends(units \cup queued)
  /\ UNCHANGED <<files, incoming, job, running, overruled>>

-----------------------------------------------------------------------------
(* run_job: back up, stop, install, start, verify.                         *)

RunnerLeft == units \ {"runner"}
RunnerFailed == RunnerLeft \cup {"recovery"}   \* OnFailure=

RunnerRefused ==
  /\ "runner" \in units /\ "recovery" \notin units
  /\ lock.by # "runner"
  /\ \/ lock # Free
     \/ status.state # "READY" \/ ~status.requested \/ job = NoJob
  /\ units' = RunnerFailed
  /\ UNCHANGED <<status, files, incoming, job, running, lock, overruled, faults>>

RunnerBegins ==
  /\ "runner" \in units /\ "recovery" \notin units /\ lock = Free
  /\ status.state = "READY" /\ status.requested /\ job # NoJob
  /\ IF program = job.base /\ incoming = job.target
       THEN /\ status' = [status EXCEPT !.state = "BACKING_UP", !.prev = job.base,
                                        !.required = FALSE, !.pending = FALSE]
            /\ Goes("runner", "backup")
            /\ UNCHANGED units
       ELSE Fail(FALSE) /\ Ends(RunnerFailed)
  /\ UNCHANGED <<files, incoming, job, running, overruled, faults>>

RunnerStep(at, next) == Holds("runner", at) /\ Goes("runner", next)

BackUpProgram ==
  /\ RunnerStep("backup", "stop")
  /\ backup' = [NoBackup EXCEPT !.program = program]
  /\ status' = [status EXCEPT !.state = "STOPPING"]
  /\ UNCHANGED <<program, data, incoming, job, running, units, overruled, faults>>

StopServices ==
  /\ RunnerStep("stop", "snapshot")
  /\ running' = FALSE
  /\ UNCHANGED <<status, files, incoming, job, units, overruled, faults>>

CommitBackup ==
  /\ RunnerStep("snapshot", "install")
  /\ backup' = [backup EXCEPT !.data = data, !.complete = TRUE]
  /\ UNCHANGED <<status, program, data, incoming, job, running, units, overruled, faults>>

BeginInstall ==
  /\ RunnerStep("install", "copy")
  /\ status' = [status EXCEPT !.state = "INSTALLING"]
  /\ running' = FALSE /\ program' = Mixed
  /\ UNCHANGED <<data, backup, incoming, job, units, overruled, faults>>

EndInstall ==
  /\ RunnerStep("copy", "start")
  /\ program' = job.target
  /\ status' = [status EXCEPT !.state = "STARTING"]
  /\ UNCHANGED <<data, backup, incoming, job, running, units, overruled, faults>>

StartServices ==
  /\ RunnerStep("start", "verify")
  /\ ServicesStart
  /\ status' = [status EXCEPT !.state = "VERIFYING"]
  /\ UNCHANGED <<program, backup, incoming, job, units, overruled, faults>>

Succeed ==
  /\ Holds("runner", "verify") /\ running /\ program = job.target
  /\ status' = [status EXCEPT !.state = "SUCCESS", !.requested = FALSE,
                              !.required = FALSE, !.pending = FALSE]
  /\ Ends(RunnerLeft)
  /\ UNCHANGED <<files, incoming, job, running, overruled, faults>>

\* A step before the installation fails: FAILED is written first, so that
\* the gate lets the old program start again.
FailBeforeInstall ==
  /\ lock.by = "runner" /\ lock.at \in {"backup", "stop", "snapshot", "install"}
  /\ Fault /\ Fail(FALSE)
  /\ IF lock.at = "backup" THEN Ends(RunnerFailed)
                           ELSE Goes("runner", "restart") /\ UNCHANGED units
  /\ backup' = IF lock.at = "backup" THEN NoBackup ELSE backup
  /\ UNCHANGED <<program, data, incoming, job, running, overruled>>

RestartServices ==
  /\ Holds("runner", "restart") /\ Ends(RunnerFailed)
  /\ \/ ServicesStart /\ UNCHANGED faults
     \/ Fault /\ UNCHANGED <<running, data>>
  /\ UNCHANGED <<status, program, backup, incoming, job, overruled>>

FailAfterInstall ==
  /\ lock.by = "runner" /\ lock.at \in {"copy", "start", "verify"}
  /\ StepFails
  /\ status' = [status EXCEPT !.state = "ROLLING_BACK", !.required = FALSE,
                              !.pending = FALSE]
  /\ Goes("runner", "rollback")
  /\ UNCHANGED <<files, incoming, job, running, units, overruled>>

-----------------------------------------------------------------------------
(* restore_backup, for the runner's rollback and for the recovery service. *)

StepOf(by, at, next) == by \in Restoring /\ Holds(by, at) /\ Goes(by, next)

StopToRestore(by) ==
  /\ StepOf(by, "rollback", "reinstall")
  /\ running' = FALSE
  /\ UNCHANGED <<status, files, incoming, job, units, overruled, faults>>

\* install.sh of the backed up program replaces the directories, ...
BeginReinstall(by) ==
  /\ backup.complete /\ backup.program = status.prev
  /\ StepOf(by, "reinstall", "replace")
  /\ program' = Mixed /\ running' = FALSE
  /\ UNCHANGED <<status, data, backup, incoming, job, units, overruled, faults>>

(* Mutation: the health check is announced before the data are back.       *)
EndReinstallReady(by) ==
  /\ StepOf(by, "replace", "recopy")
  /\ program' = backup.program /\ data' = Mixed
  /\ status' = [status EXCEPT !.pending = TRUE]
  /\ UNCHANGED <<backup, incoming, job, running, units, overruled, faults>>

\* ... writes VERSION last, and the data directory is removed ...
EndReinstall(by) ==
  /\ StepOf(by, "replace", "recopy")
  /\ program' = backup.program /\ data' = Mixed
  /\ UNCHANGED <<status, backup, incoming, job, running, units, overruled, faults>>

\* ... and copied back; then the services may start for the health check.
RestoreData(by) ==
  /\ by \in Restoring /\ Holds(by, "recopy")
  /\ data' = backup.data
  /\ status' = [status EXCEPT !.pending = TRUE]
  /\ IF by = "runner" THEN Goes("runner", "restore") /\ UNCHANGED units
                      ELSE Ends((units \ {"recovery"}) \cup {"services", "verify"})
  /\ UNCHANGED <<program, backup, incoming, job, running, overruled, faults>>

StartRestored ==
  /\ RunnerStep("restore", "confirm")
  /\ ServicesStart
  /\ UNCHANGED <<status, program, backup, incoming, job, units, overruled, faults>>

RolledBack ==
  status' = [status EXCEPT !.state = "ROLLED_BACK", !.requested = FALSE,
                           !.required = FALSE, !.pending = FALSE]

ConfirmRollback ==
  /\ Holds("runner", "confirm") /\ running /\ program = status.prev
  /\ RolledBack
  /\ Ends(RunnerLeft)
  /\ UNCHANGED <<files, incoming, job, running, overruled, faults>>

\* `rolling' keeps recovery_pending_health: only recovery clears it.
RollbackFails ==
  /\ lock.by = "runner"
  /\ lock.at \in {"rollback", "reinstall", "replace", "recopy", "restore", "confirm"}
  /\ StepFails
  /\ status' = [status EXCEPT !.state = "FAILED", !.requested = FALSE,
                              !.required = TRUE, !.from = "ROLLING_BACK"]
  /\ Ends(RunnerFailed)
  /\ UNCHANGED <<files, incoming, job, running, overruled>>

-----------------------------------------------------------------------------
(* recover_transaction, at boot and after a failed runner.                 *)

RecoveryLeft == (units \ {"recovery"}) \cup {"services", "verify"}

Recover ==
  /\ lock = Free /\ "recovery" \in units
  /\ CASE status.state \in Terminal /\ ~RetryFailed ->
            Ends(RecoveryLeft) /\ UNCHANGED <<status, backup, job>>
       [] status.state = "READY" ->
            /\ status' = [status EXCEPT !.requested = FALSE]
            /\ Ends(RecoveryLeft) /\ UNCHANGED <<backup, job>>
       [] status.state \in {"VALIDATING", "BACKING_UP"} ->
            /\ Fail(FALSE)
            /\ job' = NoJob
            /\ backup' = IF status.state = "BACKING_UP" THEN NoBackup ELSE backup
            /\ Ends(RecoveryLeft)
       [] (status.state \in RecoveryRollback \/ RetryFailed) /\ Exhausted ->
            /\ Fail(FALSE)
            /\ Ends(RecoveryLeft) /\ UNCHANGED <<backup, job>>
       [] OTHER ->
            /\ status' = [status EXCEPT
                 !.state = "ROLLING_BACK", !.required = TRUE, !.pending = FALSE,
                 !.from = IF @ = "" THEN status.state ELSE @,
                 !.attempts = @ + 1, !.requested = FALSE]
            /\ Goes("recovery", IF backup.complete THEN "rollback" ELSE "giveup")
            /\ UNCHANGED <<units, backup, job>>
  /\ UNCHANGED <<program, data, incoming, running, overruled, faults>>

(* Mutation: a recovery without a backup is owed for ever.                 *)
RecoverWithoutBackupAgain ==
  /\ Holds("recovery", "giveup")
  /\ Fail(TRUE)
  /\ Ends(RecoveryLeft)
  /\ UNCHANGED <<files, incoming, job, running, overruled, faults>>

\* The backup was not committed: before the installation nothing is lost.
RecoverWithoutBackup ==
  /\ Holds("recovery", "giveup")
  /\ Fail(status.from # "STOPPING" /\ ~Exhausted)
  /\ backup' = IF status.from = "STOPPING" THEN NoBackup ELSE backup
  /\ Ends(RecoveryLeft)
  /\ UNCHANGED <<program, data, incoming, job, running, overruled, faults>>

RecoveryFails ==
  /\ lock.by = "recovery" /\ lock.at # "giveup"
  /\ StepFails /\ Fail(~Exhausted)
  /\ Ends(RecoveryLeft)
  /\ UNCHANGED <<files, incoming, job, running, overruled>>

\* Wants= of the verification unit: the services start, if the gate opens.
UnitStartsServices ==
  /\ "services" \in units /\ "recovery" \notin units
  /\ units' = units \ {"services"}
  /\ IF GateOpen THEN ServicesStart ELSE UNCHANGED <<running, data>>
  /\ UNCHANGED <<status, program, backup, incoming, job, lock, overruled, faults>>

FinalizeRecovery ==
  /\ lock = Free /\ "verify" \in units
  /\ "services" \notin units /\ "recovery" \notin units
  /\ units' = units \ {"verify"}
  /\ IF status.state = "ROLLING_BACK" /\ status.pending
       THEN \/ running /\ program = status.prev /\ RolledBack /\ UNCHANGED faults
            \/ ~(running /\ program = status.prev) /\ Fail(~Exhausted) /\ UNCHANGED faults
            \/ Fault /\ Fail(~Exhausted)
       ELSE UNCHANGED <<status, faults>>
  /\ UNCHANGED <<files, incoming, job, running, lock, overruled>>

-----------------------------------------------------------------------------
(* The environment: operators, systemd time-outs and the power supply.     *)

OperatorStart ==
  /\ ~running /\ units \cap {"recovery", "services"} = {} /\ GateOpen
  /\ ServicesStart
  /\ UNCHANGED <<status, program, backup, incoming, job, lock, units, overruled, faults>>

\* The backend kills the engine after its time-out; systemd kills the units.
Killed ==
  /\ lock # Free /\ Fault
  /\ Ends(CASE lock.by = "runner" -> RunnerFailed
            [] lock.by = "recovery" -> RecoveryLeft
            [] OTHER -> units)
  /\ UNCHANGED <<status, files, incoming, job, running, overruled>>

\* A reboot of the system at rest is not a fault: it is what a stuck
\* transaction waits for.
PowerCut ==
  /\ Fault \/ (lock = Free /\ units = {} /\ UNCHANGED faults)
  /\ running' = FALSE
  /\ Ends({"recovery", "services", "verify"})
  /\ UNCHANGED <<status, files, incoming, job, overruled>>

UpdateInit ==
  /\ status = DefaultStatus
  /\ program = 0 /\ data = 0 /\ backup = NoBackup
  /\ incoming = Mixed /\ job = NoJob
  /\ running = TRUE /\ lock = Free /\ units = {}
  /\ overruled = "no" /\ faults = 0

Proceed ==
  \/ Validated \/ StartRunner
  \/ RunnerRefused \/ RunnerBegins \/ BackUpProgram \/ StopServices
  \/ CommitBackup \/ BeginInstall \/ EndInstall \/ StartServices \/ Succeed
  \/ FailBeforeInstall \/ RestartServices \/ FailAfterInstall
  \/ \E by \in Restoring : \/ StopToRestore(by) \/ BeginReinstall(by)
                           \/ EndReinstall(by) \/ RestoreData(by)
  \/ StartRestored \/ ConfirmRollback \/ RollbackFails
  \/ Recover \/ RecoverWithoutBackup \/ RecoveryFails
  \/ UnitStartsServices \/ FinalizeRecovery

UpdateNext ==
  \/ Proceed
  \/ \E k \in 1..MaxPackage : Import(k)
  \/ \E k \in Versions : ManualInstall(k)
  \/ RequestStart \/ OperatorStart \/ Killed \/ PowerCut

UpdateSpec == UpdateInit /\ [][UpdateNext]_updateVars

\* systemd runs what it queued, a process does its next step, and one that
\* waits in flock for the lock gets it when the holder leaves.
FairUpdateSpec ==
  /\ UpdateSpec
  /\ WF_updateVars(Proceed)
  /\ WF_updateVars(UnitStartsServices) /\ WF_updateVars(RunnerRefused \/ RunnerBegins)
  /\ SF_updateVars(Recover) /\ SF_updateVars(FinalizeRecovery)

-----------------------------------------------------------------------------
(* Properties.                                                             *)

Whole == program # Mixed /\ data # Mixed

\* The services run, and the gate lets them start, only over one complete
\* program and complete databases, unless the recovery was given up after its
\* last attempt or overruled, by a new validation or an installation by hand.
ServicesRunOnWhole ==
  running \/ (GateOpen /\ "recovery" \notin units)
    => Whole \/ GivenUp \/ Overruled

\* From the installation on, and as long as a recovery is owed, there is a
\* committed backup of the program and the databases to go back to.
RollbackIsPossible ==
  \/ status.state \in {"INSTALLING", "STARTING", "VERIFYING"}
  \/ status.state = "ROLLING_BACK" /\ status.from # "STOPPING"
  \/ RetryFailed
  => \/ backup.complete /\ backup.program = status.prev /\ backup.data # Mixed
     \/ Overruled

\* What the status tells the operator at the end is what is installed, unless
\* something else was installed by hand: SUCCESS the package, ROLLED_BACK the old
\* program; and that one starts for its health check on the databases it had
\* left, not on what the package made of them.
OutcomeIsInstalled ==
  /\ status.state = "SUCCESS" =>
       program = job.target \/ overruled \in {"outcome", "hand"}
  /\ status.pending \/ status.state = "ROLLED_BACK" =>
       overruled # "no" \/ (program = status.prev /\ (running \/ data = backup.data))

\* Whenever the power goes, what the status tells the recovery and the operator
\* is true of what is on the disk.
StatusTellsTheDisk == RollbackIsPossible /\ OutcomeIsInstalled

\* Once power and processes no longer fail and nobody asks for an upgrade while
\* the last one is being recovered, a recovery ends with the services running,
\* no upgrade under way and no recovery owed, unless install.sh was run by hand
\* in the midst of it.
Settled ==
  /\ lock = Free /\ units = {} /\ running
  /\ ~ActiveOrRequested /\ ~status.required
RecoverySettles ==
  <>[][~RequestStart]_updateVars
    => ((faults = MaxFaults /\ "recovery" \in units) ~> Settled \/ overruled = "hand")
=============================================================================
