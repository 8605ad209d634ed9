------------------------ MODULE UpdateManager_proofs ------------------------
(***************************************************************************)
(* Proofs about UpdateManager for any packages, attempts and faults.       *)
(***************************************************************************)
EXTENDS UpdateManager, TLAPS

(* The records have the fields they are used with.                         *)
IsStatus(s) ==
  s = [state |-> s.state, requested |-> s.requested, required |-> s.required,
       pending |-> s.pending, from |-> s.from, attempts |-> s.attempts, prev |-> s.prev]

IsBackup(b) == b = [program |-> b.program, data |-> b.data, complete |-> b.complete]

UpdateTypes == IsStatus(status) /\ IsBackup(backup) /\ running \in BOOLEAN

(* What the status says while a process holds update.lock.                 *)
LockTellsState ==
  \/ lock = Free
  \/ Holds("validate", "extract") /\ status.state = "VALIDATING" /\ incoming # Mixed
  \/ Holds("start", "systemctl") /\ status.state = "READY"
  \/ /\ lock.by = "runner" /\ lock = [by |-> "runner", at |-> lock.at]
     /\ lock.at \in {"backup", "stop", "snapshot", "install", "copy"} => job.target # Mixed
     /\ \/ lock.at = "backup" /\ status.state = "BACKING_UP"
        \/ lock.at \in {"stop", "snapshot", "install"} /\ status.state = "STOPPING"
        \/ lock.at = "copy" /\ status.state = "INSTALLING"
        \/ lock.at = "start" /\ status.state = "STARTING"
        \/ lock.at = "verify" /\ status.state = "VERIFYING"
        \/ lock.at = "restart" /\ status.state = "FAILED" /\ ~status.required
        \/ lock.at \in {"rollback", "reinstall", "replace", "recopy"}
             /\ status.state = "ROLLING_BACK" /\ ~status.pending
        \/ lock.at \in {"restore", "confirm"} /\ status.state = "ROLLING_BACK" /\ status.pending
  \/ /\ lock.by = "recovery" /\ lock = [by |-> "recovery", at |-> lock.at]
     /\ lock.at \in {"rollback", "reinstall", "replace", "recopy", "giveup"}
     /\ status.state = "ROLLING_BACK" /\ ~status.pending

UpdateOrder ==
  /\ LockTellsState
  /\ job = NoJob \/ job.target # Mixed
  /\ status.state = "SUCCESS" => program = job.target \/ overruled \in {"outcome", "hand"}

(* The program runs on databases it has left itself.                       *)
Sound == program # Mixed /\ data = program

BackupIsGood ==
  /\ backup.complete /\ status.prev # Mixed
  /\ backup.program = status.prev /\ backup.data = status.prev

(* What is on the disk, by the state the status tells.                     *)
DiskIsKnown ==
  /\ \/ Sound
     \/ status.state = "INSTALLING" /\ data # Mixed
     \/ status.state = "STARTING" /\ Whole
     \/ status.state = "ROLLING_BACK" /\ ~status.pending
     \/ status.state = "FAILED" /\ (status.required \/ Exhausted)
  /\ running => Whole \/ GivenUp
  /\ status.state \in {"VALIDATING", "READY", "BACKING_UP", "STOPPING"} => status.from = ""
  /\ status.state = "BACKING_UP" => status.prev = program
  /\ status.state = "STOPPING" => status.prev = program /\ backup.program = program
  /\ status.state = "ROLLED_BACK" /\ overruled = "no" => program = status.prev /\ data = backup.data

(* Where there is a backup to go back to, and where nothing was installed. *)
BackupIsKnown ==
  /\ status.state = "STOPPING" => (backup.complete => BackupIsGood)
  /\ status.state \in {"INSTALLING", "STARTING", "VERIFYING"} => BackupIsGood
  /\ status.state = "ROLLING_BACK" =>
       /\ backup.complete => BackupIsGood
       /\ ~backup.complete => Sound /\ status.from = "STOPPING"
  /\ RetryFailed => BackupIsGood
  /\ status.pending =>
       /\ status.state = "ROLLING_BACK" \/ RetryFailed
       /\ BackupIsGood
       /\ Sound /\ program = status.prev

(* What the steps of a process have done.                                  *)
StepsAreDone ==
  lock.by \in Restoring =>
    /\ lock.at \in {"stop", "snapshot", "giveup"} => ~backup.complete
    /\ lock.at \in {"install", "rollback", "reinstall", "replace", "recopy"} => backup.complete
    /\ lock.at \in {"copy", "replace", "recopy"} => ~running
    /\ lock.at = "restart" => Sound
    /\ lock.at = "recopy" => program = backup.program

DiskInv == DiskIsKnown /\ BackupIsKnown /\ StepsAreDone

UpdateInv == UpdateTypes /\ UpdateOrder /\ (Overruled \/ DiskInv)

\* Every step below looks through the history to its values.
USE DEF Overruled

StateIsNamed == status.state \in Terminal \cup {"READY"} \cup Active

(***************************************************************************)
(* What a failure leaves, and what is left to be known when the lock is    *)
(* free.                                                                   *)
(***************************************************************************)
LEMMA FailFields ==
  ASSUME IsStatus(status), NEW r, Fail(r)
  PROVE  /\ IsStatus(status') /\ status'.state = "FAILED" /\ status'.required = r
         /\ status'.pending = FALSE /\ status'.from = status.from
         /\ status'.attempts = status.attempts /\ status'.prev = status.prev
BY DEF IsStatus, Fail

LEMMA FailKeeps ==
  ASSUME UpdateInv, NEW r \in BOOLEAN, Fail(r), UNCHANGED <<program, data, running, overruled>>,
         status.state # "FAILED" \/ RetryFailed,
         ~Overruled /\ r => BackupIsGood /\ UNCHANGED backup,
         ~Overruled /\ ~r => Sound \/ Exhausted
  PROVE  Overruled' \/ (DiskIsKnown' /\ BackupIsKnown')
<1> SUFFICES ASSUME ~Overruled PROVE DiskIsKnown' /\ BackupIsKnown'
  OBVIOUS
<1>1. /\ status'.state = "FAILED" /\ status'.required = r /\ status'.pending = FALSE
      /\ status'.attempts = status.attempts /\ status'.prev = status.prev
  BY FailFields DEF UpdateInv, UpdateTypes
<1>2. running => Whole
  BY DEF UpdateInv, DiskInv, DiskIsKnown, GivenUp, RetryFailed
<1>3. Exhausted' <=> Exhausted
  BY <1>1 DEF Exhausted
<1>4. DiskIsKnown'
  BY <1>1, <1>2, <1>3 DEF DiskIsKnown, Sound, Whole
<1>5. BackupIsKnown'
  BY <1>1 DEF BackupIsKnown, RetryFailed, BackupIsGood
<1> QED BY <1>4, <1>5

LEMMA FreeKeeps ==
  ASSUME lock' = Free
  PROVE  LockTellsState' /\ StepsAreDone'
BY DEF LockTellsState, StepsAreDone, Free, Restoring

LEMMA GateIsShut ==
  ASSUME UpdateInv, lock.by \in Restoring, lock.at \in {"copy", "replace", "recopy"}
  PROVE  ~GateOpen
BY DEF UpdateInv, UpdateOrder, LockTellsState, Restoring, Free, Holds, GateOpen

LEMMA PackageIsVersion ==
  ASSUME NEW k \in 1..MaxPackage
  PROVE  k # Mixed
<1>1. k \in Int /\ 1 <= k
  BY UpdateAssumption
<1> QED BY <1>1 DEF Mixed

LEMMA VersionIsWhole ==
  ASSUME NEW k \in Versions
  PROVE  k # Mixed
<1>1. k \in Int /\ 0 <= k
  BY UpdateAssumption DEF Versions
<1> QED BY <1>1 DEF Mixed

LEMMA ValidatedKeeps ==
  ASSUME UpdateInv, Validated
  PROVE  UpdateInv'
<1>1. status.state = "VALIDATING" /\ incoming # Mixed
  BY DEF Validated, UpdateInv, UpdateOrder, LockTellsState, Holds, Free
<1>2. LockTellsState' /\ StepsAreDone'
  BY FreeKeeps DEF Validated
<1>3. UNCHANGED <<program, data, backup, running, overruled>>
  BY DEF Validated, files
<1>4. CASE status' = [status EXCEPT !.state = "READY"] /\ job' = [target |-> incoming, base |-> program]
  <2>1. status'.state = "READY" /\ IsStatus(status') /\ status'.from = status.from
        /\ status'.required = status.required /\ status'.pending = status.pending
        /\ status'.attempts = status.attempts
    BY <1>4 DEF UpdateInv, UpdateTypes, IsStatus
  <2>2. UpdateTypes' /\ UpdateOrder'
    BY <1>1, <1>2, <1>3, <1>4, <2>1 DEF UpdateInv, UpdateTypes, UpdateOrder, IsBackup
  <2>3. Overruled' \/ DiskInv'
    BY <1>1, <1>2, <1>3, <2>1 DEF UpdateInv, DiskInv, DiskIsKnown, BackupIsKnown, RetryFailed,
       Sound, Whole, GivenUp
  <2> QED BY <2>2, <2>3 DEF UpdateInv
<1>5. CASE Fail(FALSE) /\ job' = NoJob
  <2>1. status'.state = "FAILED" /\ IsStatus(status')
    BY <1>5, FailFields DEF UpdateInv, UpdateTypes
  <2>2. UpdateTypes' /\ UpdateOrder'
    BY <1>2, <1>3, <1>5, <2>1 DEF UpdateInv, UpdateTypes, UpdateOrder, IsBackup
  <2>3. ~Overruled => Sound
    BY <1>1 DEF UpdateInv, DiskInv, DiskIsKnown
  <2>4. Overruled' \/ (DiskIsKnown' /\ BackupIsKnown')
    BY <1>1, <1>3, <1>5, <2>3, FailKeeps
  <2> QED BY <1>2, <2>2, <2>4 DEF UpdateInv, DiskInv
<1> QED BY <1>4, <1>5 DEF Validated

LEMMA RequestKeeps ==
  ASSUME UpdateInv, RequestStart \/ StartRunner
  PROVE  UpdateInv'
<1>1. status.state = "READY"
  <2>1. CASE RequestStart
    BY <2>1 DEF RequestStart
  <2>2. CASE Holds("start", "systemctl")
    BY <2>2 DEF UpdateInv, UpdateOrder, LockTellsState, Holds, Free
  <2> QED BY <2>1, <2>2 DEF StartRunner
<1>2. UNCHANGED <<program, data, backup, running, overruled, incoming, job>>
  BY DEF RequestStart, StartRunner, files
<1>3. LockTellsState' /\ StepsAreDone'
  <2>1. CASE lock' = Free
    BY <2>1, FreeKeeps
  <2>2. CASE lock' = [by |-> "start", at |-> "systemctl"] /\ status'.state = "READY"
    BY <2>2 DEF LockTellsState, StepsAreDone, Holds, Restoring
  <2> QED
    BY <2>1, <2>2, <1>1 DEF RequestStart, StartRunner, Goes, Ends, UpdateInv, UpdateTypes, IsStatus
<1>4. CASE Fail(FALSE)
  <2>1. status'.state = "FAILED" /\ IsStatus(status')
    BY <1>4, FailFields DEF UpdateInv, UpdateTypes
  <2>2. UpdateTypes' /\ UpdateOrder'
    BY <1>2, <1>3, <2>1 DEF UpdateInv, UpdateTypes, UpdateOrder, IsBackup
  <2>3. ~Overruled => Sound
    BY <1>1 DEF UpdateInv, DiskInv, DiskIsKnown
  <2>4. Overruled' \/ (DiskIsKnown' /\ BackupIsKnown')
    BY <1>1, <1>2, <1>4, <2>3, FailKeeps
  <2> QED BY <1>3, <2>2, <2>4 DEF UpdateInv, DiskInv
<1>5. CASE ~Fail(FALSE)
  <2>1. /\ status'.state = "READY" /\ IsStatus(status') /\ status'.from = status.from
        /\ status'.required = status.required /\ status'.pending = status.pending
        /\ status'.attempts = status.attempts
    BY <1>1, <1>5 DEF RequestStart, StartRunner, UpdateInv, UpdateTypes, IsStatus
  <2>2. UpdateTypes' /\ UpdateOrder'
    BY <1>2, <1>3, <2>1 DEF UpdateInv, UpdateTypes, UpdateOrder, IsBackup
  <2>3. Overruled' \/ DiskInv'
    BY <1>1, <1>2, <1>3, <2>1 DEF UpdateInv, DiskInv, DiskIsKnown, BackupIsKnown, RetryFailed,
       Sound, Whole, GivenUp
  <2> QED BY <2>2, <2>3 DEF UpdateInv
<1> QED BY <1>4, <1>5

LEMMA RunnerBeginsKeeps ==
  ASSUME UpdateInv, RunnerBegins
  PROVE  UpdateInv'
<1>1. status.state = "READY" /\ job.target # Mixed
  BY DEF RunnerBegins, UpdateInv, UpdateOrder
<1>2. UNCHANGED <<program, data, backup, running, overruled, incoming, job>>
  BY DEF RunnerBegins, files
<1>3. CASE Fail(FALSE) /\ Ends(RunnerFailed)
  <2>1. status'.state = "FAILED" /\ IsStatus(status')
    BY <1>3, FailFields DEF UpdateInv, UpdateTypes
  <2>2. LockTellsState' /\ StepsAreDone'
    BY <1>3, FreeKeeps DEF Ends
  <2>3. UpdateTypes' /\ UpdateOrder'
    BY <1>2, <2>1, <2>2 DEF UpdateInv, UpdateTypes, UpdateOrder, IsBackup
  <2>4. ~Overruled => Sound
    BY <1>1 DEF UpdateInv, DiskInv, DiskIsKnown
  <2>5. Overruled' \/ (DiskIsKnown' /\ BackupIsKnown')
    BY <1>1, <1>2, <1>3, <2>4, FailKeeps
  <2> QED BY <2>2, <2>3, <2>5 DEF UpdateInv, DiskInv
<1>4. CASE /\ program = job.base
           /\ status' = [status EXCEPT !.state = "BACKING_UP", !.prev = job.base,
                                       !.required = FALSE, !.pending = FALSE]
           /\ Goes("runner", "backup")
  <2>1. /\ status'.state = "BACKING_UP" /\ IsStatus(status') /\ status'.from = status.from
        /\ status'.required = FALSE /\ status'.pending = FALSE /\ status'.prev = program
        /\ status'.attempts = status.attempts
    BY <1>4 DEF UpdateInv, UpdateTypes, IsStatus
  <2>2. LockTellsState' /\ StepsAreDone'
    BY <1>1, <1>2, <1>4, <2>1 DEF Goes, LockTellsState, StepsAreDone, Restoring
  <2>3. UpdateTypes' /\ UpdateOrder'
    BY <1>2, <2>1, <2>2 DEF UpdateInv, UpdateTypes, UpdateOrder, IsBackup
  <2>4. Overruled' \/ DiskInv'
    BY <1>1, <1>2, <2>1, <2>2 DEF UpdateInv, DiskInv, DiskIsKnown, BackupIsKnown, RetryFailed,
       Sound, Whole, GivenUp
  <2> QED BY <2>3, <2>4 DEF UpdateInv
<1> QED BY <1>3, <1>4 DEF RunnerBegins

LEMMA FailBeforeInstallKeeps ==
  ASSUME UpdateInv, FailBeforeInstall
  PROVE  UpdateInv'
<1>1. status.state \in {"BACKING_UP", "STOPPING"}
  BY DEF FailBeforeInstall, UpdateInv, UpdateOrder, LockTellsState, Holds, Free
<1>2. Fail(FALSE) /\ UNCHANGED <<program, data, running, overruled, incoming, job>>
  BY DEF FailBeforeInstall
<1>3. status'.state = "FAILED" /\ IsStatus(status') /\ status'.required = FALSE
  BY <1>2, FailFields DEF UpdateInv, UpdateTypes
<1>4. ~Overruled => Sound
  BY <1>1 DEF UpdateInv, DiskInv, DiskIsKnown
<1>5. LockTellsState' /\ (Overruled' \/ StepsAreDone')
  <2>1. CASE lock' = Free
    BY <2>1, FreeKeeps
  <2>2. CASE lock' = [by |-> "runner", at |-> "restart"]
    BY <2>2, <1>2, <1>3, <1>4 DEF LockTellsState, StepsAreDone, Restoring, Sound
  <2> QED BY <2>1, <2>2 DEF FailBeforeInstall, Ends, Goes
<1>6. UpdateTypes' /\ UpdateOrder'
  BY <1>2, <1>3, <1>5 DEF FailBeforeInstall, UpdateInv, UpdateTypes, UpdateOrder, IsBackup, NoBackup
<1>7. Overruled' \/ (DiskIsKnown' /\ BackupIsKnown')
  BY <1>1, <1>2, <1>4, FailKeeps
<1> QED BY <1>5, <1>6, <1>7 DEF UpdateInv, DiskInv

LEMMA FailAfterInstallKeeps ==
  ASSUME UpdateInv, FailAfterInstall
  PROVE  UpdateInv'
<1>1. status.state \in {"INSTALLING", "STARTING", "VERIFYING"}
  BY DEF FailAfterInstall, UpdateInv, UpdateOrder, LockTellsState, Holds, Free
<1>2. /\ UNCHANGED <<program, data, backup, running, overruled, incoming, job>>
      /\ lock' = [by |-> "runner", at |-> "rollback"]
  BY DEF FailAfterInstall, files, Goes
<1>3. /\ status'.state = "ROLLING_BACK" /\ IsStatus(status') /\ status'.required = FALSE
      /\ status'.pending = FALSE /\ status'.prev = status.prev
  BY DEF FailAfterInstall, UpdateInv, UpdateTypes, IsStatus
<1>4. ~Overruled => BackupIsGood /\ (running => Whole)
  BY <1>1 DEF UpdateInv, DiskInv, DiskIsKnown, BackupIsKnown, GivenUp
<1>5. UpdateTypes' /\ UpdateOrder'
  BY <1>2, <1>3 DEF UpdateInv, UpdateTypes, UpdateOrder, IsBackup, LockTellsState
<1>6. Overruled' \/ DiskInv'
  BY <1>2, <1>3, <1>4 DEF DiskInv, DiskIsKnown, BackupIsKnown, StepsAreDone, BackupIsGood, Whole,
     RetryFailed
<1> QED BY <1>5, <1>6 DEF UpdateInv

LEMMA RollbackFailsKeeps ==
  ASSUME UpdateInv, RollbackFails
  PROVE  UpdateInv'
<1>1. /\ status.state = "ROLLING_BACK" /\ lock.by = "runner"
      /\ lock.at \in {"rollback", "reinstall", "replace", "recopy"} \/ status.pending
  BY DEF RollbackFails, StepFails, UpdateInv, UpdateOrder, LockTellsState, Holds, Free
<1>2. UNCHANGED <<program, data, backup, running, overruled, incoming, job>> /\ lock' = Free
  BY DEF RollbackFails, files, Ends
<1>3. /\ status'.state = "FAILED" /\ IsStatus(status') /\ status'.required = TRUE
      /\ status'.pending = status.pending /\ status'.prev = status.prev
  BY DEF RollbackFails, UpdateInv, UpdateTypes, IsStatus
<1>4. ~Overruled =>
        /\ BackupIsGood /\ (running => Whole)
        /\ status.pending => Sound /\ program = status.prev
  BY <1>1 DEF UpdateInv, DiskInv, DiskIsKnown, BackupIsKnown, StepsAreDone, Restoring, GivenUp
<1>5. LockTellsState' /\ StepsAreDone'
  BY <1>2, FreeKeeps
<1>6. UpdateTypes' /\ UpdateOrder'
  BY <1>2, <1>3, <1>5 DEF UpdateInv, UpdateTypes, UpdateOrder, IsBackup
<1>7. Overruled' \/ (DiskIsKnown' /\ BackupIsKnown')
  BY <1>2, <1>3, <1>4 DEF DiskIsKnown, BackupIsKnown, BackupIsGood, Whole, RetryFailed, Sound
<1> QED BY <1>5, <1>6, <1>7 DEF UpdateInv, DiskInv

LEMMA RecoverKeeps ==
  ASSUME UpdateInv, StateIsNamed, Recover
  PROVE  UpdateInv'
<1> DEFINE Given == (status.state \in RecoveryRollback \/ RetryFailed) /\ Exhausted
           Cleared == status.state \in {"VALIDATING", "BACKING_UP"}
<1>1. /\ UNCHANGED <<program, data, running, overruled, incoming>>
      /\ status.state # "SUCCESS" => job' = job \/ job' = NoJob
      /\ status.state = "SUCCESS" => job' = job
  BY DEF Recover, Terminal, RetryFailed, RecoveryRollback
<1>2. CASE /\ Fail(FALSE) /\ Ends(RecoveryLeft)
           /\ \/ Cleared
              \/ Given /\ UNCHANGED backup
           /\ IsBackup(backup')
  <2>1. status'.state = "FAILED" /\ IsStatus(status')
    BY <1>2, FailFields DEF UpdateInv, UpdateTypes
  <2>2. LockTellsState' /\ StepsAreDone'
    BY <1>2, FreeKeeps DEF Ends
  <2>3. UpdateTypes' /\ UpdateOrder'
    BY <1>1, <1>2, <2>1, <2>2 DEF UpdateInv, UpdateTypes, UpdateOrder, RetryFailed, RecoveryRollback
  <2>4. ~Overruled => Sound \/ Exhausted
    BY <1>2 DEF UpdateInv, DiskInv, DiskIsKnown
  <2>5. status.state # "FAILED" \/ RetryFailed
    BY <1>2 DEF RecoveryRollback
  <2>6. Overruled' \/ (DiskIsKnown' /\ BackupIsKnown')
    BY <1>1, <1>2, <2>4, <2>5, FailKeeps
  <2> QED BY <2>2, <2>3, <2>6 DEF UpdateInv, DiskInv
<1>3. CASE /\ status' = [status EXCEPT
                           !.state = "ROLLING_BACK", !.required = TRUE, !.pending = FALSE,
                           !.from = IF @ = "" THEN status.state ELSE @,
                           !.attempts = @ + 1, !.requested = FALSE]
           /\ Goes("recovery", IF backup.complete THEN "rollback" ELSE "giveup")
           /\ UNCHANGED <<backup, job>>
           /\ status.state \in RecoveryRollback \/ RetryFailed
  <2>1. /\ status'.state = "ROLLING_BACK" /\ IsStatus(status') /\ status'.required = TRUE
        /\ status'.pending = FALSE /\ status'.prev = status.prev
        /\ status'.from = IF status.from = "" THEN status.state ELSE status.from
    BY <1>3 DEF UpdateInv, UpdateTypes, IsStatus
  <2>2. LockTellsState'
    BY <1>3, <2>1 DEF LockTellsState, Goes
  <2>3. UpdateTypes' /\ UpdateOrder'
    BY <1>1, <1>3, <2>1, <2>2 DEF UpdateInv, UpdateTypes, UpdateOrder, IsBackup
  <2>4. ~Overruled => /\ running => Whole
                      /\ backup.complete => BackupIsGood
                      /\ ~backup.complete => Sound /\ status'.from = "STOPPING"
    BY <1>3, <2>1 DEF UpdateInv, DiskInv, DiskIsKnown, BackupIsKnown, BackupIsGood, RecoveryRollback,
       RetryFailed, GivenUp, Sound, Whole
  <2>5. StepsAreDone'
    BY <1>3 DEF StepsAreDone, Goes, Restoring
  <2>6. Overruled' \/ (DiskIsKnown' /\ BackupIsKnown')
    BY <1>1, <1>3, <2>1, <2>4 DEF DiskIsKnown, BackupIsKnown, BackupIsGood, RetryFailed, Whole, Sound
  <2> QED BY <2>3, <2>5, <2>6 DEF UpdateInv, DiskInv
<1>4. CASE /\ Ends(RecoveryLeft) /\ UNCHANGED <<backup, job>>
           /\ \/ status' = status
              \/ status.state = "READY" /\ status' = [status EXCEPT !.requested = FALSE]
  <2>1. /\ IsStatus(status') /\ status'.state = status.state /\ status'.required = status.required
        /\ status'.pending = status.pending /\ status'.prev = status.prev
        /\ status'.from = status.from /\ status'.attempts = status.attempts
    BY <1>4 DEF UpdateInv, UpdateTypes, IsStatus
  <2>2. LockTellsState' /\ StepsAreDone'
    BY <1>4, FreeKeeps DEF Ends
  <2>3. UpdateTypes' /\ UpdateOrder'
    BY <1>1, <1>4, <2>1, <2>2 DEF UpdateInv, UpdateTypes, UpdateOrder, IsBackup
  <2>4. Overruled' \/ DiskInv'
    BY <1>1, <1>4, <2>1, <2>2 DEF UpdateInv, DiskInv, DiskIsKnown, BackupIsKnown, BackupIsGood,
       RetryFailed, Sound, Whole, GivenUp, Exhausted
  <2> QED BY <2>3, <2>4 DEF UpdateInv
<1>5. IsBackup(NoBackup) /\ IsBackup(backup)
  BY DEF IsBackup, NoBackup, UpdateInv, UpdateTypes
<1> HIDE DEF Given, Cleared
<1>6. CASE status.state \in Terminal /\ ~RetryFailed
  <2>1. Ends(RecoveryLeft) /\ UNCHANGED <<status, backup, job>>
    BY <1>6 DEF Recover, Terminal, RetryFailed, RecoveryRollback
  <2>2. Ends(RecoveryLeft) /\ UNCHANGED <<backup, job>> /\ status' = status
    BY <2>1
  <2> QED BY <2>2, <1>4
<1>7. CASE status.state = "READY"
  <2>1. /\ status' = [status EXCEPT !.requested = FALSE]
        /\ Ends(RecoveryLeft) /\ UNCHANGED <<backup, job>>
    BY <1>7 DEF Recover, Terminal, RetryFailed, RecoveryRollback
  <2> QED BY <2>1, <1>7, <1>4
<1>8. CASE Cleared
  <2>1. /\ Fail(FALSE) /\ Ends(RecoveryLeft)
        /\ backup' = IF status.state = "BACKING_UP" THEN NoBackup ELSE backup
    BY <1>8 DEF Recover, Terminal, RetryFailed, RecoveryRollback, Cleared
  <2> QED BY <1>8, <2>1, <1>2, <1>5
<1>9. CASE Given
  <2>1. Fail(FALSE) /\ Ends(RecoveryLeft) /\ UNCHANGED <<backup, job>>
    BY <1>9 DEF Recover, Terminal, RetryFailed, RecoveryRollback, Given
  <2> QED BY <1>9, <2>1, <1>2, <1>5
<1>10. CASE /\ ~(status.state \in Terminal /\ ~RetryFailed) /\ status.state # "READY"
            /\ ~Cleared /\ ~Given
  <2>1. /\ status' = [status EXCEPT
                         !.state = "ROLLING_BACK", !.required = TRUE, !.pending = FALSE,
                         !.from = IF @ = "" THEN status.state ELSE @,
                         !.attempts = @ + 1, !.requested = FALSE]
        /\ Goes("recovery", IF backup.complete THEN "rollback" ELSE "giveup")
        /\ UNCHANGED <<backup, job>>
    BY <1>10 DEF Recover, Cleared, Given
  <2>2. status.state \in RecoveryRollback \/ RetryFailed
    BY <1>10 DEF StateIsNamed, Terminal, Active, RecoveryRollback, RetryFailed, Cleared
  <2> QED BY <2>1, <2>2, <1>3
<1> QED
  BY <1>6, <1>7, <1>8, <1>9, <1>10

LEMMA RecoveryEndsKeeps ==
  ASSUME UpdateInv, RecoverWithoutBackup \/ RecoveryFails
  PROVE  UpdateInv'
<1>1. status.state = "ROLLING_BACK" /\ lock.by = "recovery"
  BY DEF RecoverWithoutBackup, RecoveryFails, UpdateInv, UpdateOrder, LockTellsState, Holds, Free
<1>2. /\ UNCHANGED <<program, data, running, overruled, incoming, job>> /\ lock' = Free
      /\ IsBackup(backup')
  BY DEF RecoverWithoutBackup, RecoveryFails, files, Ends, IsBackup, NoBackup, UpdateInv, UpdateTypes
<1>3. LockTellsState' /\ StepsAreDone'
  BY <1>2, FreeKeeps
<1>4. PICK r \in BOOLEAN : /\ Fail(r)
                           /\ ~Overruled /\ r => BackupIsGood /\ UNCHANGED backup
                           /\ ~Overruled /\ ~r => Sound \/ Exhausted
  <2>1. CASE RecoverWithoutBackup
    <3> DEFINE r == status.from # "STOPPING" /\ ~Exhausted
    <3>1. ~Overruled => Sound /\ status.from = "STOPPING"
      BY <1>1, <2>1 DEF RecoverWithoutBackup, Holds, UpdateInv, DiskInv, StepsAreDone, BackupIsKnown, Restoring
    <3>2. Fail(r) /\ r \in BOOLEAN
      BY <2>1 DEF RecoverWithoutBackup
    <3> QED BY <3>1, <3>2
  <2>2. CASE RecoveryFails
    <3> DEFINE r == ~Exhausted
    <3>1. lock.at \in {"rollback", "reinstall", "replace", "recopy"}
      BY <2>2 DEF RecoveryFails, UpdateInv, UpdateOrder, LockTellsState, Holds, Free
    <3>2. ~Overruled => BackupIsGood
      BY <1>1, <3>1 DEF UpdateInv, DiskInv, StepsAreDone, BackupIsKnown, Restoring
    <3>3. Fail(r) /\ r \in BOOLEAN /\ UNCHANGED backup
      BY <2>2 DEF RecoveryFails, files
    <3> QED BY <3>2, <3>3
  <2> QED BY <2>1, <2>2
<1>5. status'.state = "FAILED" /\ IsStatus(status')
  BY <1>4, FailFields DEF UpdateInv, UpdateTypes
<1>6. UpdateTypes' /\ UpdateOrder'
  BY <1>2, <1>3, <1>5 DEF UpdateInv, UpdateTypes, UpdateOrder
<1>7. Overruled' \/ (DiskIsKnown' /\ BackupIsKnown')
  BY <1>1, <1>2, <1>4, FailKeeps
<1> QED BY <1>3, <1>6, <1>7 DEF UpdateInv, DiskInv

LEMMA EndReinstallKeeps ==
  ASSUME UpdateInv, NEW by \in Restoring, EndReinstall(by)
  PROVE  UpdateInv'
<1>1. /\ status.state = "ROLLING_BACK" /\ ~status.pending /\ lock = [by |-> by, at |-> "replace"]
      /\ by \in {"runner", "recovery"}
  BY DEF EndReinstall, StepOf, UpdateInv, UpdateOrder, LockTellsState, Holds, Free, Restoring
<1>2. /\ UNCHANGED <<status, backup, incoming, job, running, overruled>>
      /\ program' = backup.program /\ lock' = [by |-> by, at |-> "recopy"]
  BY DEF EndReinstall, StepOf, Goes
<1>3. UpdateTypes' /\ UpdateOrder'
  BY <1>1, <1>2 DEF UpdateInv, UpdateTypes, UpdateOrder, IsStatus, IsBackup, LockTellsState
<1>4. ~Overruled => backup.complete /\ BackupIsGood /\ ~running
  BY <1>1 DEF UpdateInv, DiskInv, BackupIsKnown, StepsAreDone, Restoring
<1>5. Overruled' \/ DiskInv'
  BY <1>1, <1>2, <1>4 DEF DiskInv, DiskIsKnown, BackupIsKnown, StepsAreDone, BackupIsGood, RetryFailed
<1> QED BY <1>3, <1>5 DEF UpdateInv

LEMMA RestoreDataKeeps ==
  ASSUME UpdateInv, NEW by \in Restoring, RestoreData(by)
  PROVE  UpdateInv'
<1>1. /\ status.state = "ROLLING_BACK" /\ lock = [by |-> by, at |-> "recopy"]
      /\ by \in {"runner", "recovery"}
  BY DEF RestoreData, UpdateInv, UpdateOrder, LockTellsState, Holds, Free, Restoring
<1>2. /\ UNCHANGED <<program, backup, incoming, job, running, overruled>> /\ data' = backup.data
      /\ lock' = Free \/ lock' = [by |-> "runner", at |-> "restore"]
  BY DEF RestoreData, Goes, Ends
<1>3. /\ IsStatus(status') /\ status'.state = "ROLLING_BACK" /\ status'.pending = TRUE
      /\ status'.prev = status.prev
  BY <1>1 DEF RestoreData, UpdateInv, UpdateTypes, IsStatus
<1>4. LockTellsState' /\ StepsAreDone'
  BY <1>2, <1>3, FreeKeeps DEF LockTellsState, StepsAreDone, Restoring
<1>5. UpdateTypes' /\ UpdateOrder'
  BY <1>2, <1>3, <1>4 DEF UpdateInv, UpdateTypes, UpdateOrder, IsBackup
<1>6. ~Overruled => backup.complete /\ BackupIsGood /\ program = status.prev
  BY <1>1 DEF UpdateInv, DiskInv, BackupIsKnown, BackupIsGood, StepsAreDone, Restoring
<1>7. Overruled' \/ (DiskIsKnown' /\ BackupIsKnown')
  BY <1>2, <1>3, <1>6 DEF DiskIsKnown, BackupIsKnown, BackupIsGood, RetryFailed, Sound, Whole
<1> QED BY <1>4, <1>5, <1>7 DEF UpdateInv, DiskInv

LEMMA ImportKeeps ==
  ASSUME UpdateInv, NEW k \in 1..MaxPackage, Import(k)
  PROVE  UpdateInv'
<1>1. /\ UNCHANGED <<program, data, backup, running>> /\ incoming' = k /\ k # Mixed
      /\ job' = job \/ (job' = NoJob /\ status.state = "READY")
      /\ status.state \notin Active /\ lock = Free
  <2>1. k # Mixed
    BY PackageIsVersion
  <2>2. /\ lock = Free /\ ~ActiveOrRequested /\ incoming' = k
        /\ job' = IF status.state = "READY" THEN NoJob ELSE job
        /\ UNCHANGED <<program, data, backup, running>>
    BY DEF Import
  <2> QED BY <2>1, <2>2 DEF ActiveOrRequested
<1>2. CASE UNCHANGED <<status, lock, overruled>>
  <2>1. LockTellsState' /\ StepsAreDone'
    BY <1>1, <1>2, FreeKeeps
  <2>2. UpdateTypes' /\ UpdateOrder'
    BY <1>1, <1>2, <2>1 DEF UpdateInv, UpdateTypes, UpdateOrder, IsStatus, IsBackup
  <2>3. Overruled' \/ (DiskIsKnown' /\ BackupIsKnown')
    BY <1>1, <1>2 DEF UpdateInv, DiskInv, DiskIsKnown, BackupIsKnown, BackupIsGood, RetryFailed, Sound,
       Whole, GivenUp, Exhausted
  <2> QED BY <2>1, <2>2, <2>3 DEF UpdateInv, DiskInv
<1>3. CASE /\ status' = [DefaultStatus EXCEPT !.state = "VALIDATING"]
           /\ overruled' = CASE overruled = "hand" -> "hand"
                             [] overruled # "hand" /\ (status.required \/ GivenUp) -> "validation"
                             [] OTHER -> IF overruled = "outcome" THEN "no" ELSE overruled
           /\ Goes("validate", "extract")
  <2>1. /\ status'.state = "VALIDATING" /\ IsStatus(status') /\ status'.from = ""
        /\ status'.required = FALSE /\ status'.pending = FALSE
    BY <1>3 DEF DefaultStatus, IsStatus
  <2>2. LockTellsState' /\ StepsAreDone'
    BY <1>1, <1>3, <2>1 DEF LockTellsState, Goes, Holds, StepsAreDone, Restoring
  <2>3. UpdateTypes' /\ UpdateOrder'
    BY <1>1, <2>1, <2>2 DEF UpdateInv, UpdateTypes, UpdateOrder, IsBackup
  <2>4. ~Overruled' => ~Overruled /\ ~status.required /\ ~GivenUp
    BY <1>3
  <2>5. ~Overruled' => Sound
    BY <1>1, <2>4 DEF UpdateInv, DiskInv, DiskIsKnown, GivenUp, Active
  <2>6. Overruled' \/ (DiskIsKnown' /\ BackupIsKnown')
    BY <1>1, <2>1, <2>5 DEF DiskIsKnown, BackupIsKnown, RetryFailed, Sound, Whole
  <2> QED BY <2>2, <2>3, <2>6 DEF UpdateInv, DiskInv
<1> QED BY <1>2, <1>3 DEF Import

LEMMA EndInstallKeeps ==
  ASSUME UpdateInv, EndInstall
  PROVE  UpdateInv'
<1>1. status.state = "INSTALLING" /\ job.target # Mixed
  BY DEF EndInstall, RunnerStep, UpdateInv, UpdateOrder, LockTellsState, Holds, Free
<1>2. /\ UNCHANGED <<data, backup, incoming, job, running, overruled>> /\ program' = job.target
      /\ lock' = [by |-> "runner", at |-> "start"]
  BY DEF EndInstall, RunnerStep, Goes
<1>3. /\ IsStatus(status') /\ status'.state = "STARTING" /\ status'.prev = status.prev
      /\ status'.pending = status.pending
  BY <1>1 DEF EndInstall, UpdateInv, UpdateTypes, IsStatus
<1>4. UpdateTypes' /\ UpdateOrder'
  BY <1>1, <1>2, <1>3 DEF UpdateInv, UpdateTypes, UpdateOrder, LockTellsState, IsBackup
<1>5. ~Overruled => BackupIsGood /\ data # Mixed /\ ~running /\ ~status.pending
  <2>1. lock = [by |-> "runner", at |-> "copy"]
    BY DEF EndInstall, RunnerStep, Holds
  <2>2. ~Overruled => BackupIsGood /\ ~running /\ ~status.pending
    BY <1>1, <2>1 DEF UpdateInv, DiskInv, BackupIsKnown, RetryFailed, StepsAreDone, Restoring
  <2>3. ~Overruled => data # Mixed
    BY <1>1 DEF UpdateInv, DiskInv, DiskIsKnown, Sound
  <2> QED BY <2>2, <2>3
<1>6. Overruled' \/ DiskInv'
  BY <1>1, <1>2, <1>3, <1>5 DEF DiskInv, DiskIsKnown, BackupIsKnown, StepsAreDone, BackupIsGood,
     RetryFailed, Whole
<1> QED BY <1>4, <1>6 DEF UpdateInv

(***************************************************************************)
(* The other actions: what each sets is all its step needs.                *)
(***************************************************************************)
LEMMA RunnerRefusedKeeps ==
  ASSUME UpdateInv, RunnerRefused
  PROVE  UpdateInv'
<1> USE DEF RunnerRefused, NoJob, RunnerFailed, RunnerLeft, files
<1>1. UpdateTypes'
  BY DEF UpdateInv, UpdateTypes, IsStatus, IsBackup, NoBackup
<1>2. UpdateOrder'
  BY DEF UpdateInv, UpdateTypes, IsStatus, UpdateOrder, LockTellsState, Holds, Free
<1>3. Overruled' \/ DiskIsKnown'
  BY DEF UpdateInv, UpdateTypes, IsStatus, UpdateOrder, LockTellsState, Holds, Free,
     DiskInv, DiskIsKnown, Sound, Whole, GivenUp, Exhausted
<1>4. Overruled' \/ BackupIsKnown'
  BY DEF UpdateInv, UpdateTypes, IsStatus, UpdateOrder, LockTellsState, Holds, Free,
     DiskInv, BackupIsKnown, BackupIsGood, Sound, RetryFailed
<1>5. Overruled' \/ StepsAreDone'
  BY DEF UpdateInv, UpdateTypes, IsStatus, UpdateOrder, LockTellsState, Holds, Free,
     DiskInv, StepsAreDone, Restoring, Sound
<1> QED BY <1>1, <1>2, <1>3, <1>4, <1>5 DEF UpdateInv, DiskInv

LEMMA BackUpProgramKeeps ==
  ASSUME UpdateInv, BackUpProgram
  PROVE  UpdateInv'
<1> USE DEF BackUpProgram, RunnerStep, Holds, Goes, NoBackup
<1>1. UpdateTypes'
  BY DEF UpdateInv, UpdateTypes, IsStatus, IsBackup
<1>2. UpdateOrder'
  BY DEF UpdateInv, UpdateTypes, IsStatus, UpdateOrder, LockTellsState, Free
<1>3. Overruled' \/ DiskIsKnown'
  BY DEF UpdateInv, UpdateTypes, IsStatus, UpdateOrder, LockTellsState, Free, DiskInv,
     DiskIsKnown, Sound, Whole, GivenUp, Exhausted
<1>4. Overruled' \/ BackupIsKnown'
  BY DEF UpdateInv, UpdateTypes, IsStatus, UpdateOrder, LockTellsState, Free, DiskInv,
     BackupIsKnown, BackupIsGood, Sound, RetryFailed
<1>5. Overruled' \/ StepsAreDone'
  BY DEF UpdateInv, UpdateTypes, IsStatus, UpdateOrder, LockTellsState, Free, DiskInv,
     StepsAreDone, Restoring, Sound
<1> QED BY <1>1, <1>2, <1>3, <1>4, <1>5 DEF UpdateInv, DiskInv

LEMMA StopServicesKeeps ==
  ASSUME UpdateInv, StopServices
  PROVE  UpdateInv'
<1> USE DEF StopServices, RunnerStep, Holds, Goes, files
<1>1. UpdateTypes'
  BY DEF UpdateInv, UpdateTypes, IsStatus, IsBackup, NoBackup
<1>2. UpdateOrder'
  BY DEF UpdateInv, UpdateTypes, IsStatus, UpdateOrder, LockTellsState, Free
<1>3. Overruled' \/ DiskIsKnown'
  BY DEF UpdateInv, UpdateTypes, IsStatus, UpdateOrder, LockTellsState, Free, DiskInv,
     DiskIsKnown, Sound, Whole, GivenUp, Exhausted
<1>4. Overruled' \/ BackupIsKnown'
  BY DEF UpdateInv, UpdateTypes, IsStatus, UpdateOrder, LockTellsState, Free, DiskInv,
     BackupIsKnown, BackupIsGood, Sound, RetryFailed
<1>5. Overruled' \/ StepsAreDone'
  BY DEF UpdateInv, UpdateTypes, IsStatus, UpdateOrder, LockTellsState, Free, DiskInv,
     StepsAreDone, Restoring, Sound
<1> QED BY <1>1, <1>2, <1>3, <1>4, <1>5 DEF UpdateInv, DiskInv

LEMMA CommitBackupKeeps ==
  ASSUME UpdateInv, CommitBackup
  PROVE  UpdateInv'
<1> USE DEF CommitBackup, RunnerStep, Holds, Goes
<1>1. UpdateTypes'
  BY DEF UpdateInv, UpdateTypes, IsStatus, IsBackup, NoBackup
<1>2. UpdateOrder'
  BY DEF UpdateInv, UpdateTypes, IsStatus, UpdateOrder, LockTellsState, Free
<1>3. Overruled' \/ DiskIsKnown'
  BY DEF UpdateInv, UpdateTypes, IsStatus, UpdateOrder, LockTellsState, Free, DiskInv,
     DiskIsKnown, Sound, Whole, GivenUp, Exhausted, IsBackup
<1>4. Overruled' \/ BackupIsKnown'
  BY DEF UpdateInv, UpdateTypes, IsStatus, UpdateOrder, LockTellsState, Free, DiskInv,
     BackupIsKnown, BackupIsGood, Sound, RetryFailed, IsBackup, DiskIsKnown, StepsAreDone,
     Restoring
<1>5. Overruled' \/ StepsAreDone'
  BY DEF UpdateInv, UpdateTypes, IsStatus, UpdateOrder, LockTellsState, Free, DiskInv,
     StepsAreDone, Restoring, Sound
<1> QED BY <1>1, <1>2, <1>3, <1>4, <1>5 DEF UpdateInv, DiskInv

LEMMA BeginInstallKeeps ==
  ASSUME UpdateInv, BeginInstall
  PROVE  UpdateInv'
<1> USE DEF BeginInstall, RunnerStep, Holds, Goes
<1>1. UpdateTypes'
  BY DEF UpdateInv, UpdateTypes, IsStatus, IsBackup, NoBackup
<1>2. UpdateOrder'
  BY DEF UpdateInv, UpdateTypes, IsStatus, UpdateOrder, LockTellsState, Free
<1>3. Overruled' \/ DiskIsKnown'
  BY DEF UpdateInv, UpdateTypes, IsStatus, UpdateOrder, LockTellsState, Free, DiskInv,
     DiskIsKnown, Sound, Whole, GivenUp, Exhausted
<1>4. Overruled' \/ BackupIsKnown'
  BY DEF UpdateInv, UpdateTypes, IsStatus, UpdateOrder, LockTellsState, Free, DiskInv,
     BackupIsKnown, BackupIsGood, Sound, RetryFailed, StepsAreDone, Restoring
<1>5. Overruled' \/ StepsAreDone'
  BY DEF UpdateInv, UpdateTypes, IsStatus, UpdateOrder, LockTellsState, Free, DiskInv,
     StepsAreDone, Restoring, Sound
<1> QED BY <1>1, <1>2, <1>3, <1>4, <1>5 DEF UpdateInv, DiskInv

LEMMA StartServicesKeeps ==
  ASSUME UpdateInv, StartServices
  PROVE  UpdateInv'
<1> USE DEF StartServices, RunnerStep, Holds, Goes, ServicesStart
<1>1. UpdateTypes'
  BY DEF UpdateInv, UpdateTypes, IsStatus, IsBackup, NoBackup
<1>2. UpdateOrder'
  BY DEF UpdateInv, UpdateTypes, IsStatus, UpdateOrder, LockTellsState, Free
<1>3. Overruled' \/ DiskIsKnown'
  BY DEF UpdateInv, UpdateTypes, IsStatus, UpdateOrder, LockTellsState, Free, DiskInv,
     DiskIsKnown, Sound, Whole, GivenUp, Exhausted
<1>4. Overruled' \/ BackupIsKnown'
  BY DEF UpdateInv, UpdateTypes, IsStatus, UpdateOrder, LockTellsState, Free, DiskInv,
     BackupIsKnown, BackupIsGood, Sound, RetryFailed
<1>5. Overruled' \/ StepsAreDone'
  BY DEF UpdateInv, UpdateTypes, IsStatus, UpdateOrder, LockTellsState, Free, DiskInv,
     StepsAreDone, Restoring, Sound
<1> QED BY <1>1, <1>2, <1>3, <1>4, <1>5 DEF UpdateInv, DiskInv

LEMMA SucceedKeeps ==
  ASSUME UpdateInv, Succeed
  PROVE  UpdateInv'
<1> USE DEF Succeed, Holds, Ends, RunnerLeft, files
<1>1. UpdateTypes'
  BY DEF UpdateInv, UpdateTypes, IsStatus, IsBackup, NoBackup
<1>2. UpdateOrder'
  BY DEF UpdateInv, UpdateTypes, IsStatus, UpdateOrder, LockTellsState, Free
<1>3. Overruled' \/ DiskIsKnown'
  BY DEF UpdateInv, UpdateTypes, IsStatus, UpdateOrder, LockTellsState, Free, DiskInv,
     DiskIsKnown, Sound, Whole, GivenUp, Exhausted
<1>4. Overruled' \/ BackupIsKnown'
  BY DEF UpdateInv, UpdateTypes, IsStatus, UpdateOrder, LockTellsState, Free, DiskInv,
     BackupIsKnown, BackupIsGood, Sound, RetryFailed
<1>5. Overruled' \/ StepsAreDone'
  BY DEF UpdateInv, UpdateTypes, IsStatus, UpdateOrder, LockTellsState, Free, DiskInv,
     StepsAreDone, Restoring, Sound
<1> QED BY <1>1, <1>2, <1>3, <1>4, <1>5 DEF UpdateInv, DiskInv

LEMMA RestartServicesKeeps ==
  ASSUME UpdateInv, RestartServices
  PROVE  UpdateInv'
<1> USE DEF RestartServices, Holds, Ends, RunnerFailed, RunnerLeft, ServicesStart, Fault
<1>1. UpdateTypes'
  BY DEF UpdateInv, UpdateTypes, IsStatus, IsBackup, NoBackup
<1>2. UpdateOrder'
  BY DEF UpdateInv, UpdateTypes, IsStatus, UpdateOrder, LockTellsState, Free
<1>3. Overruled' \/ DiskIsKnown'
  BY DEF UpdateInv, UpdateTypes, IsStatus, UpdateOrder, LockTellsState, Free, DiskInv,
     DiskIsKnown, Sound, Whole, GivenUp, Exhausted
<1>4. Overruled' \/ BackupIsKnown'
  BY DEF UpdateInv, UpdateTypes, IsStatus, UpdateOrder, LockTellsState, Free, DiskInv,
     BackupIsKnown, BackupIsGood, Sound, RetryFailed
<1>5. Overruled' \/ StepsAreDone'
  BY DEF UpdateInv, UpdateTypes, IsStatus, UpdateOrder, LockTellsState, Free, DiskInv,
     StepsAreDone, Restoring, Sound
<1> QED BY <1>1, <1>2, <1>3, <1>4, <1>5 DEF UpdateInv, DiskInv

LEMMA StartRestoredKeeps ==
  ASSUME UpdateInv, StartRestored
  PROVE  UpdateInv'
<1> USE DEF StartRestored, RunnerStep, Holds, Goes, ServicesStart
<1>1. UpdateTypes'
  BY DEF UpdateInv, UpdateTypes, IsStatus, IsBackup, NoBackup
<1>2. UpdateOrder'
  BY DEF UpdateInv, UpdateTypes, IsStatus, UpdateOrder, LockTellsState, Free
<1>3. Overruled' \/ DiskIsKnown'
  BY DEF UpdateInv, UpdateTypes, IsStatus, UpdateOrder, LockTellsState, Free, DiskInv,
     DiskIsKnown, Sound, Whole, GivenUp, Exhausted
<1>4. Overruled' \/ BackupIsKnown'
  BY DEF UpdateInv, UpdateTypes, IsStatus, UpdateOrder, LockTellsState, Free, DiskInv,
     BackupIsKnown, BackupIsGood, Sound, RetryFailed
<1>5. Overruled' \/ StepsAreDone'
  BY DEF UpdateInv, UpdateTypes, IsStatus, UpdateOrder, LockTellsState, Free, DiskInv,
     StepsAreDone, Restoring, Sound
<1> QED BY <1>1, <1>2, <1>3, <1>4, <1>5 DEF UpdateInv, DiskInv

LEMMA ConfirmRollbackKeeps ==
  ASSUME UpdateInv, ConfirmRollback
  PROVE  UpdateInv'
<1> USE DEF ConfirmRollback, Holds, RolledBack, Ends, RunnerLeft, files
<1>1. UpdateTypes'
  BY DEF UpdateInv, UpdateTypes, IsStatus, IsBackup, NoBackup
<1>2. UpdateOrder'
  BY DEF UpdateInv, UpdateTypes, IsStatus, UpdateOrder, LockTellsState, Free
<1>3. Overruled' \/ DiskIsKnown'
  BY DEF UpdateInv, UpdateTypes, IsStatus, UpdateOrder, LockTellsState, Free, DiskInv,
     DiskIsKnown, Sound, Whole, GivenUp, Exhausted, BackupIsKnown, BackupIsGood
<1>4. Overruled' \/ BackupIsKnown'
  BY DEF UpdateInv, UpdateTypes, IsStatus, UpdateOrder, LockTellsState, Free, DiskInv,
     BackupIsKnown, BackupIsGood, Sound, RetryFailed
<1>5. Overruled' \/ StepsAreDone'
  BY DEF UpdateInv, UpdateTypes, IsStatus, UpdateOrder, LockTellsState, Free, DiskInv,
     StepsAreDone, Restoring, Sound
<1> QED BY <1>1, <1>2, <1>3, <1>4, <1>5 DEF UpdateInv, DiskInv

LEMMA UnitStartsServicesKeeps ==
  ASSUME UpdateInv, UnitStartsServices
  PROVE  UpdateInv'
<1> USE DEF UnitStartsServices, GateOpen, ServicesStart
<1>1. UpdateTypes'
  BY DEF UpdateInv, UpdateTypes, IsStatus, IsBackup, NoBackup
<1>2. UpdateOrder'
  BY DEF UpdateInv, UpdateTypes, IsStatus, UpdateOrder, LockTellsState, Holds, Free
<1>3. Overruled' \/ DiskIsKnown'
  BY DEF UpdateInv, UpdateTypes, IsStatus, UpdateOrder, LockTellsState, Holds, Free,
     DiskInv, DiskIsKnown, Sound, Whole, GivenUp, Exhausted
<1>4. Overruled' \/ BackupIsKnown'
  BY DEF UpdateInv, UpdateTypes, IsStatus, UpdateOrder, LockTellsState, Holds, Free,
     DiskInv, BackupIsKnown, BackupIsGood, Sound, RetryFailed
<1>5. Overruled' \/ StepsAreDone'
  BY GateIsShut DEF UpdateInv, UpdateTypes, IsStatus, UpdateOrder, LockTellsState,
     Holds, Free, DiskInv, StepsAreDone, Restoring, Sound
<1> QED BY <1>1, <1>2, <1>3, <1>4, <1>5 DEF UpdateInv, DiskInv

LEMMA FinalizeRecoveryKeeps ==
  ASSUME UpdateInv, FinalizeRecovery
  PROVE  UpdateInv'
<1> USE DEF FinalizeRecovery, RolledBack, Fault, Fail, files
<1>1. UpdateTypes'
  BY DEF UpdateInv, UpdateTypes, IsStatus, IsBackup, NoBackup
<1>2. UpdateOrder'
  <2>1. LockTellsState'
    BY FreeKeeps
  <2>2. UNCHANGED status \/ status'.state \in {"ROLLED_BACK", "FAILED"}
    BY DEF UpdateInv, UpdateTypes, IsStatus
  <2>3. UNCHANGED <<job, program, overruled>>
    OBVIOUS
  <2> HIDE DEF FinalizeRecovery
  <2> QED BY <2>1, <2>2, <2>3 DEF UpdateInv, UpdateOrder
<1>3. Overruled' \/ DiskIsKnown'
  BY DEF UpdateInv, UpdateTypes, IsStatus, UpdateOrder, LockTellsState, Holds, Free,
     DiskInv, DiskIsKnown, Sound, Whole, GivenUp, Exhausted, BackupIsKnown, BackupIsGood
<1>4. Overruled' \/ BackupIsKnown'
  BY DEF UpdateInv, UpdateTypes, IsStatus, UpdateOrder, LockTellsState, Holds, Free,
     DiskInv, BackupIsKnown, BackupIsGood, Sound, RetryFailed
<1>5. Overruled' \/ StepsAreDone'
  BY DEF UpdateInv, UpdateTypes, IsStatus, UpdateOrder, LockTellsState, Holds, Free,
     DiskInv, StepsAreDone, Restoring, Sound
<1> QED BY <1>1, <1>2, <1>3, <1>4, <1>5 DEF UpdateInv, DiskInv

LEMMA OperatorStartKeeps ==
  ASSUME UpdateInv, OperatorStart
  PROVE  UpdateInv'
<1> USE DEF OperatorStart, GateOpen, ServicesStart
<1>1. UpdateTypes'
  BY DEF UpdateInv, UpdateTypes, IsStatus, IsBackup, NoBackup
<1>2. UpdateOrder'
  BY DEF UpdateInv, UpdateTypes, IsStatus, UpdateOrder, LockTellsState, Holds, Free
<1>3. Overruled' \/ DiskIsKnown'
  BY DEF UpdateInv, UpdateTypes, IsStatus, UpdateOrder, LockTellsState, Holds, Free,
     DiskInv, DiskIsKnown, Sound, Whole, GivenUp, Exhausted
<1>4. Overruled' \/ BackupIsKnown'
  BY DEF UpdateInv, UpdateTypes, IsStatus, UpdateOrder, LockTellsState, Holds, Free,
     DiskInv, BackupIsKnown, BackupIsGood, Sound, RetryFailed
<1>5. Overruled' \/ StepsAreDone'
  BY GateIsShut DEF UpdateInv, UpdateTypes, IsStatus, UpdateOrder, LockTellsState,
     Holds, Free, DiskInv, StepsAreDone, Restoring, Sound
<1> QED BY <1>1, <1>2, <1>3, <1>4, <1>5 DEF UpdateInv, DiskInv

LEMMA KilledKeeps ==
  ASSUME UpdateInv, Killed
  PROVE  UpdateInv'
<1> USE DEF Killed, Fault, Ends, RunnerFailed, RunnerLeft, RecoveryLeft, files
<1>1. UpdateTypes'
  BY DEF UpdateInv, UpdateTypes, IsStatus, IsBackup, NoBackup
<1>2. UpdateOrder'
  BY DEF UpdateInv, UpdateTypes, IsStatus, UpdateOrder, LockTellsState, Holds, Free
<1>3. Overruled' \/ DiskIsKnown'
  BY DEF UpdateInv, UpdateTypes, IsStatus, UpdateOrder, LockTellsState, Holds, Free,
     DiskInv, DiskIsKnown, Sound, Whole, GivenUp, Exhausted
<1>4. Overruled' \/ BackupIsKnown'
  BY DEF UpdateInv, UpdateTypes, IsStatus, UpdateOrder, LockTellsState, Holds, Free,
     DiskInv, BackupIsKnown, BackupIsGood, Sound, RetryFailed
<1>5. Overruled' \/ StepsAreDone'
  BY DEF UpdateInv, UpdateTypes, IsStatus, UpdateOrder, LockTellsState, Holds, Free,
     DiskInv, StepsAreDone, Restoring, Sound
<1> QED BY <1>1, <1>2, <1>3, <1>4, <1>5 DEF UpdateInv, DiskInv

LEMMA PowerCutKeeps ==
  ASSUME UpdateInv, PowerCut
  PROVE  UpdateInv'
<1> USE DEF PowerCut, Fault, Ends, files
<1>1. UpdateTypes'
  BY DEF UpdateInv, UpdateTypes, IsStatus, IsBackup, NoBackup
<1>2. UpdateOrder'
  BY DEF UpdateInv, UpdateTypes, IsStatus, UpdateOrder, LockTellsState, Holds, Free
<1>3. Overruled' \/ DiskIsKnown'
  BY DEF UpdateInv, UpdateTypes, IsStatus, UpdateOrder, LockTellsState, Holds, Free,
     DiskInv, DiskIsKnown, Sound, Whole, GivenUp, Exhausted
<1>4. Overruled' \/ BackupIsKnown'
  BY DEF UpdateInv, UpdateTypes, IsStatus, UpdateOrder, LockTellsState, Holds, Free,
     DiskInv, BackupIsKnown, BackupIsGood, Sound, RetryFailed
<1>5. Overruled' \/ StepsAreDone'
  BY DEF UpdateInv, UpdateTypes, IsStatus, UpdateOrder, LockTellsState, Holds, Free,
     DiskInv, StepsAreDone, Restoring, Sound
<1> QED BY <1>1, <1>2, <1>3, <1>4, <1>5 DEF UpdateInv, DiskInv

LEMMA StopToRestoreKeeps ==
  ASSUME UpdateInv, NEW by \in Restoring, StopToRestore(by)
  PROVE  UpdateInv'
<1> USE DEF StopToRestore, StepOf, Holds, Goes, files
<1>1. UpdateTypes'
  BY DEF UpdateInv, UpdateTypes, IsStatus, IsBackup, NoBackup
<1>2. UpdateOrder'
  BY DEF UpdateInv, UpdateTypes, IsStatus, UpdateOrder, LockTellsState, Free
<1>3. Overruled' \/ DiskIsKnown'
  BY DEF UpdateInv, UpdateTypes, IsStatus, UpdateOrder, LockTellsState, Free, DiskInv,
     DiskIsKnown, Sound, Whole, GivenUp, Exhausted
<1>4. Overruled' \/ BackupIsKnown'
  BY DEF UpdateInv, UpdateTypes, IsStatus, UpdateOrder, LockTellsState, Free, DiskInv,
     BackupIsKnown, BackupIsGood, Sound, RetryFailed
<1>5. Overruled' \/ StepsAreDone'
  BY DEF UpdateInv, UpdateTypes, IsStatus, UpdateOrder, LockTellsState, Free, DiskInv,
     StepsAreDone, Restoring, Sound
<1> QED BY <1>1, <1>2, <1>3, <1>4, <1>5 DEF UpdateInv, DiskInv

LEMMA BeginReinstallKeeps ==
  ASSUME UpdateInv, NEW by \in Restoring, BeginReinstall(by)
  PROVE  UpdateInv'
<1> USE DEF BeginReinstall, StepOf, Holds, Goes
<1>1. UpdateTypes'
  BY DEF UpdateInv, UpdateTypes, IsStatus, IsBackup, NoBackup
<1>2. UpdateOrder'
  BY DEF UpdateInv, UpdateTypes, IsStatus, UpdateOrder, LockTellsState, Free
<1>3. Overruled' \/ DiskIsKnown'
  BY DEF UpdateInv, UpdateTypes, IsStatus, UpdateOrder, LockTellsState, Free, DiskInv,
     DiskIsKnown, Sound, Whole, GivenUp, Exhausted
<1>4. Overruled' \/ BackupIsKnown'
  BY DEF UpdateInv, UpdateTypes, IsStatus, UpdateOrder, LockTellsState, Free, DiskInv,
     BackupIsKnown, BackupIsGood, Sound, RetryFailed
<1>5. Overruled' \/ StepsAreDone'
  BY DEF UpdateInv, UpdateTypes, IsStatus, UpdateOrder, LockTellsState, Free, DiskInv,
     StepsAreDone, Restoring, Sound
<1> QED BY <1>1, <1>2, <1>3, <1>4, <1>5 DEF UpdateInv, DiskInv

LEMMA ManualInstallKeeps ==
  ASSUME UpdateInv, StateIsNamed, NEW k \in Versions, ManualInstall(k)
  PROVE  UpdateInv'
<1>1. /\ UNCHANGED <<status, backup, incoming, job, lock>>
      /\ program' = k /\ k # Mixed
  BY VersionIsWhole DEF ManualInstall
<1>2. UpdateTypes' /\ LockTellsState'
  BY <1>1 DEF ManualInstall, UpdateInv, UpdateTypes, UpdateOrder, IsStatus, IsBackup, LockTellsState,
     Holds
<1>3. UpdateOrder'
  BY <1>1, <1>2 DEF ManualInstall, UpdateInv, UpdateOrder
<1>4. CASE overruled' = "hand"
  BY <1>2, <1>3, <1>4 DEF UpdateInv
<1>5. CASE overruled' # "hand"
  <2>1. /\ ~Overruled /\ ~RetryFailed /\ lock.by \notin Restoring
        /\ status.state \notin Active \ {"VALIDATING"}
        /\ overruled' = IF status.state \in {"SUCCESS", "ROLLED_BACK"} THEN "outcome" ELSE overruled
    BY <1>5 DEF ManualInstall
  <2>2. running' = TRUE /\ data' = IF data = Mixed THEN Mixed ELSE k
    BY <2>1 DEF ManualInstall, GateOpen, RetryFailed, Active
  <2>3. Sound \/ GivenUp
    BY <2>1 DEF UpdateInv, DiskInv, DiskIsKnown, Active, RetryFailed, GivenUp
  <2>4. DiskIsKnown'
    BY <1>1, <2>1, <2>2, <2>3 DEF UpdateInv, DiskInv, DiskIsKnown, Sound, Whole, GivenUp, Exhausted,
       Active
  <2>5. BackupIsKnown'
    BY <1>1, <2>1 DEF UpdateInv, DiskInv, BackupIsKnown, BackupIsGood, RetryFailed, Active
  <2>6. StepsAreDone'
    BY <1>1, <2>1 DEF StepsAreDone
  <2> QED BY <1>2, <1>3, <2>4, <2>5, <2>6 DEF UpdateInv, DiskInv
<1> QED BY <1>4, <1>5

(***************************************************************************)
(* The invariant holds.                                                    *)
(***************************************************************************)
LEMMA NamedKeeps ==
  ASSUME IsStatus(status), StateIsNamed, UpdateNext
  PROVE  StateIsNamed'
<1> USE DEF StateIsNamed, Terminal, Active
<1>1. CASE UNCHANGED status
  BY <1>1
<1>2. ASSUME NEW r, Fail(r) PROVE StateIsNamed'
  BY <1>2, FailFields
<1>3. CASE RolledBack
  BY <1>3 DEF RolledBack, IsStatus
<1>4. CASE Validated \/ StartRunner \/ RunnerBegins \/ RequestStart
  BY <1>1, <1>2, <1>4 DEF Validated, StartRunner, RunnerBegins, RequestStart, IsStatus
<1>5. CASE BackUpProgram \/ BeginInstall \/ EndInstall \/ StartServices \/ Succeed
  BY <1>5 DEF BackUpProgram, BeginInstall, EndInstall, StartServices, Succeed, IsStatus
<1>6. CASE RunnerRefused \/ StopServices \/ CommitBackup \/ RestartServices \/ StartRestored
  BY <1>1, <1>6 DEF RunnerRefused, StopServices, CommitBackup, RestartServices, StartRestored
<1>7. CASE FailBeforeInstall \/ RecoverWithoutBackup \/ RecoveryFails
  BY <1>2, <1>7 DEF FailBeforeInstall, RecoverWithoutBackup, RecoveryFails
<1>8. CASE FailAfterInstall \/ RollbackFails
  BY <1>8 DEF FailAfterInstall, RollbackFails, IsStatus
<1>9. ASSUME NEW by \in Restoring,
             StopToRestore(by) \/ BeginReinstall(by) \/ EndReinstall(by) \/ RestoreData(by)
      PROVE  StateIsNamed'
  BY <1>9 DEF StopToRestore, BeginReinstall, EndReinstall, RestoreData, IsStatus
<1>10. CASE ConfirmRollback \/ FinalizeRecovery
  BY <1>1, <1>2, <1>3, <1>10 DEF ConfirmRollback, FinalizeRecovery
<1>11. CASE Recover
  <2>1. CASE status.state \in Terminal /\ ~RetryFailed
    <3>1. UNCHANGED status
      BY <1>11, <2>1 DEF Recover, RetryFailed, RecoveryRollback
    <3> QED BY <1>1, <3>1
  <2>2. CASE ~(status.state \in Terminal /\ ~RetryFailed)
    BY <1>2, <1>11, <2>2 DEF Recover, RetryFailed, RecoveryRollback, IsStatus
  <2> QED BY <2>1, <2>2
<1>12. ASSUME NEW k \in Versions, Import(k) \/ ManualInstall(k) PROVE StateIsNamed'
  BY <1>12 DEF Import, ManualInstall, DefaultStatus
<1>13. CASE UnitStartsServices \/ OperatorStart \/ Killed \/ PowerCut
  BY <1>1, <1>13 DEF UnitStartsServices, OperatorStart, Killed, PowerCut
<1>14. 1..MaxPackage \subseteq Versions
  BY UpdateAssumption DEF Versions
<1> QED
  BY <1>4, <1>5, <1>6, <1>7, <1>8, <1>9, <1>10, <1>11, <1>12, <1>13, <1>14 DEF UpdateNext, Proceed

LEMMA UpdateStarts ==
  ASSUME UpdateInit
  PROVE  UpdateInv /\ StateIsNamed
<1> USE DEF UpdateInit
<1>1. /\ IsStatus(status) /\ status.state = "IDLE" /\ status.from = ""
      /\ status.required = FALSE /\ status.pending = FALSE
  BY DEF IsStatus, DefaultStatus
<1>2. UpdateTypes /\ StateIsNamed
  BY <1>1 DEF UpdateTypes, IsBackup, NoBackup, StateIsNamed, Terminal
<1>3. UpdateOrder
  BY <1>1 DEF UpdateOrder, LockTellsState
<1>4. Sound
  BY DEF Sound, Mixed
<1>5. DiskIsKnown /\ BackupIsKnown
  BY <1>1, <1>4 DEF DiskIsKnown, BackupIsKnown, RetryFailed, Sound, Whole
<1>6. StepsAreDone
  BY DEF StepsAreDone, Restoring, Free
<1> QED BY <1>2, <1>3, <1>5, <1>6 DEF UpdateInv, DiskInv

LEMMA UpdateStutters ==
  ASSUME UpdateInv, StateIsNamed, UNCHANGED updateVars
  PROVE  UpdateInv' /\ StateIsNamed'
<1> USE DEF updateVars
<1>1. UpdateTypes' /\ StateIsNamed'
  BY DEF UpdateInv, UpdateTypes, IsStatus, IsBackup, StateIsNamed
<1>2. UpdateOrder'
  BY DEF UpdateInv, UpdateOrder, LockTellsState, Holds
<1>3. Overruled' \/ DiskIsKnown'
  BY DEF UpdateInv, DiskInv, DiskIsKnown, Sound, Whole, GivenUp, Exhausted
<1>4. Overruled' \/ BackupIsKnown'
  BY DEF UpdateInv, DiskInv, BackupIsKnown, BackupIsGood, Sound, RetryFailed
<1>5. Overruled' \/ StepsAreDone'
  BY DEF UpdateInv, DiskInv, StepsAreDone, Sound
<1> QED BY <1>1, <1>2, <1>3, <1>4, <1>5 DEF UpdateInv, DiskInv

LEMMA UpdateSteps ==
  ASSUME UpdateInv, StateIsNamed, UpdateNext
  PROVE  UpdateInv'
<1>1. CASE Validated \/ StartRunner \/ RunnerRefused \/ RunnerBegins \/ BackUpProgram \/ StopServices
  BY <1>1, ValidatedKeeps, RequestKeeps, RunnerRefusedKeeps, RunnerBeginsKeeps, BackUpProgramKeeps,
     StopServicesKeeps
<1>2. CASE CommitBackup \/ BeginInstall \/ EndInstall \/ StartServices \/ Succeed
  BY <1>2, CommitBackupKeeps, BeginInstallKeeps, EndInstallKeeps, StartServicesKeeps, SucceedKeeps
<1>3. CASE FailBeforeInstall \/ RestartServices \/ FailAfterInstall
  BY <1>3, FailBeforeInstallKeeps, RestartServicesKeeps, FailAfterInstallKeeps
<1>4. CASE \E by \in Restoring : \/ StopToRestore(by) \/ BeginReinstall(by)
                                 \/ EndReinstall(by) \/ RestoreData(by)
  BY <1>4, StopToRestoreKeeps, BeginReinstallKeeps, EndReinstallKeeps, RestoreDataKeeps
<1>5. CASE StartRestored \/ ConfirmRollback \/ RollbackFails
  BY <1>5, StartRestoredKeeps, ConfirmRollbackKeeps, RollbackFailsKeeps
<1>6. CASE Recover \/ RecoverWithoutBackup \/ RecoveryFails
  BY <1>6, RecoverKeeps, RecoveryEndsKeeps
<1>7. CASE UnitStartsServices \/ FinalizeRecovery
  BY <1>7, UnitStartsServicesKeeps, FinalizeRecoveryKeeps
<1>8. CASE \/ \E k \in 1..MaxPackage : Import(k)
           \/ \E k \in Versions : ManualInstall(k)
  BY <1>8, ImportKeeps, ManualInstallKeeps
<1>9. CASE RequestStart \/ OperatorStart \/ Killed \/ PowerCut
  BY <1>9, RequestKeeps, OperatorStartKeeps, KilledKeeps, PowerCutKeeps
<1> QED
  BY <1>1, <1>2, <1>3, <1>4, <1>5, <1>6, <1>7, <1>8, <1>9 DEF UpdateNext, Proceed

\* The inductive invariant: the lock tells the state, and the state what is on
\* the disk and in the backup.
THEOREM UpdateInductive == UpdateSpec => [](UpdateInv /\ StateIsNamed)
<1>1. UpdateInit => UpdateInv /\ StateIsNamed
  BY UpdateStarts
<1>2. UpdateInv /\ StateIsNamed /\ [UpdateNext]_updateVars => UpdateInv' /\ StateIsNamed'
  BY UpdateStutters, UpdateSteps, NamedKeeps DEF UpdateInv, UpdateTypes
<1> QED BY <1>1, <1>2, PTL DEF UpdateSpec

\* Whatever fails, and wherever the power goes, the services run and may start
\* only over one whole program and whole databases (run_job, restore_backup,
\* recover_transaction and service_start_allowed of update-manager.py).
THEOREM ServicesStayOnWhole == UpdateSpec => []ServicesRunOnWhole
<1>1. UpdateInv /\ StateIsNamed => ServicesRunOnWhole
  <2> SUFFICES ASSUME UpdateInv, StateIsNamed, ~Overruled, running \/ GateOpen
               PROVE  Whole \/ GivenUp
    BY DEF ServicesRunOnWhole
  <2>1. CASE running
    BY <2>1 DEF UpdateInv, DiskInv, DiskIsKnown
  <2>2. CASE GateOpen
    <3>1. CASE Sound
      BY <3>1 DEF Sound, Whole
    <3>2. CASE status.state = "STARTING" /\ Whole
      BY <3>2
    <3>3. CASE status.state = "FAILED" /\ (status.required \/ Exhausted)
      BY <2>2, <3>3 DEF GateOpen, GivenUp
    <3>4. status.state # "INSTALLING" /\ (status.state = "ROLLING_BACK" => status.pending)
      BY <2>2 DEF GateOpen
    <3> QED BY <3>1, <3>2, <3>3, <3>4 DEF UpdateInv, DiskInv, DiskIsKnown
  <2> QED BY <2>1, <2>2
<1> QED BY <1>1, UpdateInductive, PTL

\* Whenever the power goes, what the status tells the recovery and the operator
\* is true of what is on the disk: there is a backup to go back to while one is
\* needed, and SUCCESS and ROLLED_BACK name what is installed.
THEOREM StatusKeepsToTheDisk == UpdateSpec => []StatusTellsTheDisk
<1>1. UpdateInv /\ StateIsNamed => RollbackIsPossible
  <2> SUFFICES ASSUME UpdateInv, ~Overruled,
                      \/ status.state \in {"INSTALLING", "STARTING", "VERIFYING"}
                      \/ status.state = "ROLLING_BACK" /\ status.from # "STOPPING"
                      \/ RetryFailed
               PROVE  backup.complete /\ backup.program = status.prev /\ backup.data # Mixed
    BY DEF RollbackIsPossible
  <2>1. BackupIsGood
    BY DEF UpdateInv, DiskInv, BackupIsKnown
  <2> QED BY <2>1 DEF BackupIsGood
<1>2. UpdateInv /\ StateIsNamed => OutcomeIsInstalled
  <2> SUFFICES ASSUME UpdateInv PROVE OutcomeIsInstalled
    OBVIOUS
  <2>1. status.state = "SUCCESS" => program = job.target \/ overruled \in {"outcome", "hand"}
    BY DEF UpdateInv, UpdateOrder
  <2>2. overruled = "no" /\ status.pending => program = status.prev /\ data = backup.data
    BY DEF UpdateInv, DiskInv, BackupIsKnown, BackupIsGood, Sound
  <2>3. overruled = "no" /\ status.state = "ROLLED_BACK"
          => program = status.prev /\ (running \/ data = backup.data)
    BY DEF UpdateInv, DiskInv, DiskIsKnown
  <2> QED BY <2>1, <2>2, <2>3 DEF OutcomeIsInstalled
<1> QED BY <1>1, <1>2, UpdateInductive, PTL DEF StatusTellsTheDisk

=============================================================================
