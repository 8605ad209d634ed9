----------------------------- MODULE TimeService -----------------------------
(***************************************************************************)
(* The system time: the time zone and the NTP daemon the service manages,  *)
(* kept in step with the stored settings (linux_time_runtime.cpp,          *)
(* backend_time_settings.cpp), and the detection of changes of the clock,  *)
(* which are made by commands and by others (time_jump_detector.cpp,       *)
(* backend_time_change.cpp).  time_service_mutex_ lets one operation or    *)
(* one look of the monitor run at a time.                                  *)
(*                                                                         *)
(* External: the clock, the daemons, the files of the zone.  A change of   *)
(* the clock is one of a minute or more; smaller ones are left out.        *)
(***************************************************************************)
EXTENDS Integers

CONSTANTS
  Zones,       (* time zones                                                *)
  Servers,     (* pairs of NTP servers                                      *)
  MaxChanges   (* bound: changes of the clock                               *)

ASSUME TimeAssumption == MaxChanges \in Nat /\ Servers # {} /\ Zones # {}

VARIABLES
  zone,          (* /etc/localtime and /etc/timezone                        *)
  daemon,        (* the managed ntpd: its servers, or "none"                *)
  foreign,       (* another ntpd runs                                       *)
  timeStored,    (* the settings in the database                            *)
  timeSettings,  (* system_config_.time_settings                            *)
  timeApplied,   (* applied_time_settings_                                  *)
  task,          (* who holds time_service_mutex_                           *)
  axis,          (* how often the clock was changed                         *)
  seen,          (* the changes the baseline of the detector includes       *)
  grace,         (* the monitor has been running for less than 15 s         *)
  handled,       (* history: how often each change was handled              *)
  excused        (* history: changes the code does not look for             *)

clockVars == <<axis, seen, grace, handled, excused>>
zoneVars  == <<zone, daemon, foreign, timeStored, timeSettings, timeApplied>>
timeVars  == <<zoneVars, task, clockVars>>

Off == "off"

TimeSettings == [zone : Zones, ntp : Servers \cup {Off}]

Pending == timeSettings # timeApplied

Relaxed(kind) ==
  [at |-> "idle", kind |-> kind, next |-> timeSettings, before |-> 0, after |-> 0, known |-> TRUE]

(***************************************************************************)
(* Starting and stopping the managed daemon.                               *)
(***************************************************************************)
Result(d, f, ok) == [daemon |-> d, foreign |-> f, ok |-> ok]

(* The daemon stops or, being in nobody's power, goes on.                  *)
Stops(d, f) == {Result("none", f, TRUE), Result(d, f, FALSE)}

(* Another daemon is told to stop first.  A managed one that runs is left  *)
(* running, otherwise one is started with the servers; it may come up only *)
(* after it was given up.  When the other is back, ours is stopped again.  *)
Starts(d, f, servers) ==
  (IF f THEN {Result(d, TRUE, FALSE)} ELSE {}) \cup
  (IF d # "none" THEN {Result(d, FALSE, TRUE)}
   ELSE {Result(servers, FALSE, TRUE), Result("none", FALSE, FALSE),
         Result(servers, FALSE, FALSE)}) \cup
  {Result(e, TRUE, FALSE) : e \in {"none", IF d # "none" THEN d ELSE servers}}

Reconciles(d, f, s) == IF s.ntp # Off THEN Starts(d, f, s.ntp) ELSE Stops(d, f)

(***************************************************************************)
(* save_and_apply_time_settings, apply_settings.                           *)
(***************************************************************************)
SaveTime ==
  /\ task.at = "idle"
  /\ \E s \in TimeSettings :
       /\ timeStored' = s
       /\ task' = [Relaxed("save") EXCEPT !.at = "zone", !.next = s,
                                             !.known = daemon \in {"none", timeApplied.ntp}]
  /\ UNCHANGED <<zone, daemon, foreign, timeSettings, timeApplied, clockVars>>

(* Mutation: a daemon with other servers is not stopped first.             *)
ServersNeverChange == FALSE

ServersChanged ==
  /\ task.next.ntp # Off /\ timeApplied.ntp # Off
  /\ task.next.ntp # timeApplied.ntp

(* A zone that cannot be written is put back and the application ends.     *)
ApplyZone ==
  /\ task.at = "zone"
  /\ \/ /\ zone' = task.next.zone
        /\ task' = [task EXCEPT !.at = IF ServersChanged THEN "stop" ELSE "ntp"]
     \/ /\ task' = [task EXCEPT !.at = "undone"]
        /\ UNCHANGED zone
  /\ UNCHANGED <<daemon, foreign, timeStored, timeSettings, timeApplied, clockVars>>

(* The former zone again, unless that fails too.                           *)
ZoneBack == zone' \in {zone, timeApplied.zone}

StopOld ==
  /\ task.at = "stop"
  /\ \E r \in Stops(daemon, foreign) :
       /\ daemon' = r.daemon
       /\ IF r.ok THEN UNCHANGED zone ELSE ZoneBack
       /\ task' = [task EXCEPT !.at = IF r.ok THEN "ntp" ELSE "undone"]
  /\ UNCHANGED <<foreign, timeStored, timeSettings, timeApplied, clockVars>>

ApplyNtp ==
  /\ task.at = "ntp"
  /\ \E r \in Reconciles(daemon, foreign, task.next) :
       /\ daemon' = r.daemon /\ foreign' = r.foreign
       /\ IF r.ok THEN UNCHANGED zone ELSE ZoneBack
       /\ task' = [task EXCEPT !.at = IF r.ok THEN "applied" ELSE "undo"]
  /\ UNCHANGED <<timeStored, timeSettings, timeApplied, clockVars>>

(* The former daemon again, for better or worse.                           *)
UndoNtp ==
  /\ task.at = "undo"
  /\ \E r \in Reconciles(daemon, foreign, timeApplied) :
       /\ daemon' = r.daemon /\ foreign' = r.foreign
       /\ task' = [task EXCEPT !.at = "undone"]
  /\ UNCHANGED <<zone, timeStored, timeSettings, timeApplied, clockVars>>

Relax == task' = Relaxed("none")

UnstoreTime ==
  /\ task.at = "undone"
  /\ timeStored' \in {timeStored, timeSettings}
  /\ Relax
  /\ UNCHANGED <<zone, daemon, foreign, timeSettings, timeApplied, clockVars>>

AdoptTime ==
  /\ task.at = "applied"
  /\ timeSettings' = task.next
  /\ timeApplied' = task.next
  /\ task' = [Relaxed("none") EXCEPT !.next = task.next]
  /\ UNCHANGED <<zone, daemon, foreign, timeStored, clockVars>>

(* snapshot_applied_settings: the settings as they are found to be.  A     *)
(* daemon that runs is taken to have the stored servers, whatever those it *)
(* has; settings that are switched off keep theirs, which are not modelled.*)
Snapshot(d, z) ==
  [zone : {z},
   ntp : IF d = "none" THEN {Off} ELSE IF timeStored.ntp # Off THEN {timeStored.ntp} ELSE Servers]

(* The stored settings after a start, or what is found when they cannot be *)
(* brought about.  The monitor starts with the clock as it finds it.       *)
RestoreTime ==
  /\ task.at = "start"
  /\ \E stopped \in IF timeStored.ntp # Off /\ daemon # "none" THEN Stops(daemon, foreign)
                    ELSE {Result(daemon, foreign, TRUE)} :
     \E r \in {Result(daemon, foreign, FALSE)} \cup
              (IF stopped.ok THEN Reconciles(stopped.daemon, foreign, timeStored) ELSE {}) :
       /\ IF r.ok THEN zone' = timeStored.zone ELSE zone' \in {zone, timeStored.zone}
       /\ daemon' = r.daemon /\ foreign' = r.foreign
       /\ timeApplied' \in IF r.ok THEN {timeStored} ELSE Snapshot(r.daemon, zone')
       /\ Relax
  /\ seen' = axis
  /\ grace' = TRUE
  /\ excused' = excused \cup (1..axis)
  /\ UNCHANGED <<timeStored, timeSettings, axis, handled>>

(***************************************************************************)
(* The clock.                                                              *)
(***************************************************************************)
SomebodyChanges ==
  /\ axis < MaxChanges
  /\ axis' = axis + 1
  /\ UNCHANGED <<zoneVars, task, seen, grace, handled, excused>>

SetManually ==
  /\ task.at = "idle" /\ ~Pending /\ timeApplied.ntp = Off
  /\ axis < MaxChanges
  /\ axis' = axis + 1
  /\ task' = [Relaxed("manual") EXCEPT !.at = "changed", !.before = axis, !.after = axis + 1]
  /\ UNCHANGED <<zoneVars, seen, grace, handled, excused>>

(* sync_now: the daemon is stopped for a single synchronization, which may *)
(* change the clock, and started again.                                    *)
BeginSync ==
  /\ task.at = "idle" /\ ~Pending /\ timeApplied.ntp # Off
  /\ \E r \in Stops(daemon, foreign) :
       /\ r.ok
       /\ daemon' = r.daemon
  /\ task' = [Relaxed("sync") EXCEPT !.at = "sync", !.before = axis]
  /\ UNCHANGED <<zone, foreign, timeStored, timeSettings, timeApplied, clockVars>>

EndSync ==
  /\ task.at = "sync"
  /\ axis' \in {axis, axis + 1} \cap (0..MaxChanges)
  /\ \E r \in Starts(daemon, foreign, timeApplied.ntp), ok \in BOOLEAN :
       /\ daemon' = r.daemon /\ foreign' = r.foreign
       /\ IF ok THEN task' = [task EXCEPT !.at = "changed", !.after = axis']
          ELSE Relax
  /\ UNCHANGED <<zone, timeStored, timeSettings, timeApplied, seen, grace, handled, excused>>

Handle(from, to) ==
  handled' = [c \in 1..MaxChanges |-> handled[c] + (IF from < c /\ c <= to THEN 1 ELSE 0)]

(* Mutation: the baseline of the detector stays.                           *)
HandleOnly ==
  /\ task.at = "changed"
  /\ Handle(task.before, task.after)
  /\ Relax
  /\ UNCHANGED <<zoneVars, axis, seen, grace, excused>>

(* handle_system_time_changed after a command; the baseline moves to the   *)
(* command's time, past changes the monitor had not looked at.             *)
HandleChange ==
  /\ task.at = "changed"
  /\ Handle(task.before, task.after)
  /\ seen' = task.after
  /\ excused' = excused \cup {c \in 1..MaxChanges : seen < c /\ c <= task.before}
  /\ Relax
  /\ UNCHANGED <<zoneVars, axis, grace>>

(* A look of the monitor, in the grace time and after it.                  *)
Watch ==
  /\ task.at = "idle"
  /\ IF grace
     THEN /\ excused' = excused \cup {c \in 1..axis : seen < c}
          /\ UNCHANGED handled
     ELSE /\ Handle(seen, axis)
          /\ UNCHANGED excused
  /\ seen' = axis
  /\ grace' \in {FALSE, grace}
  /\ UNCHANGED <<zoneVars, task, axis>>

(***************************************************************************)
(* The surroundings: daemons come and go, the process restarts.            *)
(***************************************************************************)
ForeignDaemon ==
  /\ task.at # "applied"
  /\ foreign' = TRUE
  /\ UNCHANGED <<zone, daemon, timeStored, timeSettings, timeApplied, task, clockVars>>

DaemonDies ==
  /\ task.at # "applied"
  /\ daemon' = "none"
  /\ UNCHANGED <<zone, foreign, timeStored, timeSettings, timeApplied, task, clockVars>>

(* The managed daemon survives a crash; shutdown stops it.                 *)
RestartTime ==
  /\ daemon' \in {daemon, "none"}
  /\ timeSettings' = timeStored
  /\ timeApplied' = timeStored
  /\ task' = [at |-> "start", kind |-> "none", next |-> timeStored,
              before |-> 0, after |-> 0, known |-> TRUE]
  /\ UNCHANGED <<zone, foreign, timeStored, clockVars>>

TimeInit ==
  /\ zone \in Zones /\ daemon = "none" /\ foreign \in BOOLEAN
  /\ timeStored \in TimeSettings
  /\ timeSettings = timeStored /\ timeApplied = timeStored
  /\ task = [at |-> "start", kind |-> "none", next |-> timeStored,
             before |-> 0, after |-> 0, known |-> TRUE]
  /\ axis = 0 /\ seen = 0 /\ grace = TRUE
  /\ handled = [c \in 1..MaxChanges |-> 0] /\ excused = {}

TimeNext ==
  \/ SaveTime \/ ApplyZone \/ StopOld \/ ApplyNtp \/ UndoNtp \/ UnstoreTime \/ AdoptTime
  \/ RestoreTime
  \/ SomebodyChanges \/ SetManually \/ BeginSync \/ EndSync \/ HandleChange \/ Watch
  \/ ForeignDaemon \/ DaemonDies \/ RestartTime

TimeSpec == TimeInit /\ [][TimeNext]_timeVars

(***************************************************************************)
(* Properties.                                                             *)
(***************************************************************************)
(* A change of the clock is handled once: not by the command that made it  *)
(* and again by the monitor, and none the detector has put behind it was   *)
(* left out, but those at the start and those a command overtook.          *)
ChangesAreHandledOnce ==
  \A c \in 1..axis :
    /\ handled[c] <= 1
    /\ c <= seen => handled[c] = 1 \/ c \in excused

(* When settings are reported as applied the zone is theirs, and the only  *)
(* daemon is the managed one with their servers, or none, provided that a  *)
(* daemon that ran before was the one the service believed in.             *)
AppliedIsInForce ==
  task.at = "applied" /\ task.known =>
    /\ zone = task.next.zone
    /\ daemon = (IF task.next.ntp = Off THEN "none" ELSE task.next.ntp)
    /\ task.next.ntp # Off => ~foreign
=============================================================================
