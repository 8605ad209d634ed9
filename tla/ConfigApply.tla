----------------------------- MODULE ConfigApply -----------------------------
(***************************************************************************)
(* The configuration in the database and in memory, and what runs by it:   *)
(* the polling service, the bank of Modbus registers and the Modbus        *)
(* server.  An operation takes config_apply_in_progress_, stops polling,   *)
(* stores, reads everything back into a new runtime configuration, starts  *)
(* polling again, and undoes its steps when one of them fails.  Operations *)
(* on the Modbus server have a mutex of their own, as have the settings of *)
(* the time; imports and factory resets take them all.                     *)
(*                                                                         *)
(* backend_master_config.cpp, backend_channel_config.cpp,                  *)
(* backend_config_import_export.cpp, backend_settings.cpp,                 *)
(* backend_runtime_config.cpp, backend_polling_control.cpp,                *)
(* backend_modbus_server.cpp, backend_time_settings.cpp.                   *)
(***************************************************************************)
EXTENDS Naturals, Sequences

CONSTANTS
  Times,            (* settings of the time, 0 those of the factory         *)
  MaxConfigFaults   (* bound: writes, reloads and starts that fail          *)

ASSUME ConfigAssumption == 0 \in Times /\ MaxConfigFaults \in Nat

VARIABLES
  stored,      (* the tables of the configuration                           *)
  running,     (* system_config_                                            *)
  polling,     (* polling_runtime_: the service that runs, the one that is  *)
               (* being stopped, and whether polling is to run              *)
  north,       (* modbus_server_settings_, _mappings_ and _bank_            *)
  fed,         (* the bank ModbusExportService writes values to             *)
  server,      (* ModbusTcpServer                                           *)
  op,          (* the holder of config_apply_in_progress_                   *)
  mgmt,        (* the holder of modbus_management_mutex_                    *)
  timeOp,      (* save_and_apply_time_settings                              *)
  unsettled,   (* what an operator was told may not be in order             *)
  configFaults

configVars == <<stored, running, polling, north, fed, server, op, mgmt, timeOp, unsettled,
                configFaults>>

(* Masters and channels: 0 for none, 1 for some.  The server: disabled or  *)
(* enabled.  The mappings of registers: none or some.                      *)
Configs == [masters : {0, 1}, channels : {0, 1}, time : Times, srv : {0, 1}, maps : {0, 1}]

Factory == [masters |-> 0, channels |-> 0, time |-> 0, srv |-> 0, maps |-> 0]

Collected(c) == [masters |-> c.masters, channels |-> c.channels, time |-> c.time]

NoService == 9

(* has_enabled_collection_target_locked.                                   *)
HasTarget == running.masters # 0 /\ running.channels # 0

NoOp == [kind |-> "none", stage |-> "none", was |-> FALSE, next |-> Factory, prev |-> Factory,
         read |-> Collected(Factory), cause |-> "none", good |-> TRUE, todo |-> <<>>]
NoMgmt == [by |-> "nobody", stage |-> "none", next |-> 0, prev |-> 0]

NoTimeOp == [at |-> "none", next |-> 0, prev |-> 0]

Fault ==
  /\ configFaults < MaxConfigFaults
  /\ configFaults' = configFaults + 1

NoFault == UNCHANGED configFaults

At(kinds, s) == op.kind \in kinds /\ op.stage = s

NorthUnchanged == UNCHANGED <<north, fed, server>>

(***************************************************************************)
(* Polling.                                                                *)
(***************************************************************************)
(* start_polling_locked.                                                   *)
Started ==
  /\ HasTarget /\ polling.active = NoService
  /\ polling' = [polling EXCEPT !.active = running.masters, !.wanted = TRUE]
  /\ unsettled' = unsettled \ {"polling"}
  /\ NoFault

NotStarted ==
  /\ IF HasTarget THEN Fault ELSE NoFault
  /\ unsettled' = unsettled \cup {"polling"}
  /\ UNCHANGED polling

Detached == [polling EXCEPT !.active = NoService, !.stopping = @ \cup ({polling.active} \ {NoService})]

StartPolling ==
  /\ op.kind = "none" /\ polling.active = NoService
  /\ Started
  /\ UNCHANGED <<stored, running, op, mgmt, timeOp>> /\ NorthUnchanged

(* Mutation: the service mutex is enough.                                  *)
StopPollingUnflagged ==
  /\ op.kind = "none"
  /\ polling' = [Detached EXCEPT !.wanted = FALSE]
  /\ UNCHANGED <<stored, running, op, mgmt, timeOp, unsettled>> /\ NorthUnchanged /\ NoFault

StopPolling ==
  /\ op.kind = "none"
  /\ polling' = [Detached EXCEPT !.wanted = FALSE]
  /\ op' = [NoOp EXCEPT !.kind = "stop", !.stage = "draining"]
  /\ UNCHANGED <<stored, running, mgmt, timeOp, unsettled>> /\ NorthUnchanged /\ NoFault

(* PollingRuntime::stop, outside the service mutex, and finish_stop.       *)
ServiceStops ==
  /\ polling.stopping # {}
  /\ polling' = [polling EXCEPT !.stopping = {}]
  /\ UNCHANGED <<stored, running, op, mgmt, timeOp, unsettled>> /\ NorthUnchanged /\ NoFault

Drained ==
  /\ op.stage = "draining" /\ polling.stopping = {}
  /\ op' = IF op.kind = "stop" THEN NoOp
           ELSE [op EXCEPT !.stage = IF op.cause = "modbus" THEN "restore" ELSE "save"]
  /\ UNCHANGED <<stored, running, polling, mgmt, timeOp, unsettled>> /\ NorthUnchanged /\ NoFault

(***************************************************************************)
(* The stages all operations share.                                        *)
(***************************************************************************)
Finished ==
  /\ op' = NoOp
  /\ mgmt' = IF mgmt.by \in {"import", "reset"} THEN NoMgmt ELSE mgmt

Keep(s) == op' = [op EXCEPT !.stage = s] /\ UNCHANGED mgmt

(* Mutation: what ran before is forgotten.                                 *)
FailApplyStopped ==
  /\ op.stage = "fail"
  /\ unsettled' = IF op.good THEN unsettled ELSE unsettled \cup {"collection", "polling"}
  /\ Finished
  /\ UNCHANGED <<stored, running, polling, timeOp>> /\ NorthUnchanged /\ NoFault

(* fail_config_apply_locked.                                               *)
FailApply ==
  /\ op.stage = "fail"
  /\ IF ~op.good
     THEN unsettled' = unsettled \cup {"collection", "polling"} /\ UNCHANGED polling /\ NoFault
     ELSE IF op.was THEN Started \/ NotStarted
     ELSE polling' = [polling EXCEPT !.wanted = FALSE] /\ UNCHANGED unsettled /\ NoFault
  /\ Finished
  /\ UNCHANGED <<stored, running, timeOp>> /\ NorthUnchanged

Failing(good) == op' = [op EXCEPT !.stage = "fail", !.good = good]

(* runtime_config_compiler_.prepare reads the tables without the service   *)
(* mutex.                                                                  *)
Prepare ==
  /\ op.stage \in {"reload", "reloadBack"}
  /\ op' = [op EXCEPT !.stage = IF op.stage = "reload" THEN "adopt" ELSE "adoptBack",
                      !.read = Collected(stored)]
  /\ UNCHANGED <<stored, running, polling, mgmt, timeOp, unsettled>> /\ NorthUnchanged /\ NoFault

ReloadFails ==
  /\ op.stage = "reload" /\ Fault
  /\ \/ op.kind = "edit" /\ Keep("restore")
     \/ op.kind = "import" /\ op' = [op EXCEPT !.stage = "restore", !.cause = "reload"] /\ UNCHANGED mgmt
     \/ op.kind = "reset" /\ Failing(FALSE) /\ UNCHANGED mgmt
  /\ unsettled' = IF op.kind = "reset" THEN unsettled \cup {"modbus"} ELSE unsettled
  /\ UNCHANGED <<stored, running, polling, timeOp>> /\ NorthUnchanged

(* apply_prepared_runtime_config_locked.                                   *)
Adopted ==
  /\ running' = op.read
  /\ unsettled' = unsettled \ {"collection"}

Adopt ==
  /\ op.stage = "adopt"
  /\ Adopted
  /\ Keep(IF op.kind = "reset" THEN "cleanup" ELSE "start")
  /\ UNCHANGED <<stored, polling, timeOp>> /\ NorthUnchanged /\ NoFault

(* Back on the former configuration, after a failed reload, a failed start *)
(* or a failure of the Modbus server.                                      *)
AdoptBack ==
  /\ op.stage = "adoptBack"
  /\ Adopted
  /\ IF op.cause = "modbus" THEN Keep("bankBack") ELSE Failing(TRUE) /\ UNCHANGED mgmt
  /\ UNCHANGED <<stored, polling, timeOp>> /\ NorthUnchanged /\ NoFault

ReloadBackFails ==
  /\ op.stage = "reloadBack" /\ Fault
  /\ \/ op.cause = "reload" /\ Failing(TRUE)
     \/ op.cause = "start" /\ Failing(FALSE)
     \/ op.cause = "modbus" /\ op' = [op EXCEPT !.stage = "bankBack", !.good = FALSE]
  /\ UNCHANGED <<stored, running, polling, mgmt, timeOp, unsettled>> /\ NorthUnchanged

(* finish_config_apply_locked.                                             *)
StartAgain ==
  /\ op.stage = "start"
  /\ \/ /\ Started
        /\ IF op.kind = "import" THEN Keep("bank") ELSE Finished
     \/ /\ HasTarget /\ NotStarted
        /\ IF op.kind = "import"
           THEN op' = [op EXCEPT !.stage = "restore", !.cause = "start"] /\ UNCHANGED mgmt
           ELSE Finished
     \/ /\ ~HasTarget
        /\ polling' = [polling EXCEPT !.wanted = FALSE]
        /\ IF op.kind = "import" THEN Keep("bank") ELSE Finished
        /\ UNCHANGED unsettled /\ NoFault
  /\ UNCHANGED <<stored, running, timeOp>> /\ NorthUnchanged

(***************************************************************************)
(* Masters: create, update, delete; write_sqlite_masters_and_reload.       *)
(***************************************************************************)
Begun(kind, next, prev) ==
  LET was == polling.active # NoService IN
  [kind |-> kind, stage |-> IF was THEN "draining" ELSE "save", was |-> was,
   next |-> next, prev |-> prev,
   read |-> NoOp.read, cause |-> NoOp.cause, good |-> NoOp.good, todo |-> NoOp.todo]

(* ensure_config_mutation_ready_locked.                                    *)
ReadyToChange == op.kind = "none"

Former == [masters |-> running.masters, channels |-> running.channels, time |-> running.time,
           srv |-> north.srv, maps |-> north.maps]

BeginEdit(v) ==
  /\ ReadyToChange
  /\ op' = Begun("edit", [Factory EXCEPT !.masters = v], [Factory EXCEPT !.masters = running.masters])
  /\ polling' = Detached
  /\ UNCHANGED <<stored, running, mgmt, timeOp, unsettled>> /\ NorthUnchanged /\ NoFault

SaveMasters ==
  /\ At({"edit"}, "save")
  /\ \/ stored' = [stored EXCEPT !.masters = op.next.masters] /\ Keep("reload") /\ NoFault
     \/ Failing(TRUE) /\ Fault /\ UNCHANGED <<stored, mgmt>>
  /\ UNCHANGED <<running, polling, timeOp, unsettled>> /\ NorthUnchanged

(* Mutation: the masters that could not be loaded stay stored.             *)
RestoreNoMasters ==
  /\ At({"edit"}, "restore")
  /\ Failing(TRUE) /\ NoFault
  /\ UNCHANGED <<stored, running, polling, mgmt, timeOp, unsettled>> /\ NorthUnchanged

RestoreMasters ==
  /\ At({"edit"}, "restore")
  /\ \/ stored' = [stored EXCEPT !.masters = op.prev.masters] /\ Failing(TRUE) /\ NoFault
     \/ Failing(FALSE) /\ Fault /\ UNCHANGED stored
  /\ UNCHANGED <<running, polling, mgmt, timeOp, unsettled>> /\ NorthUnchanged

(* Channels are exchanged under the running service (ChannelExchange); the *)
(* last one of a master is not deleted.                                    *)
EditChannels(v) ==
  /\ ReadyToChange
  /\ stored' = [stored EXCEPT !.channels = v]
  /\ running' = [running EXCEPT !.channels = v]
  /\ polling' = [polling EXCEPT !.wanted = @ /\ polling.active # NoService]
  /\ UNCHANGED <<op, mgmt, timeOp, unsettled>> /\ NorthUnchanged /\ NoFault

(***************************************************************************)
(* The Modbus server and its bank.  A bank is known by a number.           *)
(***************************************************************************)
NoBank == [id |-> 0, maps |-> 0]

NewBank(maps) ==
  [id |-> CHOOSE i \in 1..4 : i \notin {fed.id, north.bank.id, server.bank.id}, maps |-> maps]

(* start, and restart; a disabled server needs no socket.                  *)
Listens(srv, bank) ==
  server' = [listening |-> srv # 0, srv |-> srv, bank |-> bank] /\ NoFault

ListenFails(srv, bank) ==
  srv # 0 /\ server' = [listening |-> FALSE, srv |-> srv, bank |-> bank] /\ Fault

Stopped == server' = [server EXCEPT !.listening = FALSE]

(* reload_modbus_register_mappings_managed: the export service and the     *)
(* server go over to a new bank.                                           *)
BankReloaded ==
  LET bank == NewBank(stored.maps) IN
  /\ fed' = bank
  /\ server' = [server EXCEPT !.bank = bank]
  /\ north' = [north EXCEPT !.maps = stored.maps, !.bank = bank]
  /\ NoFault

CollectionUnchanged == UNCHANGED <<running, polling, op, timeOp>>

(* apply_modbus_server_settings.                                           *)
ApplyServer(v) ==
  /\ mgmt.by = "nobody"
  /\ stored' = [stored EXCEPT !.srv = v]
  /\ mgmt' = [by |-> "server", stage |-> "listen", next |-> v, prev |-> north.srv]
  /\ CollectionUnchanged /\ NorthUnchanged /\ NoFault /\ UNCHANGED unsettled

ServerListens ==
  /\ mgmt.by = "server" /\ mgmt.stage = "listen"
  /\ \/ /\ Listens(mgmt.next, north.bank)
        /\ north' = [north EXCEPT !.srv = mgmt.next]
        /\ mgmt' = NoMgmt
     \/ /\ ListenFails(mgmt.next, north.bank)
        /\ mgmt' = [mgmt EXCEPT !.stage = "undo"]
        /\ UNCHANGED north
  /\ CollectionUnchanged /\ UNCHANGED <<stored, fed, unsettled>>

ServerUnstored ==
  /\ mgmt.by = "server" /\ mgmt.stage = "undo"
  /\ \/ stored' = [stored EXCEPT !.srv = mgmt.prev] /\ NoFault /\ UNCHANGED unsettled
     \/ Fault /\ unsettled' = unsettled \cup {"modbus"} /\ UNCHANGED stored
  /\ mgmt' = [mgmt EXCEPT !.stage = "back"]
  /\ CollectionUnchanged /\ NorthUnchanged

ServerBack ==
  /\ mgmt.by = "server" /\ mgmt.stage = "back"
  /\ \/ Listens(mgmt.prev, north.bank) /\ UNCHANGED unsettled
     \/ ListenFails(mgmt.prev, north.bank) /\ unsettled' = unsettled \cup {"modbus"}
  /\ north' = [north EXCEPT !.srv = mgmt.prev]
  /\ mgmt' = NoMgmt
  /\ CollectionUnchanged /\ UNCHANGED <<stored, fed>>

(* create, update and delete of a mapping of registers.                    *)
EditMapping(v) ==
  /\ mgmt.by = "nobody"
  /\ stored' = [stored EXCEPT !.maps = v]
  /\ mgmt' = [by |-> "mapping", stage |-> "bank", next |-> v, prev |-> stored.maps]
  /\ CollectionUnchanged /\ NorthUnchanged /\ NoFault /\ UNCHANGED unsettled

MappingReloads ==
  /\ mgmt.by = "mapping" /\ mgmt.stage = "bank"
  /\ \/ BankReloaded /\ mgmt' = NoMgmt
     \/ Fault /\ mgmt' = [mgmt EXCEPT !.stage = "undo"] /\ NorthUnchanged
  /\ CollectionUnchanged /\ UNCHANGED <<stored, unsettled>>

MappingUnstored ==
  /\ mgmt.by = "mapping" /\ mgmt.stage = "undo"
  /\ \/ /\ stored' = [stored EXCEPT !.maps = mgmt.prev]
        /\ mgmt' = [mgmt EXCEPT !.stage = "back"]
        /\ NoFault /\ UNCHANGED unsettled
     \/ Fault /\ mgmt' = NoMgmt /\ unsettled' = unsettled \cup {"modbus"} /\ UNCHANGED stored
  /\ CollectionUnchanged /\ NorthUnchanged

MappingBack ==
  /\ mgmt.by = "mapping" /\ mgmt.stage = "back"
  /\ \/ BankReloaded /\ UNCHANGED unsettled
     \/ Fault /\ NorthUnchanged /\ unsettled' = unsettled \cup {"modbus"}
  /\ mgmt' = NoMgmt
  /\ CollectionUnchanged /\ UNCHANGED stored

(***************************************************************************)
(* import_system_config.                                                   *)
(***************************************************************************)
AllFree == op.kind = "none" /\ mgmt.by = "nobody" /\ timeOp.at = "none"

BeginImport(c) ==
  /\ AllFree
  /\ op' = Begun("import", c, Former)
  /\ polling' = Detached
  /\ mgmt' = [NoMgmt EXCEPT !.by = "import"]
  /\ UNCHANGED <<stored, running, timeOp, unsettled>> /\ NorthUnchanged /\ NoFault

ImportStore ==
  /\ At({"import"}, "save")
  /\ \/ stored' = op.next /\ Keep("reload") /\ NoFault
     \/ Failing(TRUE) /\ Fault /\ UNCHANGED <<stored, mgmt>>
  /\ UNCHANGED <<running, polling, timeOp, unsettled>> /\ NorthUnchanged

(* restore_previous_persisted_config.  When the Modbus server was the      *)
(* cause, its former settings are in force again in any case.              *)
ImportRestore ==
  /\ At({"import"}, "restore")
  /\ \/ /\ stored' = op.prev /\ Keep("reloadBack") /\ NoFault
        /\ UNCHANGED <<unsettled, server>>
     \/ /\ Fault /\ Failing(FALSE)
        /\ unsettled' = unsettled \cup {"modbus"}
        /\ IF op.cause = "modbus" THEN Stopped ELSE UNCHANGED server
        /\ UNCHANGED <<stored, mgmt>>
  /\ north' = IF op.cause = "modbus" THEN [north EXCEPT !.srv = op.prev.srv] ELSE north
  /\ UNCHANGED <<running, polling, fed, timeOp>>

UndoForModbus ==
  /\ polling' = Detached
  /\ op' = [op EXCEPT !.cause = "modbus",
                      !.stage = IF polling.active # NoService THEN "draining" ELSE "restore"]

ImportBank ==
  /\ At({"import"}, "bank")
  /\ \/ /\ LET bank == NewBank(stored.maps) IN
           /\ fed' = bank
           /\ server' = [server EXCEPT !.bank = bank]
           /\ north' = [srv |-> op.next.srv, maps |-> stored.maps, bank |-> bank]
        /\ Keep("listen") /\ NoFault /\ UNCHANGED polling
     \/ /\ Fault /\ UndoForModbus
        /\ north' = [north EXCEPT !.srv = op.next.srv]
        /\ UNCHANGED <<fed, server, mgmt>>
  /\ UNCHANGED <<stored, running, timeOp, unsettled>>

ImportListens ==
  /\ At({"import"}, "listen")
  /\ \/ Listens(op.next.srv, north.bank) /\ Finished /\ UNCHANGED polling
     \/ ListenFails(op.next.srv, north.bank) /\ UndoForModbus /\ UNCHANGED mgmt
  /\ UNCHANGED <<stored, running, north, fed, timeOp, unsettled>>

ImportBankBack ==
  /\ At({"import"}, "bankBack")
  /\ \/ BankReloaded /\ Keep("listenBack") /\ UNCHANGED unsettled
     \/ /\ Fault /\ Failing(FALSE) /\ UNCHANGED <<mgmt, north, fed>>
        /\ Stopped
        /\ unsettled' = unsettled \cup {"modbus"}
  /\ UNCHANGED <<stored, running, polling, timeOp>>

ImportListensBack ==
  /\ At({"import"}, "listenBack")
  /\ \/ /\ Listens(op.prev.srv, north.bank)
        /\ op' = [op EXCEPT !.stage = "fail"]
        /\ UNCHANGED unsettled
     \/ /\ ListenFails(op.prev.srv, north.bank)
        /\ Failing(FALSE)
        /\ unsettled' = unsettled \cup {"modbus"}
  /\ UNCHANGED <<stored, running, polling, mgmt, north, fed, timeOp>>

(***************************************************************************)
(* request_factory_reset: one table after the other.                       *)
(***************************************************************************)
BeginReset ==
  /\ AllFree
  /\ op' = [Begun("reset", Factory, Former) EXCEPT !.stage = "draining",
                                                   !.todo = <<"time", "masters", "channels", "srv", "maps">>]
  /\ polling' = [Detached EXCEPT !.wanted = FALSE]
  /\ mgmt' = [NoMgmt EXCEPT !.by = "reset"]
  /\ UNCHANGED <<stored, running, timeOp, unsettled>> /\ NorthUnchanged /\ NoFault

ResetSaves ==
  /\ At({"reset"}, "save") /\ op.todo # <<>>
  /\ Stopped
  /\ \/ /\ stored' = [stored EXCEPT ![Head(op.todo)] = 0]
        /\ op' = [op EXCEPT !.todo = Tail(@)] /\ NoFault
     \/ /\ Fault /\ op' = [op EXCEPT !.stage = "srvBack"] /\ UNCHANGED stored
  /\ UNCHANGED <<running, polling, mgmt, north, fed, timeOp, unsettled>>

(* An empty bank, and the server with its default settings.                *)
ResetBank ==
  /\ At({"reset"}, "save") /\ op.todo = <<>>
  /\ \/ /\ LET bank == NewBank(0) IN
           /\ fed' = bank
           /\ server' = [listening |-> FALSE, srv |-> 0, bank |-> bank]
        /\ Keep("reload") /\ NoFault
     \/ Fault /\ Keep("srvBack") /\ UNCHANGED <<fed, server>>
  /\ UNCHANGED <<stored, running, polling, north, timeOp, unsettled>>

ResetSrvBack ==
  /\ At({"reset"}, "srvBack")
  /\ \/ stored' = [stored EXCEPT !.srv = op.prev.srv] /\ NoFault /\ UNCHANGED unsettled
     \/ Fault /\ unsettled' = unsettled \cup {"modbus"} /\ UNCHANGED stored
  /\ Keep("mapsBack")
  /\ UNCHANGED <<running, polling, timeOp>> /\ NorthUnchanged

ResetMapsBack ==
  /\ At({"reset"}, "mapsBack")
  /\ \/ /\ stored' = [stored EXCEPT !.maps = op.prev.maps] /\ NoFault
        /\ UNCHANGED unsettled
     \/ Fault /\ unsettled' = unsettled \cup {"modbus"} /\ UNCHANGED stored
  /\ Keep("serverBack")
  /\ UNCHANGED <<running, polling, timeOp>> /\ NorthUnchanged

(* Only when both are stored again does the server listen again.           *)
ResetServerBack ==
  /\ At({"reset"}, "serverBack")
  /\ \/ /\ stored.srv = op.prev.srv /\ stored.maps = op.prev.maps
        /\ \/ Listens(op.prev.srv, north.bank) /\ UNCHANGED unsettled
           \/ ListenFails(op.prev.srv, north.bank) /\ unsettled' = unsettled \cup {"modbus"}
     \/ /\ stored.srv # op.prev.srv \/ stored.maps # op.prev.maps
        /\ Stopped /\ NoFault /\ UNCHANGED unsettled
  /\ Failing(FALSE)
  /\ UNCHANGED <<stored, running, polling, mgmt, north, fed, timeOp>>

(* The members follow; then the clean-up, whose last part may fail.        *)
ResetEnds ==
  /\ At({"reset"}, "cleanup")
  /\ north' = [srv |-> 0, maps |-> 0, bank |-> fed]
  /\ \/ Finished /\ NoFault
     \/ Fault /\ Failing(FALSE) /\ UNCHANGED mgmt
  /\ UNCHANGED <<stored, running, polling, fed, server, timeOp, unsettled>>

(***************************************************************************)
(* save_and_apply_time_settings, without config_apply_in_progress_.        *)
(***************************************************************************)
SaveTime(v) ==
  /\ timeOp.at = "none" /\ mgmt.by \notin {"import", "reset"}
  /\ stored' = [stored EXCEPT !.time = v]
  /\ timeOp' = [at |-> "saved", next |-> v, prev |-> running.time]
  /\ UNCHANGED <<running, polling, op, mgmt, unsettled>> /\ NorthUnchanged /\ NoFault

AdoptTime ==
  /\ timeOp.at = "saved"
  /\ running' = [running EXCEPT !.time = timeOp.next]
  /\ timeOp' = NoTimeOp
  /\ UNCHANGED <<stored, polling, op, mgmt, unsettled>> /\ NorthUnchanged /\ NoFault

UnstoreTime ==
  /\ timeOp.at = "saved" /\ Fault
  /\ \/ stored' = [stored EXCEPT !.time = timeOp.prev] /\ UNCHANGED unsettled
     \/ unsettled' = unsettled \cup {"time"} /\ UNCHANGED stored
  /\ timeOp' = NoTimeOp
  /\ UNCHANGED <<running, polling, op, mgmt>> /\ NorthUnchanged

(***************************************************************************)
(* The process ends and starts again: initialize.                          *)
(***************************************************************************)
Loaded ==
  /\ running' = Collected(stored)
  /\ polling' = [active |-> NoService, stopping |-> {}, wanted |-> FALSE]
  /\ op' = NoOp /\ mgmt' = NoMgmt /\ timeOp' = NoTimeOp

RestartConfig ==
  LET bank == [id |-> 1, maps |-> stored.maps] IN
  /\ Loaded
  /\ \/ /\ fed' = bank /\ north' = [srv |-> stored.srv, maps |-> stored.maps, bank |-> bank]
        /\ \/ Listens(stored.srv, bank) /\ unsettled' = {}
           \/ ListenFails(stored.srv, bank) /\ unsettled' = {"modbus"}
     \/ /\ fed' = NoBank /\ north' = [srv |-> 0, maps |-> 0, bank |-> NoBank]
        /\ server' = [listening |-> FALSE, srv |-> 0, bank |-> NoBank]
        /\ unsettled' = {"modbus"} /\ Fault
  /\ UNCHANGED stored

ConfigInit ==
  LET bank == [id |-> 1, maps |-> stored.maps] IN
  /\ stored \in Configs
  /\ running = Collected(stored)
  /\ polling = [active |-> NoService, stopping |-> {}, wanted |-> FALSE]
  /\ fed = bank
  /\ north = [srv |-> stored.srv, maps |-> stored.maps, bank |-> bank]
  /\ server = [listening |-> stored.srv # 0, srv |-> stored.srv, bank |-> bank]
  /\ op = NoOp /\ mgmt = NoMgmt /\ timeOp = NoTimeOp
  /\ unsettled = {} /\ configFaults = 0

ConfigNext ==
  \/ StartPolling \/ StopPolling \/ ServiceStops \/ Drained
  \/ FailApply \/ Prepare \/ ReloadFails \/ Adopt \/ AdoptBack \/ ReloadBackFails \/ StartAgain
  \/ SaveMasters \/ RestoreMasters
  \/ \E v \in {0, 1} : BeginEdit(v) \/ EditChannels(v) \/ ApplyServer(v) \/ EditMapping(v)
  \/ ServerListens \/ ServerUnstored \/ ServerBack
  \/ MappingReloads \/ MappingUnstored \/ MappingBack
  \/ \E c \in Configs : BeginImport(c)
  \/ ImportStore \/ ImportRestore \/ ImportBank \/ ImportListens
  \/ ImportBankBack \/ ImportListensBack
  \/ BeginReset \/ ResetSaves \/ ResetBank \/ ResetSrvBack \/ ResetMapsBack
  \/ ResetServerBack \/ ResetEnds
  \/ \E v \in Times : SaveTime(v)
  \/ AdoptTime \/ UnstoreTime
  \/ RestartConfig

ConfigSpec == ConfigInit /\ [][ConfigNext]_configVars

(***************************************************************************)
(* Properties.                                                             *)
(***************************************************************************)
(* However an operation ends, the configuration that runs is the one that  *)
(* is stored, polling goes by it, and polls again if it did before, unless *)
(* the operator was told that the former state could not be restored; and  *)
(* so the Modbus server: settings and mappings are those stored, and       *)
(* clients read the very bank that collection writes to.                   *)
RunningIsStored ==
  /\ op.kind = "none" /\ "collection" \notin unsettled =>
       /\ running.masters = stored.masters /\ running.channels = stored.channels
       /\ polling.active \in {NoService, running.masters}
       /\ polling.wanted /\ "polling" \notin unsettled => polling.active # NoService
  /\ mgmt.by = "nobody" /\ "modbus" \notin unsettled =>
       /\ north.srv = stored.srv /\ north.maps = stored.maps /\ fed.maps = stored.maps
       /\ server.listening <=> stored.srv # 0
       /\ north.bank = fed
       /\ server.listening => server.bank = fed /\ server.srv = stored.srv

(* There is one polling service: none is started while another still       *)
(* talks to the devices.                                                   *)
PollingIsExclusive ==
  polling.active # NoService => polling.stopping = {}

(* runtime_config_compiler.h: callers serialize changes of the             *)
(* configuration.  Those of the time settings are not, and a configuration *)
(* that was read before or during one is taken over after it.              *)
TimeIsCurrent ==
  op.kind = "none" /\ timeOp.at = "none" /\ unsettled \cap {"collection", "time"} = {} =>
    running.time = stored.time
=============================================================================
