# Verification of the ZW-EDGE edge controller

This directory holds TLA+ models of the edge controller in `../src`: a C++
backend that polls Modbus field devices, keeps their values, histories and
alarms, and offers them northbound (MQTT, Modbus TCP), a Go web server in front
of it, and a Python update manager beside it. Each module is a translation of
the code; TLC checks it on small instances and TLAPS proves the theorems in the
`*_proofs` modules for every value of the constants.

Run a check with `tlc -config <Run>.cfg <Module>.tla`, a proof with
`tlapm <Module>_proofs.tla`. `PROJECT.json` lists the runs, the lines each
definition stands for, the hazards and the theorems.

## 1. The system

All paths below `backend/src/` unless said otherwise. "Lock" names the mutex
that makes an operation atomic.

| Component | Code | State it keeps | Operations that change it | What makes it correct |
|---|---|---|---|---|
| Alarm evaluation | `application/service/alarm_evaluator.*`, `backend_alarm.cpp`, `data/datastore/alarm_store.*` | rules, runtime states, point contexts; tables `alarm_rules`, `alarm_runtime_states`, `alarm_event_outbox`; lock `mutation_mutex_` | batch, upsert/delete rule, acknowledge, synchronize, initialize, save | memory and tables agree after every failure; alarms are earned by unbroken rounds; every change is told |
| Alarm delivery | `backend_lifecycle.cpp` (retry pass), `data/datastore/event_store.*`, `communication/mqtt/*` | outbox, service_events, deliveries in flight, receipts, client | append, deliver, remove, stop/configure/start, reconnect | at least once; no event lost by a crash or reconfiguration |
| Collection | `application/service/polling_service*`, `communication/collect/*` | task per master, channel generation, gap flag, diagnosis counters | poll, publish, invalidate, stop, apply | no value of an old transport or configuration is published |
| Channels | `application/manager/channel_manager.*`, `communication/channel/*`, `backend_channel_config.cpp` | channels, resources (serial ports), generations, leases | lease, open/close, apply, delete | one user per port; a failed apply changes nothing |
| Runtime values | `data/datastore/data_store.*`, `device_value_status.*` | value, quality and freshness deadline of each point | publish, expire, mark offline, initialize | no good value past its deadline |
| Persistence queue | `application/service/ordered_task_queue.h`, `polling_service_collect.cpp` | FIFO of at most 128 tasks and 16384 points, gap | submit, run, stop | order, bounds, a rejected batch is reported to the next |
| History | `polling_service_history.cpp`, `data/datastore/history_store.*` | pending buckets, epoch generation, tables, aggregates, dirty mark | sample, flush, restore, time adjusted, cleanup, rebuild | nothing queued under an old time line is written, but by the last write of a stopped service; backlog bounded; aggregates count the samples kept |
| Configuration | `backend_*_config.cpp`, `backend_runtime_config.cpp`, `runtime_config_compiler.*`, `data/datastore/config_store*`, `config_import_transaction.*` | stored configuration, running configuration, apply flag | edit, reload, undo, import, factory reset | stored and running configuration agree; polling is what it was |
| Device commands | `backend_device_command.cpp`, `modbus_write_executor.*` | operation lock, lease | read, write, verify | a write is never repeated or sent over a changed configuration |
| Modbus export | `communication/modbus_server/*`, `backend_modbus_server.cpp` | register bank, routes, listener, clients | configure, publish, serve, restart | a client sees one generation of the map; the bank equals the runtime values |
| Time | `backend_time_*.cpp`, `time_jump_detector.*`, `infrastructure/platform/linux_time_runtime.*` | NTP process, applied settings, baseline | adjust, sync, detect | one jump handled once |
| Network | `backend_network_*.cpp` | applied network settings, rollback record | apply, confirm, roll back | a lost connection is rolled back |
| IPC | `application/interface/*` | sessions, worker slots | accept, read, dispatch, time out | bounded; no request is run twice |
| Process | `application/app/*`, `main` | which parts have been started | start in order, stop in reverse | what was started is stopped |
| Device model | `data/datastore/device_template_store.*`, `data/model/*` | tables of types and preferences, the published registry and its generation | edit a type or preference, import, start of another release | what is polled is what is published and stored; an operator's choices survive an upgrade |
| Events | `data/datastore/event_store.*` | table `service_events`, windows of repetition, number of rows | record, alarm event, flush, clean up, clear | repetitions are counted on rows that are there |
| Web server | `web/internal/*` | sessions, login attempts, caches | login, request, upload | see section 10 |
| Update manager | `scripts/rk3562/update-manager.py` | state file, backup, slots | check, install, health check, recover, roll back | a power cut at any step ends in the old or the new version |

How they interact:

```
 field --Modbus--> channels <-lease- polling workers --publish--> runtime values --> Modbus bank
                                          |                          |         \--> MQTT realtime
                                          v                          v
                               persistence queue (1 consumer)   freshness worker
                                 |             |
                            history buckets   alarm evaluator --(one transaction)--> states + outbox
                                                                                        |
                             maintenance thread, every 5 s: outbox -> service_events -> MQTT -> outbox row removed
 web/IPC --> BackendService (service_mutex_, config_apply flag) --> stop polling, store, reload, restart polling
```

What is hard here: the threads (one worker per master, freshness, persistence,
maintenance, MQTT publisher, libmosquitto, time monitor, Modbus clients, IPC);
state that lives in two places (memory and SQLite) and must agree whichever
write fails; objects that are replaced while others hold on to them (the polling
service, the MQTT client, the register bank); an unreliable clock; crashes and
power cuts.

## 2. The modules

| Module | Stands for | Interacts with |
|---|---|---|
| `AlarmEvaluator` | the alarm state machine with its three tables | fed by SamplePipeline, its outbox is drained by AlarmDelivery, its stages are those of ConfigApply |
| `AlarmLifecycle` | what the alarm service promises; implemented by AlarmEvaluator | |
| `AlarmDelivery` | outbox, event table, MQTT publisher and client | |
| `SamplePipeline` | polling threads, persistence queue, backlog of the history | writes what HistoryStore keeps |
| `HistoryStore` | samples, hours, days, dirty mark and rebuild | |
| `EventStore` | rows, repetitions, limits of the event table | takes the alarm events of AlarmDelivery |
| `ChannelExchange` | leases, the exchange of channels in use, publication, the locks of a command | |
| `Collection` | one poll of a master after the other over RTU or TCP, the store and its expiry | one lease of ChannelExchange is one poll here |
| `DeviceCommands` | orders of the operator over the line the device is polled by | same line as Collection |
| `ConfigApply` | stored and running configuration, polling, Modbus server, imports, resets | |
| `DeviceTemplates` | types of devices, preferences, registry, plans of polling, releases | masters are bound in ConfigApply |
| `ModbusServing` | mappings, banks of registers, publication, exchange of banks | fed by Collection |
| `ModbusSessions` | the clients of the Modbus server and its one I/O thread | answers come from ModbusServing |
| `IpcListener` | the listening socket two processes contend for | |
| `IpcClients` | slots, queue and workers of the connections | |
| `NetworkApply` | stored, running and kernel settings of the interface | starts processes by ChildProcess |
| `ChildProcess` | the three ways the backend starts a program | |
| `TimeService` | zone, time daemon, detection of changes of the clock | a change is an action of AlarmEvaluator, AlarmDelivery, SamplePipeline |
| `UpdateManager` | the upgrade engine with its systemd units | |

`MCAlarmEvaluator`, `MCAlarmDelivery` and `MCSamplePipeline` give the first
modules their instances; a second one of AlarmEvaluator, with another master, is
in `MCConfig`. `MCField`, `MCPlatform` and `MCConfig` put modules side
by side that share no variable: a variable `focus` says which part of the
instance moves, and the others stand at one initial state (`AtRest`). Such a run
has the states of each part alone, not of all of them together; interleaving
parts that share nothing would add states and no behaviour. Where parts of the
code do meet, the meeting is an action of a module: the exchange of a channel
under a poller and a command (ChannelExchange), the stop of polling under a
configuration change (ConfigApply, AlarmEvaluator), the change of the clock under
a batch or a delivery (SamplePipeline, AlarmDelivery), the publication of points
while a bank is built (ModbusServing).

What could follow, in this order: refinements of AlarmDelivery and UpdateManager
to abstract specifications ("delivered at least once", "old or new"); pure
algorithms (the block read plan, the decoding of registers) against reference
definitions; the counters and times of the statuses, which Collection leaves out.

## 3. The runs

Bounds are one or two of each thing, counters at two, and a budget of faults per
behaviour: every property is about two actors or about one thing before and
after a fault, and a second fault catches the failure of the way back.

| Run | Instance | Shows |
|---|---|---|
| AlarmRules | 1 point, 3 rules (two-sided counting to 2; one-sided single shot; disabled), clock 1..3 that may be set back, nothing written past the evaluator (`UndisturbedSpec`; Config has the imports and resets) | `AlarmsAreSound`, `JournalTellsState`; `ChangesAreEarned`, `AlarmsKeepTheirIdentity`, refinement of AlarmLifecycle |
| DeliverySafety | 2 events, one on two topics; passes of 2, 2 deliveries remembered, TLS, 2 faults | `NothingIsLost`, `ReceiptsAreGenuine` |
| DeliveryProgress | passes of 1, plain TCP, 2 faults, fair | `EventsAreDelivered` |
| DeliveryRebuild | 3 faults | counterexample to `DeliveriesFollowTheClient` |
| PipelineStop | 2 threads, 2 tasks, 3 points, 3 batches, 1 change of the clock, fair | `QueueIsBounded`, `CountsAreContinuous`, `NothingComesLate`, `StopEnds` |
| PipelineHistory | 1 thread, 3 buckets, backlog of 1, 3 batches, 1 change of the clock | `TypeOK`, `BacklogIsRight` |
| PipelineJump | 1 thread, 2 buckets, 1 batch, 1 change of the clock, fair | counterexample to `TimesAreNotMixed` |
| Field | 2 channels on 3 lines of 2 ports, 2 exchanges, 1 command; 3 blocks of 2 devices, 2 polls, 2 faults; history of 5 buckets, 2 faults; 2 kinds of event and an alarm, room for 2, 2 faults; 3 orders to 2 registers, 2 faults | `TalkIsExclusive`, `ValuesAreCurrent`, `NobodyWaitsInACircle`, `StoreIsTrue`, `AggregatesAreCurrent`, `CountsFitRows`, `ResponsesAreTrue` |
| Upgrade | 2 packages, 2 attempts, installations by hand, 3 faults, fair | `ServicesRunOnWhole`, `StatusTellsTheDisk`, `RecoverySettles` |
| Platform | an address and DHCP, 2 failing commands; helpers; 2 zones, 2 sets of servers, 2 changes; 2 backends, 3 socket faults; 3 connections, 2 workers, 2 slots; 1 mapping, 2 edits, 1 fault; 2 readers of whom 1 is allowed, 2 faults | `ReportIsTrue`, `UnconfirmedIsUntouched`, `NothingIsLeft`, `ChangesAreHandledOnce`, `AppliedIsInForce`, `ServingIsReachable`, `StopReachesEveryone`, `ServedIsPublished`, `AnswersGoForward`, `ReadersAreAnswered` |
| Config | any 2 failing writes, reloads or starts; 2 types, 2 fields, 3 releases, 2 edits, 2 starts, 1 fault; alarms of 1 point counting to 2, with a second master whose batches get lost, imports and half-failed resets | `RunningIsStored`, `PollingIsExclusive`, `TypesAreInForce`, `ChoicesSurvive`, `CountsAreEarned`, `MemoryIsDurable` |
| ConfigTime | 2 settings of the time, no fault | counterexample to `TimeIsCurrent` |

**Fairness.** Only what the system schedules itself is fair, and no run but
DeliveryProgress, PipelineStop, PipelineJump and Upgrade states any. DeliveryProgress: the 5 s
pass, the publisher's worker, the rest of a configuration that has begun, the
restart by systemd, and the network (connection and acknowledgement).
PipelineStop and PipelineJump: the threads, which the operating system runs, and a `stop()` that
has begun. Upgrade: the step of a process that runs, the start of the services
and of the runner, weakly; the two recovery units strongly, because systemd
starts them again and again while faults cut them short. Nothing is asked of
operators, clocks, devices, clients or the alarm evaluator. Faults come from a
budget, so the liveness properties say: once faults have ended.

**Deadlock** is checked in AlarmRules and the Delivery, Field, Config, ConfigTime
and Upgrade runs; a part that has used up its bound is given an explicit rest step
(`CommandsRest`, `TypesRest`). The Pipeline runs and Platform do without the check: a
polling service, a server and a helper process do end.

## 4. Alarms

### AlarmEvaluator

**State.** `rules`, `states`, `contexts` are `rules_`, `states_`, `contexts_`;
`dbRules`, `dbStates` the tables; `config`/`topology` the points of the running
and of the stored configuration; `gap` is `persistence_alarm_gap_`, a member of
the *current* `PollingService`; `stage` says how far a configuration change,
factory reset or import has come. `journal` records the last event of each point
in the outbox, `run` the unbroken run of like rounds of each point; `silent`,
`carried` and `bypassed` record where the code is known to give up a guarantee
(an event that could not be written, counts carried across a lost round, tables
written by somebody else), so that the invariants can say precisely when they
hold.

**Data abstraction.** A sample is where it lies: `low`, `high` beyond a
threshold, `mid` inside both recovery boundaries, `band` within the hysteresis,
`bad` for an invalid, missing or offline point. Thresholds, levels and texts are
left out. A time is a number up to `MaxTime`.

**Actions.** Every public operation holds `mutation_mutex_` throughout and is
one action. Every SQLite transaction may fail: the operations that use several
have a parameter for how far they came (`done` in UpsertRule and DeleteRule; the
sets `D`, `C` of rules and states removed in Synchronize). A failed batch is
LoseBatch. `due` in EvaluateBatch stands for the 60 s checkpoint of an unchanged
active state. Crash loses what is queued; Shutdown drains and saves.

The state machines of different points touch only through the gap flag, which a
second master suffices to set; counts of two are the least for which a run can be
broken in the middle; three times the least for which a state lies between two
others.

### AlarmDelivery

**State.** `outbox`, `stored` are the two tables; `batch`, `step` the pass of
the maintenance thread; `deliveries`, `generation`, `sequence`, `worker`,
`startLater`, `reconnect` the fields of MqttPublisherService; `client`, `wire`,
`acked` libmosquitto and the receipts of MosquittoMqttClient. A message and its
receipt are one record: `claimed` says that `pending_receipts_` still knows it.

**Actions.** A pass reads at most `PassSize` rows and handles each in up to
three steps (append, deliver, remove), between which everything else may
happen. stop, configure and start take the publisher's mutex one after the
other. libmosquitto and the broker are external: unacknowledged messages outlive
a lost connection, an acknowledgement may come at any time. Every failure,
crash, reconfiguration, clock jump and reset spends one of `MaxFaults`.

### EventStore

`events` has the rows with their counts, in `known` the `dedup_states_`
windows with the counts not yet written, and the cached number of rows. Times are abstracted to a clock that may be set back. The
hazard is a count that succeeds on a row that is gone, or a limit applied to a
stale number of rows; `CountsFitRows` relates both caches to the table after any
failed statement, cleanup, clear or restart.

## 5. Collection and history

### ChannelExchange

`line`, `generation`, `portMutex` are the maps of ChannelManager; `leases` says
who holds which mutex; `poller`, `cmd`, `exchange` how far each thread has come. A poller waits for the mutex it found, and looks it up again when it
has it: the port may meanwhile belong to another channel. The exchange takes
all leases in order, then the service mutex for `persist`; commands take the
service mutex first. `manual_mutex_` alone keeps those two from a circle.

### Collection

One lease is one poll: the blocks of the plan in order, each with its attempts;
the answer to a request may come at once, late or never, doubled or spoilt, or
be a refusal. A serial line accepts an answer by its shape (function code and
length), TCP by its number. The store keeps the last value of every point with
its quality and deadline, the statuses of devices and masters and their sums.
`StoreIsTrue` relates what the store shows to what the devices have said, across
late answers, reopened lines and expiry. The system clock goes forward here.

### DeviceCommands

`unit` counts the writes the device has done and the log records it has handed
out; the order is sent once whatever happens. Over TCP a success is told for the
very write that was done; over a serial line possibly for an earlier one to the
same registers, whose answer was late (section 9), and the property says so.

### SamplePipeline

**State.** `worker` is each polling thread between its sample and its submission;
`tasks`, `queuedPoints`, `accepting`, `gapPending` are the members of
OrderedTaskQueue; `consumer` the persistence thread, `alarmGap` its
`persistence_alarm_gap_`; `pending`, `throttled` are `pending_history_records_`
and the keys of `history_write_times_`; `table` the raw rows; `generation`
`history_time_generation_`; `stop`, `flushed` the progress of `stop()`. `axis`
counts the changes of the clock, `cleared` those that have been handled,
`latest` the newest sample of each bucket that must not get lost.

**Actions.** Collect, Prepare, Submit are the stages of a polling thread: the
sample is stamped, the generation is read, the batch is handed over; the clock
may be set between any two. Take, WriteHistory, EvaluateAlarms, Void are those
of the consumer; each part under `persistence_epoch_mutex_` is one action. The
parts of `stop()` follow in the order of the code: join the threads, stop the
queue, join the consumer, take what is pending, check, write. FlushWrite runs
outside the lock and may meet a new time. A master has one history point, a time
is its bucket, a record the number of its batch. When the type in force wants no
history of a point any more, what was to be written of it is given up (`Remove`,
and `off` in FlushCheck).

**BacklogIsRight** has three parts. LatestIsKept: the newest sample of a bucket is
in the table or on its way, unless the code has given it up by name (backlog
full, history switched off, time changed, the last write failed).
PendingIsCurrent: nothing of a former time is pending. WrittenInItsTime: nothing
of a former time is written either, but by that last write (section 9).

### HistoryStore

Time runs in buckets, two to an hour and two hours to a day; an aggregate is the
set of samples it counts, so that "current" is an equation of sets. An hour is
computed from the stored samples, a day from the stored hours. A write refreshes
the aggregates in its own transaction; when only that fails the table is marked,
and rebuilt when it is opened next. `recorded` says whether the published type
wants a history of the point, which an edit changes (`EditType`): a rebuild
leaves the rows of a point without history alone and clears the mark all the
same. `passedOver` holds the samples it left uncounted, until their hour is
written again, and AggregatesAreCurrent excepts them. The retention of samples, hours
and days is such that a bucket loses its samples before its aggregates.

## 6. Configuration, types and Modbus export

### ConfigApply

`stored` and `running` are the configuration reduced to what there is to collect
and to serve; `polling` is `polling_runtime_`; `op` the operation that has
`config_apply_in_progress_`, with the stage it has reached. An operation stops
polling outside the service mutex, stores, reloads, starts again, and undoes its
steps when one fails. `RunningIsStored` is about
masters, channels, mappings, the Modbus server and its bank. It is asked whenever
no operation is under way and none has reported that the former state could not be
restored. The time settings are not in it: run ConfigTime shows that they may
differ.

### DeviceTemplates

`NoForm` stands for a type that does not exist, a form for the fields of one.
Every request about types and preferences, imports and the start of a release
that ships other types are actions; `tables` has the rows and preferences, `registry` the published
types with their generation, `plan` what a polling thread has built from them. The list is published before
its generation moves, so a plan may be of either; `TypesAreInForce` demands that
the plan is right once the thread has taken notice of the generation.
`ChoicesSurvive` is about the fields that go and come back between releases.

### ModbusServing, ModbusSessions

A bank has registers per mapping and a quality; an edit builds a new bank from a
snapshot of the store and the last values of the old one, and exchanges it while
points are published into either. `AnswersGoForward` follows one mapping as
clients read it, over exchanges and restarts. ModbusSessions is the I/O thread:
it accepts, reads, answers all that has come, sends what the socket takes and
closes a client that has ended its side only when it has all its answers.

## 7. The board and its sockets

- **NetworkApply.** Settings stored, in memory and in the kernel; the series of
  commands of an application and of its way back, each of which may fail, while
  DHCP clients of others may appear. The reads at the start may fail too: what
  cannot be read passes for absent, and only the first address is read. A success
  is true of the kernel; a failure without notes has restored what was read, the
  gateway only where there was an address, since the code sets it with one.
- **ChildProcess.** A launcher, its process and the pipe between them, with a
  limit of time that may pass before, while or after the identity is told; the
  same for a command whose output is read and for the lookup of a name.
- **TimeService.** The zone files and the daemon follow the settings; a change of
  the clock is seen by the command that made it and by the monitor. A start that
  fails describes the settings as they are found, but takes a running daemon to
  have the stored servers (`Snapshot`). Changes of less than a minute are left out.
- **IpcListener.** Two processes bind, listen, rebuild and remove on one path,
  with an flock beside it; a process may be killed between any two calls.
- **IpcClients.** Accepting, queueing and serving while `stop()` shuts down the
  connections it finds; the sleep of a worker and its waking are separate steps.
- **UpdateManager.** Every step ends where the disk changes, so power may fail or
  systemd may kill the process between any two, also in the recovery. `data` is
  the last program that migrated the databases, `program` what is installed.
  `install.sh` run by hand takes no lock and looks at no status: ManualInstall may
  happen at any time, in one step, and restarts the services where the gate lets
  it. `overruled` records whether such an installation, or a new validation, has
  come between the manager and a recovery (`hand`, `validation`), or only replaced
  what a final status tells of (`outcome`).

## 8. Proofs

A theorem holds for every value of the constants that satisfies the named
assumptions of its module; nothing else is assumed.

| Module | Theorems | Argument |
|---|---|---|
| `AlarmEvaluator_proofs` | `TypeCorrect`, `StatesStayValid`, `RulesStayWatched`, `AlarmsStaySound`, `MemoryStaysDurable`, `JournalStaysTrue`, `CountsStayEarned`, `ChangesStayEarned`, `AlarmsStayTheSame`, `TablesImplementLifecycle` | `TypeOK` is not inductive on its own: `IInv` adds that every table of states (the evaluator's, the stored one, the copy an import keeps) is valid in the sense of AlarmStore. One step per action, on lemmas saying of each operator of the state machine that it keeps a state well-typed and valid. `DurableInv` adds that a process that is down has an empty memory, and that memory and tables agree up to the times of evaluation in every stage in which they may be read back. The other invariants rest on these two: the journal tells the state of a point up to what was written past the evaluator (`silent`); a running count belongs to an enabled rule and to the rounds seen since, except where a gap was forgotten (`carried`), and `Gains` says what one evaluation may add to it. The refinement maps each point to the phase in its row of the table and every step of the evaluator to a change, a reset or a stutter; it is of `UndisturbedSpec`, as the run AlarmRules is, because an import, or a factory reset that fails half-way, writes the table past the evaluator (`LifeInv`) |
| `AlarmDelivery_proofs` | `NothingIsEverLost`, `ReceiptsStayGenuine` | `DeliveryInv`: a ledger of publications (a number belongs to one topic of one event, lies below the next number, and a receipt is wanted by the delivery that has the number; what is confirmed has been received; deliveries are of the present generation) and what a pass has in hand (`PassInv`: the row it delivers is stored, the row it removes is acknowledged on each of its topics or was not to be sent) |
| `SamplePipeline_proofs` | `RunsHaveNoGap`, `QueueStopsLast`, `BacklogIsBounded`, `BacklogStaysRight`, `QueueStaysBounded` | `OrderInv`: each task carries a gap or the number after the one before it, from the batch in hand through the queue to the next submission; the threads have ended before the queue is stopped. `HistoryInv`: what is pending is the latest sample of its bucket and of the present generation, and whatever the consumer writes is of it too; while the last batch is written nothing else is pending. `AccountInv`: the points counted are the number of pairs of a waiting task and one of its points, which a submission adds to and the head of the queue takes from |
| `Field_proofs` | `TalkStaysExclusive`, `ValuesStayCurrent`, `NobodyEverWaitsInACircle`, `StoreStaysTrue`, `AggregatesStayCurrent`, `CountsStayOnRows`, `ResponsesStayTrue` | ChannelExchange: the table of mutexes is read again by whoever has got one, and the generation is compared where the values are published; the exchange holds all leases from the first swap to the end of the expiry. Collection's invariant: what is on the line was asked for, over a serial line once; while an answer is awaited those to the last request are of the block asked for; what was read is no longer on a serial line, and each answer was read for one block; all points in the store are of one poll, so they expire together. `HistoryInv`: an hour holds samples of its own hour only, and while the table is not marked every sample that is kept and was not passed over is counted in its hour, and with that hour in its day; both are kept longer than samples. `EventsInv`: every window has its row, of its own kind, and the table exceeds its limit by no more rows than statements have failed, so a new identity can be had. `CommandsInv`: answers under way are to different requests and say what the device did; the requests that brought out a record, or may still be answered, are at most those shown and those told to have failed, and the present one |
| `Config_proofs` | `PollingStaysExclusive`, `RunningStaysStored`, `TypesStayInForce`, `ChoicesAlwaysSurvive` | `PollingInv`: a service is being stopped only for an operation that waits for it, and nothing else runs meanwhile. `ConfigInv`: for each stage of an operation, what of the former configuration it still knows, what is stored and what runs, and for which settings, mappings and bank the server stands; nothing is claimed of a part once the operator was told it is open. `TemplatesInv`: what is published has the stored types except between storing and listing them; a shipped type has a preference for each of its fields and for no other; a plan of the present generation is made of the present types until the next are listed. Assumed: the fields of a form are in `Keys` |
| `Platform_proofs` | `UnconfirmedStaysUntouched`, `ReportStaysTrue`, `NothingStaysLeft`, `AppliedStaysInForce`, `ChangesStayHandledOnce`, `ServingStaysReachable`, `StopAlwaysReaches` | NetworkApply: an application has begun only after everything it may touch was confirmed (`AppliesConfirmed`); what is in force follows from how far the list of commands has come, forward or back (`ReportInv`). `StartInv`, `CommandInv`, `LookupInv`: what ChildProcess believes of a child is so, and whoever told its identity is known or will be when the pipe is read. `DaemonInv`: while the service believes in a daemon it has the servers of the settings on their way in or out; `ChangesInv`: a command counts from no earlier than what the detector has seen. `ListenerInv`: a server that owns a socket file has the flock and its file is at the path, and at most one process has the flock. `ClientsInv`: a connection is in one place, and from the pass of the loop on none is added and every open one has been shut down. Assumed: no port carries the name `None` |
| `UpdateManager_proofs` | `ServicesStayOnWhole`, `StatusKeepsToTheDisk` | `UpdateInv`: which steps of an update and of its recovery have been done at each stage of the lock, which program and data the disk holds between any two of them, and whether the backup is complete; the program is replaced only while the services are down and a complete backup is there. The disk is claimed only until a validation or an installation by hand overrules the manager (`overruled`) |
| `Modbus_proofs` | `ReadersStayAnswered`, `ServedStaysPublished`, `AnswersKeepGoingForward` | `SessionsInv`: the answers a client has got and those in its buffer follow one another, and with the requests still to be answered they are as many as it has asked. ModbusServing: the bank that is fed is the last one made and whoever writes to it holds `update_mutex_`, so only a point that is not fed yet may differ (`FreshInv`); the exchange carries last values over under that mutex, so what a bank serves is never behind what an earlier answer had (`ForwardInv`, `AnswersInv`). Assumed: `"none"` is no conversion |

**Model-checked only.** Liveness (`EventsAreDelivered`, `StopEnds`,
`RecoverySettles`), because fairness is out of the prover's reach.

## 9. Findings

Three places where the code differs from its own comments or documents; each is a
run that TLC finds violated, quoted in `PROJECT.json`.

1. A client rebuilt after a clock jump leaves deliveries waiting for receipts
   nobody will send, until the next configuration or restart (DeliveryRebuild;
   `mqtt_publisher_service.cpp:497` against `mqtt_client_mosquitto.cpp:532`).
2. A service that stops compares the generation of its backlog and then writes it
   without `persistence_epoch_mutex_`: when the clock is set in between, samples of
   the former time reach the table (PipelineJump; `polling_service_history.cpp:321`
   against `docs/框架解析.md:84`).
3. An edit that has read the tables puts the time settings saved meanwhile back
   to their former values in memory (ConfigTime; `backend_time_settings.cpp:114`
   against `runtime_config_compiler.h:15`).

Guarantees the code gives up, which the models show and the properties except by
name (`silent`, `carried`, `bypassed` in AlarmEvaluator, the conditions of the
other properties):

- **Events lost around imports and resets.** A batch evaluated while an import
  waits for the polling service to stop commits its alarms without their events
  (`backend_config_import_export.cpp:451`; `EvaluateBatch` in stage `drain`).
  A restart between storing a smaller configuration and synchronizing the alarms
  ends an active alarm without a recovery event, because `initialize` sets the new
  contexts first (`alarm_evaluator.cpp:138`; `Restart`). Both are `silent`.
- **A forgotten gap.** A restart of polling forgets the gap a failed batch left,
  and counts go on across it (`backend_polling_control.cpp:131` against
  `polling_service.h:258`): `carried`.
- **Tables written past the evaluator.** An import of alarm rules, or a factory
  reset that failed half-way, replaces the tables while the evaluator goes on with
  what it had, until the next restart: `bypassed`.
- **A sample stamped before a jump.** The generation is read after the sample was
  stamped, so an old stamp may pass as current (`polling_service_collect.cpp:350`
  against `docs/框架解析.md:84`). BacklogIsRight is about the generation a batch was
  given.
- **The last write of a service.** It may bring samples of a former time (finding
  2), and what goes back to the backlog when it fails is lost with the service.
- **A rebuild that passes over a point.** `rebuild_recent_aggregates_locked` asks
  whether the type in force wants a history (`history_store.cpp:42-59`, `1278`),
  and the mark is cleared for the whole table (`1222`). Samples taken before the
  history was switched off stay without aggregates until their hour is written
  again or they expire: `passedOver`.
- **A lost wake-up.** When a worker thread of the IPC server cannot be made, the
  others are told to end without the mutex they sleep under (`ipc_server.cpp:1433`);
  one may miss it, and the start waits for it. IpcClients begins with a server
  that did start.

Further observations made while translating; no run is about them:

- *Alarms.* While the clock stands before the last evaluation, batches are ignored
  and alarms stay as they are (`alarm_evaluator.cpp:731`).
- *MQTT.* A client start that fails for now after a reconnection is not retried
  (`mqtt_publisher_service.cpp:501`, its `.h:90`).
- *Events.* A cleanup that deletes rows sets the number of unwritten counts to zero
  without clearing their marks (`event_store.cpp:871`), so that queries show the
  old count until the next repetition; a repetition that meets an unwritten count
  it cannot write is not counted itself (414-430); `clear_all` forgets the windows
  even when the deletion fails.
- *Collection.* Over a serial line a late answer of the same shape, also of another
  device of the same master, is taken for the present one
  (`serial_channel.cpp:646`); StoreIsTrue says what remains true. The merge of
  cached points after a failed poll (`polling_service_collect.cpp:405`) cannot
  bring anything back. A stop before the first lease publishes nothing. The summary
  of a status may be that of the round before (`polling_service_status.cpp:53`, `141`).
  The generation of a channel that is created again starts at 1.
- *Device commands.* Over a serial line a late acknowledgement of an earlier write
  to the same registers may be told as the success of a later one that was lost,
  and the late answer to a read of an event be shown as a test record.
- *Configuration.* After a factory reset whose reload fails
  (`backend_settings.cpp:338`) the backend keeps the old bank of registers while
  the export feeds the new one; settings of the Modbus server applied then serve a
  bank nobody updates (`backend_modbus_server.cpp:64-71`). The operator was told of
  the failure. `export_system_config`
  (`backend_config_import_export.cpp:330`) does not look at the apply flag.
  The start of polling at the start of the process (`application.cpp:142`) is not
  repeated when an operation holds the flag.
- *Modbus server.* `stop()` may put "stopping" in place of "error"
  (`modbus_tcp_server.cpp:216-218`).
- *Device types.* A repeated creation is recognised only in one spelling of the
  request (`device_template_store.cpp:853-868`); a preference whose reload fails is
  stored, not published, and told as failed (1144-1147); the undoing of an import
  may undo a preference changed meanwhile; a release without a shipped type some
  master is bound to does not start (`device_derivation.cpp:61`); a release that
  switches grouping on may leave a shown field without a group; a type of the
  operator that becomes a shipped one may inherit a preference left over (1050-1067,
  1516). `prune_custom_templates` and `upsert_custom_templates` are not called.
- *Upgrade.* A validation while the state is FAILED with a recovery still required
  opens the gate again (`docs/框架解析.md:125`, `docs/部署板端解析.md:173`), and so
  may `install.sh` run by hand in the midst of an upgrade or recovery
  (`install.sh:287-376`, `429-457`), whose health check then fails on a program it
  did not put there; `overruled` excepts both. When all attempts are used up the
  gate opens over whatever is installed: ServicesRunOnWhole excepts that, and
  RecoverySettles counts services that run then as settled, on a mixed program
  too, because the code does.
- *Time.* A jump within 5 s of a command is taken for that command's
  (`backend_time_change.cpp:60`); a daemon the service has given up may be taken as
  running (`linux_time_runtime.cpp:845`); AppliedIsInForce excepts it.
- *Lookup of names.* A lookup cut short after its helper was waited for has nothing
  left to kill (`bounded_address_resolver.cpp:259`).
- *Web accounts.* `--recover-super-admin` and the running service each read a whole
  row and write it back without a common transaction
  (`config_store_web_auth.cpp:698-735`, `206-240`; `docs/产品维护说明.md:26`
  recommends stopping the services). A start makes the built-in `user` with role
  viewer an operator again (130-137). A factory reset that fails after the
  passwords were reset (`backend_settings.cpp:281-291`) is told as failed.

## 10. Limits

**Everywhere.** SQLite transactions are atomic and durable (the loss of the last
ones at a power cut under `synchronous=NORMAL` is not modelled), the mutexes are
those the code takes, and data races are outside the models. Texts, thresholds,
encodings and logging are abstracted; queries that only read are left out.

**Module by module.** *HistoryStore*: the clock goes forward; samples older than
72 h are skipped by the rebuild and the mark is cleared; the rebuild recomputes a
boundary hour from the rows left; the trimmed mean and the paging of the export
are left out. *Collection*: numbers of transactions do not wrap, one attempt per
block within the bound, times, counters and diagnoses of the statuses are left out.
*DeviceCommands*: late answers to polls are in Collection only; the device does
what it is told at once or never. *ModbusServing*: the encoding of a value is its
conversion's name. *ConfigApply*: the settings of MQTT, the system and the network
are not in it, nor is `reload_config`, which nothing calls. *DeviceTemplates*: one
master. *AlarmDelivery*: the best-effort status and realtime messages only use up
numbers. *SamplePipeline*: one history point to a master; throttling leaves open
when a record is due. *NetworkApply*: one interface with one port of addresses; the
ports and revisions of several are not modelled. *TimeService*: jumps that cancel
each other between two looks, and the early return for an adjustment like the last
(`backend_time_change.cpp:50-54`), are left out. *UpdateManager*: an installation by
hand that breaks off in the middle, or is run with `--no-start`, is left out.

**Out of the prover's reach.** Liveness and ENABLED; induction over data; modules
with recursive operators. These stay with TLC.

**Not modelled.**

- *Web server.* Sessions, counters of failed logins and uploads live behind one
  mutex of one process and are not persisted; pages show what IPC answers.
- *Web accounts.* Single transactions on one table, and hashing.
- *Queries and overview, MQTT payloads.* They change no state.
- *IPC encoding and dispatch.* Conversions between JSON and the calls modelled
  elsewhere.
- *Process.* The order of start and shutdown; its steps that matter are actions of
  the modules they start and stop.
- *Packaging.* Shell scripts; `install.sh` appears in UpdateManager as the step that
  replaces the program.
- *Vendored libraries.* External: SQLite, the JSON library, libmosquitto.
- *HTML, CSS and JavaScript, logging.* No state.
