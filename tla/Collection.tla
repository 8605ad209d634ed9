----------------------------- MODULE Collection -----------------------------
(***************************************************************************)
(* One poll after the other of a master: every block of its devices is     *)
(* asked for over a serial line or a TCP connection, the answers are       *)
(* mapped to points, and the points, the status of the devices and that of *)
(* the master go to the store, where values expire when they are not       *)
(* renewed.  All devices of a master answer under its one address: a       *)
(* device is a range of registers there.                                   *)
(*                                                                         *)
(* master_collector.cpp, block_read_plan.cpp, serial_channel.cpp,          *)
(* tcp_channel.cpp, bounded_address_resolver.cpp, the Modbus protocols,    *)
(* register_mapper.cpp, the collection, failure and status parts of        *)
(* PollingService and data_store.cpp.  ChannelExchange has what happens    *)
(* when the channel is exchanged meanwhile.  External: the devices, which  *)
(* answer at once, late or never, and the network.                         *)
(***************************************************************************)
EXTENDS Naturals, Sequences, FiniteSets

CONSTANTS
  Plans,          (* 1..n: the blocks to be read, in order                  *)
  DeviceOf,       (* the device of each                                     *)
  ShapeOf,        (* its function code and number of registers              *)
  Attempts,       (* 1 + retry_count                                        *)
  MaxPolls,       (* bound: polls                                           *)
  MaxLineFaults   (* bound: failures of lines, answers lost, doubled, spoilt *)

ASSUME CollectionAssumption ==
  /\ IsFiniteSet(Plans) /\ Plans = 1 .. Cardinality(Plans)
  /\ DOMAIN DeviceOf = Plans /\ DOMAIN ShapeOf = Plans
  /\ Attempts \in Nat \ {0} /\ MaxPolls \in Nat /\ MaxLineFaults \in Nat

VARIABLES
  medium,      (* what the channel is: "rtu" or "tcp"                       *)
  link,        (* [open, wire, inbox]: the connection, the answers on their *)
               (* way to it and those that have arrived                     *)
  asked,       (* requests sent, which number the transactions              *)
  poll,        (* the poll that runs                                        *)
  store,       (* DataStore: points, devices, the master, the channel, sums *)
  stopping,    (* stop_requested_                                           *)
  lineFaults

collectionVars == <<medium, link, asked, poll, store, stopping, lineFaults>>

PolledDevices == {DeviceOf[p] : p \in Plans}
PlansOf(d) == {p \in Plans : DeviceOf[p] = d}

LineFault == lineFaults < MaxLineFaults /\ lineFaults' = lineFaults + 1
NoLineFault == UNCHANGED lineFaults

(***************************************************************************)
(* The connection.                                                         *)
(***************************************************************************)
Closed == [open |-> FALSE, wire |-> {}, inbox |-> <<>>]

(* A serial port that is opened or closed forgets what has arrived, the    *)
(* devices still answer; answers to a TCP connection end with it.          *)
Shut == IF medium = "tcp" THEN Closed ELSE [Closed EXCEPT !.wire = link.wire]
Ready == IF link.open THEN link ELSE [Shut EXCEPT !.open = TRUE]

(***************************************************************************)
(* The requests of a poll.                                                 *)
(***************************************************************************)
NoAnswer == [to |-> 0, ask |-> 0, kind |-> "none"]
Unread == [p \in Plans |-> NoAnswer]

(* Between polls, before the n-th of them is counted.                      *)
NotPolling(n, leased) ==
  [at |-> "idle", n |-> n, plan |-> 1, left |-> Attempts, got |-> Unread,
   on |-> [p \in Plans |-> 0], leased |-> leased]
Done == NotPolling(poll.n, poll.leased)

(* The next attempt for the same block, or the next block.                 *)
NextBlock ==
  IF poll.plan = Cardinality(Plans) THEN [poll EXCEPT !.at = "collected"]
  ELSE [poll EXCEPT !.at = "asking", !.plan = @ + 1, !.left = Attempts]

AttemptFails ==
  poll' = IF poll.left > 1 THEN [poll EXCEPT !.at = "asking", !.left = @ - 1] ELSE NextBlock

AttemptSucceeds(a) == poll' = [NextBlock EXCEPT !.got[poll.plan] = a, !.on[poll.plan] = asked]

OnTheLine == UNCHANGED <<medium, store, stopping>>
Elsewhere == UNCHANGED <<medium, link, asked>>

(***************************************************************************)
(* execute_master_collection, to the first request.                        *)
(***************************************************************************)
StartPoll ==
  /\ poll.at = "idle" /\ ~stopping /\ poll.n < MaxPolls
  /\ poll' = [poll EXCEPT !.at = "begun", !.n = @ + 1]
  /\ Elsewhere /\ NoLineFault /\ UNCHANGED <<store, stopping>>

(* Before its first lease a target knows no generation, and what it would  *)
(* publish is refused.                                                     *)
PollSeesStop ==
  /\ poll.at = "begun" /\ stopping
  /\ poll' = IF poll.leased THEN [poll EXCEPT !.at = "failing"] ELSE Done
  /\ Elsewhere /\ NoLineFault /\ UNCHANGED <<store, stopping>>

TakeLease ==
  /\ poll.at = "begun" /\ ~stopping
  /\ poll' = [poll EXCEPT !.at = "leased", !.leased = TRUE]
  /\ Elsewhere /\ NoLineFault /\ UNCHANGED <<store, stopping>>

(* A serial port is opened first, a connection when it is needed.          *)
Prepare ==
  /\ poll.at = "leased" /\ ~stopping
  /\ link' = IF medium = "rtu" THEN Ready ELSE link
  /\ poll' = [poll EXCEPT !.at = "asking"]
  /\ NoLineFault /\ UNCHANGED asked /\ OnTheLine

PrepareFails ==
  /\ poll.at = "leased" /\ ~stopping /\ medium = "rtu" /\ ~link.open /\ LineFault
  /\ poll' = [poll EXCEPT !.at = "failing"]
  /\ Elsewhere /\ UNCHANGED <<store, stopping>>

(***************************************************************************)
(* transceive.                                                             *)
(***************************************************************************)
(* What has arrived at a serial port by now is thrown away: some of the    *)
(* late answers.  Others may come before the request is out, or after.     *)
OpenToAsk ==
  /\ poll.at = "asking"
  /\ IF medium = "rtu"
     THEN \E late \in SUBSET link.wire : link' = [Ready EXCEPT !.wire = late, !.inbox = <<>>]
     ELSE link' = Ready
  /\ poll' = [poll EXCEPT !.at = "sending"]
  /\ NoLineFault /\ UNCHANGED asked /\ OnTheLine

OpenFails ==
  /\ poll.at = "asking" /\ ~link.open /\ LineFault
  /\ AttemptFails
  /\ UNCHANGED <<link, asked>> /\ OnTheLine

(* A request the device understands is answered with the registers; what   *)
(* they hold may be no value, and the device may refuse.                   *)
Answers == {[to |-> poll.plan, ask |-> asked + 1, kind |-> k] : k \in {"value", "fault", "refusal"}}

Send ==
  /\ poll.at = "sending"
  /\ asked' = asked + 1
  /\ poll' = [poll EXCEPT !.at = "waiting"]
  /\ \/ \E a \in Answers :
          /\ link' = [link EXCEPT !.wire = @ \cup {a}]
          /\ IF a.kind = "value" THEN NoLineFault ELSE LineFault
     \/ UNCHANGED link /\ LineFault
  /\ OnTheLine

LineFails ==
  /\ poll.at \in {"sending", "waiting"} /\ LineFault
  /\ link' = Shut /\ AttemptFails
  /\ UNCHANGED asked /\ OnTheLine

(* An answer may come twice over TCP and spoilt over a serial line.  At    *)
(* other times it changes nothing that the next request does not.          *)
Arrive(a) ==
  /\ a \in link.wire /\ poll.at \in {"sending", "waiting"}
  /\ \/ /\ link' = [link EXCEPT !.wire = @ \ {a}, !.inbox = Append(@, a)]
        /\ NoLineFault
     \/ /\ medium = "tcp" /\ LineFault
        /\ link' = [link EXCEPT !.inbox = Append(@, a)]
     \/ /\ medium = "rtu" /\ LineFault
        /\ link' = [link EXCEPT !.wire = @ \ {a}, !.inbox = Append(@, [a EXCEPT !.kind = "noise"])]
  /\ UNCHANGED <<asked, poll>> /\ OnTheLine

(* Mutation: any answer of the unit will do.                               *)
FitsAnyShape(a) == a.kind # "noise"

(* An answer on a serial line says whose registers it holds, by which      *)
(* function and how many, not which.                                       *)
FitsShape(a) == a.kind # "noise" /\ ShapeOf[a.to] = ShapeOf[poll.plan]

(* Over TCP it also says which request it answers.                         *)
FitsRequest(a) == a.ask = asked /\ FitsShape(a)

Readable(a) == a.kind \in {"value", "fault"}

(* What the registers hold is a value: of the type of the field, finite,   *)
(* no code of a fault and not ruled out.                                   *)
Valid(a) == a.kind = "value"

(* Reading ends with the length the first frame asks for; more than that   *)
(* is no frame.                                                            *)
ReceiveRtu ==
  /\ poll.at = "waiting" /\ medium = "rtu" /\ link.inbox # <<>>
  /\ \/ LET a == Head(link.inbox) IN
        /\ link' = [link EXCEPT !.inbox = Tail(@)]
        /\ IF FitsShape(a) /\ Readable(a) THEN AttemptSucceeds(a) ELSE AttemptFails
     \/ /\ Len(link.inbox) > 1
        /\ link' = [link EXCEPT !.inbox = <<>>]
        /\ AttemptFails
  /\ NoLineFault /\ UNCHANGED asked /\ OnTheLine

(* An answer that is not to this request ends the connection.              *)
ReceiveTcp ==
  /\ poll.at = "waiting" /\ medium = "tcp" /\ link.inbox # <<>>
  /\ LET a == Head(link.inbox) IN
     /\ link' = IF FitsRequest(a) THEN [link EXCEPT !.inbox = Tail(@)] ELSE Closed
     /\ IF FitsRequest(a) /\ Readable(a) THEN AttemptSucceeds(a) ELSE AttemptFails
  /\ NoLineFault /\ UNCHANGED asked /\ OnTheLine

TimesOut ==
  /\ poll.at = "waiting" /\ link.inbox = <<>>
  /\ IF \E a \in link.wire : a.ask = asked THEN LineFault ELSE NoLineFault
  /\ link' = IF medium = "tcp" THEN Closed ELSE link
  /\ AttemptFails
  /\ UNCHANGED asked /\ OnTheLine

(* A stop ends the wait; a connection in the middle of an exchange goes.   *)
Cancel ==
  /\ stopping /\ poll.at \in {"asking", "sending", "waiting"}
  /\ link' \in CASE medium = "rtu" \/ poll.at = "asking" -> {link}
                 [] medium = "tcp" /\ poll.at = "sending" -> {link, Closed}
                 [] OTHER -> {Closed}
  /\ poll' = [NotPolling(poll.n, TRUE) EXCEPT !.at = "collected"]
  /\ NoLineFault /\ UNCHANGED asked /\ OnTheLine

(***************************************************************************)
(* DataStore.                                                              *)
(***************************************************************************)
(* The sums follow the differences.                                        *)
Adjusted(sum, up, down) == IF sum + up >= down THEN sum + up - down ELSE 0

WithDevices(s, devices) ==
  LET up == {d \in PolledDevices : devices[d].online /\ ~s.devices[d].online}
      down == {d \in PolledDevices : ~devices[d].online /\ s.devices[d].online}
  IN [s EXCEPT !.devices = devices,
               !.devicesOnline = Adjusted(@, Cardinality(up), Cardinality(down))]

WithMaster(s, master) ==
  [s EXCEPT !.master = master,
            !.mastersOnline = IF master.online = s.master.online THEN @
                              ELSE IF master.online THEN @ + 1 ELSE Adjusted(@, 0, 1)]

WithChannel(s, opened) ==
  [s EXCEPT !.channel = opened,
            !.channelsOnline = IF opened = s.channel THEN @
                               ELSE IF opened THEN @ + 1 ELSE Adjusted(@, 0, 1)]

(* expire_device_values for the points of ps: a device of which a value    *)
(* expires is told to be offline.                                          *)
Expire(s, ps) ==
  LET gone == {p \in ps : s.points[p].good}
      devices == [d \in PolledDevices |->
                    IF PlansOf(d) \cap gone = {} THEN s.devices[d]
                    ELSE [online |-> FALSE, ok |-> FALSE]]
  IN [WithDevices(s, devices) EXCEPT
        !.points = [p \in Plans |-> [s.points[p] EXCEPT !.good = @ /\ p \notin gone]]]

(***************************************************************************)
(* What was read, as points and statuses: map_devices.  What a failed      *)
(* device keeps of its status in the store, times and counters, is left    *)
(* out.                                                                    *)
(***************************************************************************)
MappedDevice(d) ==
  LET usable == {p \in PlansOf(d) : Readable(poll.got[p])}
  IN [online |-> usable # {}, ok |-> usable = PlansOf(d)]

MappedPoint(p) ==
  [good |-> Valid(poll.got[p]), from |-> poll.got[p], ask |-> poll.on[p], at |-> poll.n]

MappedMaster ==
  [online |-> \E p \in Plans : Readable(poll.got[p]),
   ok |-> \A p \in Plans : Readable(poll.got[p])]

TellChannel ==
  /\ poll.at = "collected"
  /\ store' = WithChannel(store, link.open)
  /\ poll' = [poll EXCEPT !.at = "told"]
  /\ Elsewhere /\ NoLineFault /\ UNCHANGED stopping

(* A stop by now, and nothing is published.                                *)
PollGivesUp ==
  /\ poll.at \in {"leased", "told"} /\ stopping
  /\ poll' = Done
  /\ Elsewhere /\ NoLineFault /\ UNCHANGED <<store, stopping>>

Map ==
  /\ poll.at = "told" /\ ~stopping
  /\ poll' = [poll EXCEPT !.at = "mapped"]
  /\ Elsewhere /\ NoLineFault /\ UNCHANGED <<store, stopping>>

(* publish_device_statuses.                                                *)
Published ==
  [WithDevices(store, [d \in PolledDevices |-> MappedDevice(d)]) EXCEPT
     !.points = [p \in Plans |-> MappedPoint(p)]]

PublishDevices ==
  /\ poll.at = "mapped"
  /\ store' = Published
  /\ poll' = [poll EXCEPT !.at = "published"]
  /\ Elsewhere /\ NoLineFault /\ UNCHANGED stopping

(* mark_devices_collect_failed: no block was read.                         *)
PublishFailure ==
  /\ poll.at = "failed"
  /\ store' = Published
  /\ poll' = Done
  /\ Elsewhere /\ NoLineFault /\ UNCHANGED stopping

(* publish_master_status: after the devices, or before when nothing was    *)
(* asked.                                                                  *)
PublishMaster ==
  /\ poll.at \in {"published", "failing"}
  /\ store' = WithMaster(store, IF poll.at = "published" THEN MappedMaster
                                ELSE [online |-> FALSE, ok |-> FALSE])
  /\ poll' = IF poll.at = "published" THEN Done ELSE [poll EXCEPT !.at = "failed"]
  /\ Elsewhere /\ NoLineFault /\ UNCHANGED stopping

(***************************************************************************)
(* The freshness thread, and stop, after which polling may start again.    *)
(***************************************************************************)
(* A deadline is that of a sample: points read in one poll have the same,  *)
(* and it passes for those of an earlier poll first.                       *)
FreshnessPass ==
  /\ ~stopping
  /\ \E q \in Plans :
       store' = Expire(store, {p \in Plans : store.points[p].at <= store.points[q].at})
  /\ Elsewhere /\ NoLineFault /\ UNCHANGED <<poll, stopping>>

RequestStop ==
  /\ ~stopping /\ LineFault
  /\ stopping' = TRUE
  /\ Elsewhere /\ UNCHANGED <<poll, store>>

StopCompletes ==
  /\ stopping /\ poll.at = "idle"
  /\ store' = Expire(store, Plans)
  /\ stopping' = FALSE
  /\ poll' = NotPolling(poll.n, FALSE)
  /\ Elsewhere /\ NoLineFault

(***************************************************************************)
(* The specification.                                                      *)
(***************************************************************************)
(* DataStore::initialize.                                                  *)
EmptyStore ==
  [points |-> [p \in Plans |-> [good |-> FALSE, from |-> NoAnswer, ask |-> 0, at |-> 0]],
   devices |-> [d \in PolledDevices |-> [online |-> FALSE, ok |-> FALSE]],
   master |-> [online |-> FALSE, ok |-> FALSE], channel |-> FALSE,
   devicesOnline |-> 0, mastersOnline |-> 0, channelsOnline |-> 0]

CollectionInit ==
  /\ medium \in {"rtu", "tcp"}
  /\ link = [open |-> FALSE, wire |-> {}, inbox |-> <<>>]
  /\ asked = 0 /\ stopping = FALSE /\ lineFaults = 0
  /\ poll = NotPolling(0, FALSE)
  /\ store = EmptyStore

CollectionNext ==
  \/ StartPoll \/ PollSeesStop \/ TakeLease \/ Prepare \/ PrepareFails
  \/ OpenToAsk \/ OpenFails \/ Send \/ LineFails
  \/ \E a \in link.wire : Arrive(a)
  \/ ReceiveRtu \/ ReceiveTcp \/ TimesOut \/ Cancel
  \/ TellChannel \/ PollGivesUp \/ Map \/ PublishDevices \/ PublishFailure \/ PublishMaster
  \/ FreshnessPass \/ RequestStop \/ StopCompletes

CollectionSpec == CollectionInit /\ [][CollectionNext]_collectionVars

(***************************************************************************)
(* What is promised.                                                       *)
(***************************************************************************)
(* A good value came in an answer of a device to a request for a block of  *)
(* that shape, which no other value came in; over TCP to the very request  *)
(* it was asked for by.  Over a serial line it may be the late answer to   *)
(* an earlier request, of another block of the same shape.                 *)
ValuesAreAnswered ==
  \A p \in Plans : store.points[p].good =>
    LET v == store.points[p] IN
    /\ Readable(v.from) /\ ShapeOf[v.from.to] = ShapeOf[p] /\ v.from.ask <= v.ask
    /\ medium = "tcp" => v.from.to = p /\ v.from.ask = v.ask
    /\ \A q \in Plans \ {p} : store.points[q].good => store.points[q].from # v.from

(* A device with a good value is online, one all of whose blocks were read *)
(* has them all of the last poll that was published, and the sums of what  *)
(* is online are those of the statuses told.                               *)
StatusTellsValues ==
  /\ \A d \in PolledDevices :
       (\E p \in PlansOf(d) : store.points[p].good) => store.devices[d].online
  /\ \A d \in PolledDevices : store.devices[d].ok =>
       \A p \in PlansOf(d) : Readable(store.points[p].from)
  /\ store.devicesOnline = Cardinality({d \in PolledDevices : store.devices[d].online})
  /\ store.mastersOnline = (IF store.master.online THEN 1 ELSE 0)
  /\ store.channelsOnline = (IF store.channel THEN 1 ELSE 0)

(* What the store shows at any moment is what the devices have said.       *)
StoreIsTrue == ValuesAreAnswered /\ StatusTellsValues
=============================================================================
