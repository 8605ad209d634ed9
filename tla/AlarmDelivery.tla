---------------------------- MODULE AlarmDelivery ----------------------------
(***************************************************************************)
(* The way of an alarm event out of the controller: from the outbox table  *)
(* (AlarmStore) through EventStore to the MQTT broker, and only then out   *)
(* of the outbox.  The maintenance thread makes passes over the outbox     *)
(* (BackendService::retry_pending_events); MqttPublisherService keeps what *)
(* it has published and not yet seen acknowledged; MosquittoMqttClient     *)
(* keeps the receipts.  The configuration handlers and the publisher's own *)
(* worker stop, replace and restart the client meanwhile.                  *)
(*                                                                         *)
(* A publication is known by its sequence number; the topics of an event   *)
(* are 1 (event) and, for an alarm, 2 (alarm).  Status and realtime        *)
(* messages only use up sequence numbers and are left out.                 *)
(***************************************************************************)
EXTENDS Naturals, Sequences, FiniteSets

CONSTANTS
  Events,       (* the events the evaluator writes                         *)
  Alarms,       (* those of source "data_alarm": published on two topics   *)
  PassSize,     (* kept from the code: rows one pass reads (32)            *)
  MaxInFlight,  (* kept from the code: deliveries remembered (128)         *)
  Tls,          (* MQTT runs over TLS: a jump of the clock reconnects it   *)
  MaxFaults     (* bound: failures, crashes and reconfigurations           *)

ASSUME EventsAssumption == IsFiniteSet(Events) /\ Alarms \subseteq Events

ASSUME SizesAssumption ==
  /\ PassSize \in Nat \ {0} /\ MaxInFlight \in Nat \ {0}
  /\ Tls \in BOOLEAN /\ MaxFaults \in Nat

VARIABLES
  up,          (* the process runs                                         *)
  outbox,      (* table alarm_event_outbox, in the order of its sequence   *)
  stored,      (* table service_events                                     *)
  batch,       (* the rows of the current pass still to be handled         *)
  step,        (* what the pass does next with the first of them           *)
  enabled,     (* settings_.enabled, as stored and as configured           *)
  worker,      (* the publisher thread: "none", "running", "exited"        *)
  startLater,  (* client_start_pending_                                    *)
  reconnect,   (* time_reconnect_requested_                                *)
  deliveries,  (* durable_deliveries_                                      *)
  generation,  (* configuration_generation_                                *)
  sequence,    (* sequence_                                                *)
  client,      (* mosq_ and its connection                                 *)
  wire,        (* what libmosquitto has to send or to see acknowledged     *)
  acked,       (* acknowledged_                                            *)
  apply,       (* progress of a configuration of the publisher             *)
  faults,      (* failures so far                                          *)
  produced,    (* history: the events written                              *)
  received,    (* history: what the broker acknowledged: event and topic   *)
  unsent,      (* history: events that left while MQTT was disabled        *)
  forgotten    (* history: events a factory reset may have erased          *)

tables    == <<outbox, stored>>
pass      == <<batch, step>>
publisher == <<enabled, worker, startLater, reconnect, deliveries, generation, sequence, apply>>
library   == <<client, wire, acked>>
history   == <<produced, received, unsent, forgotten>>
vars      == <<up, tables, pass, publisher, library, faults, history>>

Topics(e) == IF e \in Alarms THEN {1, 2} ELSE {1}

Listed(s) == {s[i] : i \in 1..Len(s)}

(* A row of event e removed; event_id is unique in the table.              *)
Without(s, e) ==
  IF e \notin Listed(s) THEN s
  ELSE LET i == CHOOSE i \in 1..Len(s) : s[i] = e
       IN  SubSeq(s, 1, i - 1) \o SubSeq(s, i + 1, Len(s))

NoDelivery ==
  [generation |-> 0, sequences |-> [i \in 1..2 |-> 0], confirmed |-> [i \in 1..2 |-> FALSE]]

InFlight == {e \in Events : deliveries[e] # NoDelivery}

NothingInFlight == [e \in Events |-> NoDelivery]

Fault == faults < MaxFaults /\ faults' = faults + 1

(***************************************************************************)
(* The evaluator commits an event together with the state it reports.      *)
(***************************************************************************)
Emit ==
  /\ up
  /\ \E e \in Events \ produced :
       /\ outbox' = Append(outbox, e)
       /\ produced' = produced \cup {e}
  /\ UNCHANGED <<up, stored, pass, publisher, library, faults, received, unsent, forgotten>>

(***************************************************************************)
(* A pass of the maintenance thread.  It holds alarm_delivery_mutex_, so   *)
(* only a factory reset and an import keep out of its way.                 *)
(***************************************************************************)
ReadOutbox ==
  /\ up /\ step = "idle"
  /\ batch' = SubSeq(outbox, 1, IF Len(outbox) < PassSize THEN Len(outbox) ELSE PassSize)
  /\ step' = IF outbox = <<>> THEN "idle" ELSE "append"
  /\ UNCHANGED <<up, tables, publisher, library, faults, history>>

NextEvent ==
  /\ batch' = Tail(batch)
  /\ step' = IF Len(batch) = 1 THEN "idle" ELSE "append"

(* EventStore keeps one row per event_id; a row that cannot be written     *)
(* leaves the event to the next pass.                                      *)
AppendEvent ==
  /\ up /\ step = "append"
  /\ \/ /\ stored' = stored \cup {Head(batch)}
        /\ step' = "deliver"
        /\ UNCHANGED <<batch, faults>>
     \/ /\ Head(batch) \notin stored
        /\ Fault /\ NextEvent
        /\ UNCHANGED stored
  /\ UNCHANGED <<up, outbox, publisher, library, history>>

(* Mutation: an event counts as delivered once its first topic is.         *)
CompleteAfterFirst(e, d) == d.confirmed[1]

CompleteDelivery(e, d) == \A i \in Topics(e) : d.confirmed[i]

Seen(d, e) ==
  [d EXCEPT !.confirmed =
     [i \in 1..2 |-> \/ d.confirmed[i]
                     \/ i \in Topics(e) /\ d.sequences[i] # 0 /\ d.sequences[i] \in acked]]

Numbered(d, todo, published) ==
  [d EXCEPT !.sequences =
     [i \in 1..2 |-> IF i \in published
                     THEN sequence + Cardinality({j \in todo : j < i})
                     ELSE d.sequences[i]]]

(* deliver_durable_event, for an event MQTT is able to take: the receipts  *)
(* are consumed, what was never published is published, and the event is   *)
(* complete when every topic had been confirmed before.                    *)
PublishTopics(e) ==
  LET known == deliveries[e]
      d == IF known.generation = generation THEN known
           ELSE [NoDelivery EXCEPT !.generation = generation]
      seen == Seen(d, e)
      todo == {i \in Topics(e) : ~seen.confirmed[i] /\ seen.sequences[i] = 0}
  IN \E published \in SUBSET todo :
       LET next == Numbered(seen, todo, published) IN
       /\ IF published = todo THEN UNCHANGED faults ELSE Fault
       /\ sequence' = sequence + Cardinality(todo)
       /\ wire' = wire \cup {[seq |-> next.sequences[i], event |-> e, topic |-> i,
                              claimed |-> TRUE] : i \in published}
       /\ acked' = acked \ {d.sequences[i] : i \in Topics(e)}
       /\ deliveries' = [deliveries EXCEPT ![e] =
                           IF CompleteDelivery(e, seen) THEN NoDelivery ELSE next]
       /\ IF CompleteDelivery(e, seen) THEN step' = "remove" /\ UNCHANGED batch
                                       ELSE NextEvent

DeliverEvent ==
  /\ up /\ step = "deliver"
  /\ LET e == Head(batch) IN
     \/ /\ ~enabled
        /\ deliveries' = [deliveries EXCEPT ![e] = NoDelivery]
        /\ step' = "remove"
        /\ UNCHANGED <<batch, sequence, wire, acked, faults>>
     \/ /\ enabled
        /\ client # "connected" \/ (e \notin InFlight /\ Cardinality(InFlight) >= MaxInFlight)
        /\ NextEvent
        /\ UNCHANGED <<deliveries, sequence, wire, acked, faults>>
     \/ /\ enabled /\ client = "connected"
        /\ e \in InFlight \/ Cardinality(InFlight) < MaxInFlight
        /\ PublishTopics(e)
  /\ unsent' = IF enabled THEN unsent ELSE unsent \cup {Head(batch)}
  /\ UNCHANGED <<up, tables, enabled, worker, startLater, reconnect, generation, apply,
                 client, produced, received, forgotten>>

RemoveEvent ==
  /\ up /\ step = "remove"
  /\ NextEvent
  /\ \/ outbox' = Without(outbox, Head(batch)) /\ UNCHANGED faults
     \/ UNCHANGED outbox /\ Fault
  /\ UNCHANGED <<up, stored, publisher, library, history>>

(***************************************************************************)
(* libmosquitto and the broker.  The messages that are not acknowledged    *)
(* outlive a lost connection and are sent again.  The receipt of a message *)
(* the publisher has forgotten is dropped.                                 *)
(***************************************************************************)
Connect ==
  /\ client = "connecting" /\ client' = "connected"
  /\ UNCHANGED <<up, tables, pass, publisher, wire, acked, faults, history>>

Disconnect ==
  /\ client = "connected" /\ client' = "connecting"
  /\ Fault
  /\ UNCHANGED <<up, tables, pass, publisher, wire, acked, history>>

Acknowledge ==
  /\ client = "connected"
  /\ \E m \in wire :
       /\ wire' = wire \ {m}
       /\ acked' = IF m.claimed THEN acked \cup {m.seq} ELSE acked
       /\ received' = received \cup {<<m.event, m.topic>>}
  /\ UNCHANGED <<up, tables, pass, publisher, client, faults, produced, unsent, forgotten>>

(* Mutation: the receipts of the old client survive it.                    *)
KeepReceipts == wire' = {} /\ UNCHANGED acked

(* cleanup_mosquitto_locked: messages and receipts go with the client.     *)
DropReceipts == wire' = {} /\ acked' = {}

(* forget_publish for every delivery in flight.                            *)
ForgetDeliveries ==
  LET seqs == UNION {Listed(deliveries[e].sequences) : e \in InFlight} IN
  /\ acked' = acked \ seqs
  /\ wire' = {[m EXCEPT !.claimed = m.claimed /\ m.seq \notin seqs] : m \in wire}

(***************************************************************************)
(* A configuration of the publisher: stop, configure, start; each holds    *)
(* mutex_ on its own and the maintenance thread may come in between.       *)
(***************************************************************************)
(* What client_->start may do: connect, fail for now, or refuse the        *)
(* configuration.  A failure for now is a fault of the environment.        *)
ClientStarts(outcome) ==
  /\ client' = IF outcome = "ok" THEN "connecting" ELSE "none"
  /\ IF outcome = "later" THEN Fault ELSE UNCHANGED faults

(* configure with the MQTT settings as they are and another device name.   *)
RenameDevice ==
  /\ up /\ apply = "no" /\ worker = "running"
  /\ ForgetDeliveries
  /\ deliveries' = NothingInFlight
  /\ generation' = generation + 1
  /\ Fault
  /\ UNCHANGED <<up, tables, pass, enabled, worker, startLater, reconnect, sequence, apply,
                 client, history>>

StopPublisher ==
  /\ up /\ apply = "no"
  /\ Fault
  /\ apply' = "stopped"
  /\ worker' = "none" /\ startLater' = FALSE /\ reconnect' = FALSE
  /\ deliveries' = NothingInFlight
  /\ client' = "none" /\ DropReceipts
  /\ UNCHANGED <<up, tables, pass, enabled, generation, sequence, history>>

ConfigurePublisher ==
  /\ up /\ apply = "stopped"
  /\ apply' = "configured"
  /\ enabled' \in BOOLEAN
  /\ deliveries' = NothingInFlight
  /\ generation' = generation + 1
  /\ sequence' = 1
  /\ reconnect' = FALSE /\ startLater' = FALSE
  /\ client' = "none" /\ DropReceipts
  /\ UNCHANGED <<up, tables, pass, worker, faults, history>>

StartPublisher ==
  /\ up /\ apply = "configured"
  /\ apply' = "no"
  /\ \/ ~enabled /\ UNCHANGED <<worker, startLater, client, faults>>
     \/ enabled /\ \E outcome \in {"ok", "later", "refused"} :
          /\ ClientStarts(outcome)
          /\ startLater' = (outcome = "later")
          /\ worker' = IF outcome = "refused" THEN "none" ELSE "running"
  /\ UNCHANGED <<up, tables, pass, enabled, reconnect, deliveries, generation, sequence,
                 wire, acked, history>>

(***************************************************************************)
(* The publisher's worker.                                                 *)
(***************************************************************************)
(* Mutation: the start is retried once.                                    *)
RetryStartOnce ==
  /\ worker = "running" /\ startLater
  /\ startLater' = FALSE
  /\ \E outcome \in {"ok", "later"} : ClientStarts(outcome)
  /\ UNCHANGED <<up, tables, pass, enabled, worker, reconnect, deliveries, generation, sequence,
                 apply, wire, acked, history>>

RetryStart ==
  /\ worker = "running" /\ startLater
  /\ \E outcome \in {"ok", "later", "refused"} :
       /\ ClientStarts(outcome)
       /\ startLater' = (outcome = "later")
       /\ worker' = IF outcome = "refused" THEN "exited" ELSE "running"
  /\ UNCHANGED <<up, tables, pass, enabled, reconnect, deliveries, generation, sequence,
                 apply, wire, acked, history>>

(* The system clock jumped.                                                *)
RequestReconnect ==
  /\ up /\ enabled /\ Tls /\ ~reconnect
  /\ reconnect' = TRUE
  /\ Fault
  /\ UNCHANGED <<up, tables, pass, enabled, worker, startLater, deliveries, generation,
                 sequence, apply, library, history>>

(* The client reconnects, or cannot: there is none, or the library refuses *)
(* while the network is away; then it is built anew and started.  (A start *)
(* that is refused leaves what a start that fails for now leaves.)         *)
Reconnect ==
  /\ worker = "running" /\ ~startLater /\ reconnect
  /\ reconnect' = FALSE
  /\ \/ client # "none" /\ client' = "connecting" /\ UNCHANGED <<wire, acked, faults>>
     \/ DropReceipts /\ \E outcome \in {"ok", "later"} : ClientStarts(outcome)
  /\ UNCHANGED <<up, tables, pass, enabled, worker, startLater, deliveries, generation,
                 sequence, apply, history>>

(***************************************************************************)
(* A factory reset: MQTT becomes disabled, then the events and the outbox  *)
(* are cleared, each of which may fail.  It holds alarm_delivery_mutex_.   *)
(***************************************************************************)
FactoryReset ==
  /\ up /\ step = "idle" /\ apply = "no"
  /\ Fault
  /\ enabled' = FALSE /\ worker' = "none" /\ startLater' = FALSE /\ reconnect' = FALSE
  /\ deliveries' = NothingInFlight /\ generation' = generation + 1 /\ sequence' = 1
  /\ client' = "none" /\ DropReceipts
  /\ stored' \in {stored, {}} /\ outbox' \in {outbox, <<>>}
  /\ forgotten' = produced
  /\ UNCHANGED <<up, pass, apply, produced, received, unsent>>

(* The tables and the stored settings survive a crash, settings that were  *)
(* stored and not yet configured among them; a restart configures and      *)
(* starts the publisher.                                                   *)
Crash ==
  /\ up /\ Fault
  /\ up' = FALSE
  /\ enabled' \in BOOLEAN
  /\ batch' = <<>> /\ step' = "idle" /\ apply' = "no"
  /\ worker' = "none" /\ startLater' = FALSE /\ reconnect' = FALSE
  /\ deliveries' = NothingInFlight /\ generation' = 0 /\ sequence' = 1
  /\ client' = "none" /\ DropReceipts
  /\ UNCHANGED <<tables, history>>

Restart ==
  /\ ~up /\ up' = TRUE
  /\ apply' = "configured" /\ generation' = 1
  /\ UNCHANGED <<tables, pass, enabled, worker, startLater, reconnect, deliveries, sequence,
                 library, faults, history>>

Init ==
  /\ up = FALSE
  /\ outbox = <<>> /\ stored = {}
  /\ batch = <<>> /\ step = "idle"
  /\ enabled \in BOOLEAN /\ worker = "none" /\ startLater = FALSE /\ reconnect = FALSE
  /\ deliveries = NothingInFlight /\ generation = 0 /\ sequence = 1 /\ apply = "no"
  /\ client = "none" /\ wire = {} /\ acked = {}
  /\ faults = 0
  /\ produced = {} /\ received = {} /\ unsent = {} /\ forgotten = {}

Pass == ReadOutbox \/ AppendEvent \/ DeliverEvent \/ RemoveEvent
Configuration == ConfigurePublisher \/ StartPublisher
Worker == RetryStart \/ Reconnect

Next ==
  \/ Emit \/ Pass
  \/ Connect \/ Disconnect \/ Acknowledge
  \/ RenameDevice \/ StopPublisher \/ Configuration
  \/ Worker \/ RequestReconnect
  \/ FactoryReset \/ Crash \/ Restart

Spec == Init /\ [][Next]_vars

(* The maintenance thread wakes up every five seconds, the worker loops,   *)
(* a configuration that has begun is finished, systemd restarts the        *)
(* process; libmosquitto goes on connecting and the broker acknowledges.   *)
(* No fairness is asked of the operator, the clock or the evaluator.       *)
Fairness ==
  /\ WF_vars(Pass) /\ WF_vars(Worker) /\ WF_vars(Configuration) /\ WF_vars(Restart)
  /\ WF_vars(Connect) /\ WF_vars(Acknowledge)

FairSpec == Spec /\ Fairness

-----------------------------------------------------------------------------
(* An event leaves the outbox only when EventStore has it and the broker   *)
(* has acknowledged it on every one of its topics (or MQTT was disabled),  *)
(* whatever crashes, fails or is reconfigured between the steps of a pass. *)
Settled(e) ==
  e \in stored /\ (e \in unsent \/ \A i \in Topics(e) : <<e, i>> \in received)

NothingIsLost ==
  \A e \in produced : e \in Listed(outbox) \/ e \in forgotten \/ Settled(e)

Awaited ==
  UNION {{deliveries[e].sequences[i] : i \in {j \in 1..2 : ~deliveries[e].confirmed[j]}} : e \in InFlight}

(* A receipt the publisher has consumed, or is about to, stands for an     *)
(* acknowledgement of that very event on that very topic, although the     *)
(* sequence numbers start over with every configuration; and every receipt *)
(* the client keeps is one that some delivery still waits for.             *)
ReceiptsAreGenuine ==
  /\ \A e \in InFlight : \A i \in Topics(e) :
       (deliveries[e].confirmed[i] \/ deliveries[e].sequences[i] \in acked)
         => <<e, i>> \in received
  /\ acked \cup {m.seq : m \in {n \in wire : n.claimed}} \subseteq Awaited

(* An event in the outbox eventually leaves it, once failures have come to *)
(* an end, unless the client refuses its configuration.                    *)
Refused == up /\ apply = "no" /\ enabled /\ worker # "running"

EventsAreDelivered ==
  \A e \in Events : e \in Listed(outbox) ~> (e \notin Listed(outbox) \/ Refused)

-----------------------------------------------------------------------------
(* What the comments of the repository say, and the code does not do.      *)

(* mqtt_client_mosquitto.cpp: message numbers and receipts of the old      *)
(* client must not be kept across a rebuild.  The publisher keeps waiting  *)
(* for the receipts of a client that Reconnect has replaced.               *)
DeliveriesFollowTheClient ==
  Awaited \ {0} \subseteq acked \cup {m.seq : m \in wire}
=============================================================================
