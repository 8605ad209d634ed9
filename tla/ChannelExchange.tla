-------------------------- MODULE ChannelExchange --------------------------
(***************************************************************************)
(* Channels are exchanged while they are in use.  A thread polls each      *)
(* channel, a device command may use any of them, and whoever talks over a *)
(* channel holds the lease of the port it is on.  The exchange takes the   *)
(* leases of all ports concerned, stores the configuration, swaps channels *)
(* and generations, and then marks the values read before as stale.        *)
(*                                                                         *)
(* channel_manager.cpp, backend_channel_config.cpp, the publication of     *)
(* values by PollingService and DataStore, and the locks of                *)
(* backend_device_command.cpp.  External: the devices.                     *)
(***************************************************************************)
EXTENDS Naturals, FiniteSets

CONSTANTS
  Channels,       (* channels, each with a master that is polled            *)
  Lines,          (* transports: the port with everything else of the key   *)
  PortOf,         (* the port of each line                                  *)
  MaxExchanges,   (* bound: exchanges that are begun                        *)
  MaxCommands     (* bound: device commands                                 *)

ASSUME ExchangeAssumption ==
  /\ Lines # {} /\ DOMAIN PortOf = Lines
  /\ Channels \cap {"command", "exchange"} = {}
  /\ MaxExchanges \in Nat /\ MaxCommands \in Nat

VARIABLES
  line,        (* channels_: the transport of each channel                  *)
  generation,  (* generations_                                              *)
  portMutex,   (* resource_mutexes_: the mutex of each port in use          *)
  leases,      (* who holds which mutex                                     *)
  poller,      (* channel_worker_loop of each channel                       *)
  cmd,         (* execute_device_command                                    *)
  exchange,    (* apply_channel_configs_locked                              *)
  values       (* the last value of each channel in DataStore               *)

exchangeVars == <<line, generation, portMutex, leases, poller, cmd, exchange, values>>

Ports == {PortOf[l] : l \in Lines}
MutexOf(c) == portMutex[PortOf[line[c]]]
Held(m) == \E h \in leases : h.mutex = m
Hold(who, m) == leases' = leases \cup {[mutex |-> m, by |-> who]}
Release(who) == leases' = {h \in leases : h.by # who}

(***************************************************************************)
(* acquire_communication_lease: the mutex is looked up, waited for, and    *)
(* looked up again.  The step of thread t, which stands at, for channel c. *)
(***************************************************************************)
LookUp(t, c) == [t EXCEPT !.at = "waiting", !.mutex = {MutexOf(c)}]

(* Mutation: the mutex that was waited for is taken to be the right one.   *)
LeasedAnyway(t, c, who) ==
  \E m \in t.mutex : ~Held(m) /\ Hold(who, m)

Leased(t, c, who) ==
  \E m \in t.mutex : ~Held(m) /\ m = MutexOf(c) /\ Hold(who, m)

Outdated(t, c) ==
  \E m \in t.mutex : ~Held(m) /\ m # MutexOf(c)

(***************************************************************************)
(* The thread of a channel.                                                *)
(***************************************************************************)
Idle == [at |-> "idle", mutex |-> {}, on |-> {}, gen |-> 0, good |-> FALSE]
SetPoller(c, p) == poller' = [poller EXCEPT ![c] = p]
NotThePollers == UNCHANGED poller
SameChannels == UNCHANGED <<line, generation, portMutex>>

BeginPoll(c) ==
  /\ poller[c].at = "idle"
  /\ SetPoller(c, LookUp(poller[c], c))
  /\ SameChannels /\ UNCHANGED <<leases, cmd, exchange, values>>

PollGoesBack(c) ==
  /\ poller[c].at = "waiting" /\ Outdated(poller[c], c)
  /\ SetPoller(c, LookUp(poller[c], c))
  /\ SameChannels /\ UNCHANGED <<leases, cmd, exchange, values>>

(* With the lease come the generation and the channel itself.              *)
PollTalks(c) ==
  /\ poller[c].at = "waiting" /\ Leased(poller[c], c, c)
  /\ SetPoller(c, [poller[c] EXCEPT !.at = "talking", !.on = {line[c]}, !.gen = generation[c]])
  /\ SameChannels /\ UNCHANGED <<cmd, exchange, values>>

PollHasAnswer(c) ==
  /\ poller[c].at = "talking"
  /\ \E good \in BOOLEAN : SetPoller(c, [poller[c] EXCEPT !.at = "answered", !.good = good])
  /\ Release(c)
  /\ SameChannels /\ UNCHANGED <<cmd, exchange, values>>

(* publish_device_statuses, under the mutex of publication: the exchange   *)
(* may come between the comparison and the update.                         *)
PublicationFree == \A c \in Channels : poller[c].at # "publishing"

PollCompares(c) ==
  /\ poller[c].at = "answered" /\ PublicationFree
  /\ SetPoller(c, IF generation[c] = poller[c].gen
                  THEN [poller[c] EXCEPT !.at = "publishing"] ELSE Idle)
  /\ SameChannels /\ UNCHANGED <<leases, cmd, exchange, values>>

PollPublishes(c) ==
  /\ poller[c].at = "publishing"
  /\ values' = [values EXCEPT ![c] = [gen |-> poller[c].gen, good |-> poller[c].good]]
  /\ SetPoller(c, Idle)
  /\ SameChannels /\ UNCHANGED <<leases, cmd, exchange>>

(* freshness_worker_loop: a value nobody has renewed in time.              *)
ValueExpires(c) ==
  /\ values[c].good /\ PublicationFree
  /\ values' = [values EXCEPT ![c].good = FALSE]
  /\ SameChannels /\ UNCHANGED <<leases, poller, cmd, exchange>>

(***************************************************************************)
(* A device command: the mutex of commands, then the service mutex,        *)
(* shared, then the lease.                                                 *)
(***************************************************************************)
(* Mutation: commands only keep each other out.                            *)
CommandsFreeOfEachOther == cmd.at = "idle"

(* manual_modbus_mutex_.                                                   *)
CommandsFree == cmd.at = "idle" /\ exchange.at = "idle"

BeginCommand(c) ==
  /\ CommandsFree /\ cmd.count < MaxCommands
  /\ cmd' = [LookUp(cmd, c) EXCEPT !.for = {c}, !.count = @ + 1]
  /\ SameChannels /\ UNCHANGED <<leases, poller, exchange, values>>

(* The channel is looked up again once the port is there.  For a command   *)
(* that look finds nothing new: exchanges wait for manual_modbus_mutex_.   *)
CommandTalks(c) ==
  /\ cmd.at = "waiting" /\ c \in cmd.for /\ Leased(cmd, c, "command")
  /\ cmd' = [cmd EXCEPT !.at = "talking", !.on = {line[c]}]
  /\ SameChannels /\ UNCHANGED <<poller, exchange, values>>

CommandReturns ==
  /\ cmd.at = "talking"
  /\ cmd' = [cmd EXCEPT !.at = "idle", !.mutex = {}, !.on = {}, !.for = {}]
  /\ Release("command")
  /\ SameChannels /\ UNCHANGED <<poller, exchange, values>>

(***************************************************************************)
(* The exchange, for a request that changes one channel: with the mutex of *)
(* commands from here to the end, without the service mutex until the      *)
(* leases are there.                                                       *)
(***************************************************************************)
Changed(next) == {c \in Channels : next[c] # line[c]}

(* The ports in use keep their mutex; the others get one of their own.     *)
NextMutexes(next) ==
  [p \in {PortOf[next[c]] : c \in Channels} |->
     IF p \in DOMAIN portMutex THEN portMutex[p] ELSE [port |-> p, made |-> exchange.count]]

Affected(next) ==
  {MutexOf(c) : c \in Changed(next)} \cup {NextMutexes(next)[PortOf[next[c]]] : c \in Changed(next)}

BeginExchange(c, l) ==
  LET next == [line EXCEPT ![c] = l] IN
  /\ CommandsFree /\ exchange.count < MaxExchanges
  /\ exchange' = [exchange EXCEPT !.at = "leasing", !.next = next, !.want = Affected(next),
                                  !.mutexes = NextMutexes(next), !.count = @ + 1]
  /\ SameChannels /\ UNCHANGED <<leases, poller, cmd, values>>

(* One after the other, in an order that says nothing.                     *)
ExchangeLeases(m) ==
  /\ exchange.at = "leasing" /\ m \in exchange.want /\ ~Held(m)
  /\ Hold("exchange", m)
  /\ exchange' = [exchange EXCEPT !.want = @ \ {m}]
  /\ SameChannels /\ UNCHANGED <<poller, cmd, values>>

(* persist: the service mutex, and the database, which may refuse.         *)
PersistFails ==
  /\ exchange.at = "leasing" /\ exchange.want = {} /\ cmd.at = "idle"
  /\ Release("exchange")
  /\ exchange' = [exchange EXCEPT !.at = "idle"]
  /\ SameChannels /\ UNCHANGED <<poller, cmd, values>>

Swap ==
  /\ exchange.at = "leasing" /\ exchange.want = {} /\ cmd.at = "idle"
  /\ exchange' = [exchange EXCEPT !.at = "swapped", !.was = line]
  /\ line' = exchange.next
  /\ generation' = [c \in Channels |->
                      IF c \in Changed(exchange.next) THEN generation[c] + 1 ELSE generation[c]]
  /\ portMutex' = exchange.mutexes
  /\ UNCHANGED <<leases, poller, cmd, values>>

(* The retired channels are closed and the leases given back.              *)
CloseRetired ==
  /\ exchange.at = "swapped"
  /\ Release("exchange")
  /\ exchange' = [exchange EXCEPT !.at = "closed"]
  /\ SameChannels /\ UNCHANGED <<poller, cmd, values>>

(* Mutation: the values are left to expire.                                *)
InvalidateNothing ==
  /\ exchange.at = "closed" /\ PublicationFree
  /\ exchange' = [exchange EXCEPT !.at = "idle"]
  /\ SameChannels /\ UNCHANGED <<leases, poller, cmd, values>>

(* invalidate_channels: what came over a transport that has changed.       *)
InvalidateChannels ==
  /\ exchange.at = "closed" /\ PublicationFree
  /\ values' = [c \in Channels |->
                  IF exchange.was[c] # line[c] THEN [values[c] EXCEPT !.good = FALSE]
                  ELSE values[c]]
  /\ exchange' = [exchange EXCEPT !.at = "idle"]
  /\ SameChannels /\ UNCHANGED <<leases, poller, cmd>>

ExchangeInit ==
  /\ line \in [Channels -> Lines]
  /\ generation = [c \in Channels |-> 1]
  /\ portMutex = [p \in {PortOf[line[c]] : c \in Channels} |-> [port |-> p, made |-> 0]]
  /\ leases = {}
  /\ poller = [c \in Channels |-> Idle]
  /\ cmd = [at |-> "idle", mutex |-> {}, on |-> {}, for |-> {}, count |-> 0]
  /\ exchange = [at |-> "idle", next |-> line, was |-> line, want |-> {},
                  mutexes |-> portMutex, count |-> 0]
  /\ values = [c \in Channels |-> [gen |-> 1, good |-> FALSE]]

ExchangeNext ==
  \/ CommandReturns \/ PersistFails \/ Swap \/ CloseRetired \/ InvalidateChannels
  \/ \E c \in Channels :
       \/ BeginPoll(c) \/ PollGoesBack(c) \/ PollTalks(c) \/ PollHasAnswer(c)
       \/ PollCompares(c) \/ PollPublishes(c) \/ ValueExpires(c)
       \/ BeginCommand(c) \/ CommandTalks(c)
  \/ \E c \in Channels, l \in Lines : BeginExchange(c, l)
  \/ \E m \in exchange.want : ExchangeLeases(m)

ExchangeSpec == ExchangeInit /\ [][ExchangeNext]_exchangeVars

(***************************************************************************)
(* Properties.                                                             *)
(***************************************************************************)
Talkers == {[by |-> c, over |-> poller[c].on] : c \in {d \in Channels : poller[d].at = "talking"}}
           \cup (IF cmd.at = "talking" THEN {[by |-> "command", over |-> cmd.on]} ELSE {})

(* Nobody talks over a channel that has been replaced, and no two talk on  *)
(* one port, however exchanges move channels from port to port while       *)
(* threads wait for the ports they were on.                                *)
TalkIsExclusive ==
  /\ \A c \in Channels : poller[c].at = "talking" => poller[c].on = {line[c]}
  /\ cmd.at = "talking" => \A c \in cmd.for : cmd.on = {line[c]}
  /\ \A s, t \in Talkers : s # t =>
       {PortOf[l] : l \in s.over} \cap {PortOf[l] : l \in t.over} = {}

(* Once an exchange has returned, no value that came over a transport that *)
(* has been replaced passes as good, also when its publication was under   *)
(* way during the exchange.                                                *)
ValuesAreCurrent ==
  exchange.at = "idle" =>
    \A c \in Channels : values[c].good => values[c].gen = generation[c]

(* An exchange that has its leases and wants the service mutex never meets *)
(* a command that has the service mutex and wants one of those leases.     *)
NobodyWaitsInACircle ==
  ~ /\ exchange.at = "leasing" /\ exchange.want = {}
    /\ cmd.at = "waiting" /\ \E h \in leases : h.by = "exchange" /\ h.mutex \in cmd.mutex
=============================================================================
