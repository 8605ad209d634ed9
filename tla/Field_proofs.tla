---------------------------- MODULE Field_proofs ----------------------------
(***************************************************************************)
(* Proofs about the parts on the way of a value from the port of a device  *)
(* to the tables, one after the other.                                     *)
(***************************************************************************)
EXTENDS ChannelExchange, Collection, HistoryStore, EventStore, DeviceCommands,
        FiniteSetTheorems, SequenceTheorems, TLAPS

(***************************************************************************)
(* ChannelExchange, for any channels, lines, ports and bounds.             *)
(***************************************************************************)
-----------------------------------------------------------------------------
(* Part 1: types.                                                          *)

Mutexes == [port : Ports, made : Nat]
Holders == Channels \cup {"command", "exchange"}

PollerStates ==
  [at : {"idle", "waiting", "talking", "answered", "publishing"}, mutex : SUBSET Mutexes,
   on : SUBSET Lines, gen : Nat, good : BOOLEAN]


CommandStates ==
  [at : {"idle", "waiting", "talking"}, mutex : SUBSET Mutexes, on : SUBSET Lines,
   for : SUBSET Channels, count : Nat]

(* Table t has one mutex for each port of the lines, known by the port.    *)
Tabled(t, lines) ==
  /\ t = [p \in {PortOf[lines[c]] : c \in Channels} |-> t[p]]
  /\ \A p \in {PortOf[lines[c]] : c \in Channels} : t[p] \in Mutexes /\ t[p].port = p

ThreadTypes ==
  /\ poller \in [Channels -> PollerStates]
  /\ cmd \in CommandStates
  /\ leases \subseteq [mutex : Mutexes, by : Holders]

ChannelTypes ==
  /\ line \in [Channels -> Lines]
  /\ generation \in [Channels -> Nat]
  /\ Tabled(portMutex, line)
  /\ values \in [Channels -> [gen : Nat, good : BOOLEAN]]

ExchangeTypes ==
  /\ exchange = [at |-> exchange.at, next |-> exchange.next, was |-> exchange.was,
                 want |-> exchange.want, mutexes |-> exchange.mutexes, count |-> exchange.count]
  /\ exchange.at \in {"idle", "leasing", "swapped", "closed"}
  /\ exchange.next \in [Channels -> Lines] /\ exchange.was \in [Channels -> Lines]
  /\ exchange.want \subseteq Mutexes
  /\ exchange.count \in Nat
  /\ exchange.at = "leasing" => Tabled(exchange.mutexes, exchange.next)

Types == ThreadTypes /\ ChannelTypes /\ ExchangeTypes

LEMMA IdleIsPollerState == Idle \in PollerStates
BY DEF Idle, PollerStates

LEMMA MutexOfIsMutex ==
  ASSUME ChannelTypes, NEW c \in Channels
  PROVE  /\ MutexOf(c) \in Mutexes
         /\ MutexOf(c).port = PortOf[line[c]]
BY DEF ChannelTypes, Tabled, MutexOf

LEMMA LookUpIsPollerState ==
  ASSUME ChannelTypes, NEW c \in Channels, NEW t \in PollerStates
  PROVE  LookUp(t, c) \in PollerStates
BY MutexOfIsMutex DEF LookUp, PollerStates

LEMMA TypesInit == ExchangeInit => Types
<1> SUFFICES ASSUME ExchangeInit PROVE Types
  OBVIOUS
<1>1. Tabled(portMutex, line)
  <2> DEFINE used == {PortOf[line[c]] : c \in Channels}
  <2>1. used \subseteq Ports BY DEF ExchangeInit, Ports
  <2>2. portMutex = [p \in used |-> [port |-> p, made |-> 0]] BY DEF ExchangeInit
  <2>3. \A p \in used : [port |-> p, made |-> 0] \in Mutexes BY <2>1 DEF Mutexes
  <2> QED BY <2>2, <2>3 DEF Tabled
<1>2. ThreadTypes BY IdleIsPollerState DEF ExchangeInit, ThreadTypes, CommandStates
<1>3. ChannelTypes BY <1>1 DEF ExchangeInit, ChannelTypes
<1>4. ExchangeTypes BY DEF ExchangeInit, ExchangeTypes
<1> QED BY <1>2, <1>3, <1>4 DEF Types

LEMMA ReleaseKeepsTypes ==
  ASSUME ThreadTypes, NEW who, Release(who)
  PROVE  leases' \subseteq [mutex : Mutexes, by : Holders]
BY DEF ThreadTypes, Release

LEMMA HoldKeepsTypes ==
  ASSUME ThreadTypes, NEW who \in Holders, NEW m \in Mutexes, Hold(who, m)
  PROVE  leases' \subseteq [mutex : Mutexes, by : Holders]
BY DEF ThreadTypes, Hold

LEMMA LeasedKeepsTypes ==
  ASSUME ThreadTypes, ChannelTypes, NEW t, NEW c \in Channels, NEW who \in Holders,
         Leased(t, c, who)
  PROVE  leases' \subseteq [mutex : Mutexes, by : Holders]
BY MutexOfIsMutex, HoldKeepsTypes DEF Leased

LEMMA SameExchangeKeepsTypes ==
  ASSUME ExchangeTypes, exchange' = exchange
  PROVE  ExchangeTypes'
<1>1. exchange'.at = exchange.at /\ exchange'.mutexes = exchange.mutexes
      /\ exchange'.next = exchange.next
  OBVIOUS
<1>2. Tabled(exchange.mutexes, exchange.next)' = Tabled(exchange.mutexes, exchange.next)
  BY <1>1 DEF Tabled
<1> QED BY <1>1, <1>2 DEF ExchangeTypes

LEMMA SameChannelsKeepTypes ==
  ASSUME ChannelTypes, SameChannels, values' \in [Channels -> [gen : Nat, good : BOOLEAN]]
  PROVE  ChannelTypes'
<1>1. Tabled(portMutex, line)' = Tabled(portMutex, line)
  BY DEF SameChannels, Tabled
<1> QED BY <1>1 DEF SameChannels, ChannelTypes

LEMMA PollersKeepTypes ==
  ASSUME Types, NEW c \in Channels,
         \/ BeginPoll(c) \/ PollGoesBack(c) \/ PollTalks(c) \/ PollHasAnswer(c)
         \/ PollCompares(c) \/ PollPublishes(c) \/ ValueExpires(c)
  PROVE  Types'
<1> USE DEF Types
<1>0. ExchangeTypes'
  <2>1. exchange' = exchange
    BY DEF BeginPoll, PollGoesBack, PollTalks, PollHasAnswer, PollCompares, PollPublishes,
           ValueExpires
  <2> QED BY <2>1, SameExchangeKeepsTypes
<1>1. SameChannels
  BY DEF BeginPoll, PollGoesBack, PollTalks, PollHasAnswer, PollCompares, PollPublishes,
         ValueExpires
<1>2. poller[c] \in PollerStates BY DEF ThreadTypes
<1>3. CASE BeginPoll(c) \/ PollGoesBack(c)
  <2>1. LookUp(poller[c], c) \in PollerStates BY <1>2, LookUpIsPollerState
  <2> QED BY <1>0, <1>1, SameChannelsKeepTypes, <1>3, <2>1
          DEF BeginPoll, PollGoesBack, SetPoller, ThreadTypes, ChannelTypes
<1>4. CASE PollTalks(c)
  <2>1. leases' \subseteq [mutex : Mutexes, by : Holders]
    BY <1>4, LeasedKeepsTypes DEF PollTalks, Holders
  <2>2. [poller[c] EXCEPT !.at = "talking", !.on = {line[c]}, !.gen = generation[c]] \in PollerStates
    BY <1>2 DEF PollerStates, ChannelTypes
  <2> QED BY <1>0, <1>1, SameChannelsKeepTypes, <1>4, <2>1, <2>2
          DEF PollTalks, SetPoller, ThreadTypes, ChannelTypes
<1>5. CASE PollHasAnswer(c)
  <2>1. leases' \subseteq [mutex : Mutexes, by : Holders]
    BY <1>5, ReleaseKeepsTypes DEF PollHasAnswer
  <2>2. \A good \in BOOLEAN : [poller[c] EXCEPT !.at = "answered", !.good = good] \in PollerStates
    BY <1>2 DEF PollerStates
  <2>3. PICK good \in BOOLEAN :
          poller' = [poller EXCEPT ![c] = [poller[c] EXCEPT !.at = "answered", !.good = good]]
    BY <1>5 DEF PollHasAnswer, SetPoller
  <2>4. ThreadTypes' BY <1>5, <2>1, <2>2, <2>3 DEF PollHasAnswer, ThreadTypes
  <2>5. ChannelTypes' BY <1>1, <1>5, SameChannelsKeepTypes DEF PollHasAnswer, ChannelTypes
  <2> QED BY <1>0, <2>4, <2>5
<1>6. CASE PollCompares(c)
  <2>1. [poller[c] EXCEPT !.at = "publishing"] \in PollerStates BY <1>2 DEF PollerStates
  <2> QED BY <1>0, <1>1, SameChannelsKeepTypes, <1>6, <2>1, IdleIsPollerState
          DEF PollCompares, SetPoller, ThreadTypes, ChannelTypes
<1>7. CASE PollPublishes(c)
  <2>1. [gen |-> poller[c].gen, good |-> poller[c].good] \in [gen : Nat, good : BOOLEAN]
    BY <1>2 DEF PollerStates
  <2> QED BY <1>0, <1>1, SameChannelsKeepTypes, <1>7, <2>1, IdleIsPollerState
          DEF PollPublishes, SetPoller, ThreadTypes, ChannelTypes
<1>8. CASE ValueExpires(c)
  BY <1>0, <1>1, SameChannelsKeepTypes, <1>8 DEF ValueExpires, ThreadTypes, ChannelTypes
<1> QED BY <1>3, <1>4, <1>5, <1>6, <1>7, <1>8

LEMMA CommandsKeepTypes ==
  ASSUME Types,
         \/ CommandReturns
         \/ \E c \in Channels : BeginCommand(c) \/ CommandTalks(c)
  PROVE  Types'
<1> USE DEF Types
<1>0. exchange' = exchange /\ values' = values /\ poller' = poller /\ SameChannels
  BY DEF BeginCommand, CommandTalks, CommandReturns
<1>1. ExchangeTypes' /\ ChannelTypes'
  BY <1>0, SameExchangeKeepsTypes, SameChannelsKeepTypes DEF ChannelTypes
<1>2. CASE CommandReturns
  <2>1. leases' \subseteq [mutex : Mutexes, by : Holders]
    BY <1>2, ReleaseKeepsTypes DEF CommandReturns
  <2>2. ThreadTypes' BY <1>0, <1>2, <2>1 DEF CommandReturns, ThreadTypes, CommandStates
  <2> QED BY <1>1, <2>2
<1>3. ASSUME NEW c \in Channels, BeginCommand(c) PROVE Types'
  <2>1. cmd' = [cmd EXCEPT !.at = "waiting", !.mutex = {MutexOf(c)}, !.for = {c},
                           !.count = cmd.count + 1]
    BY <1>3 DEF BeginCommand, LookUp, ThreadTypes, CommandStates
  <2>2. MutexOf(c) \in Mutexes BY MutexOfIsMutex
  <2>3. leases' = leases BY <1>3 DEF BeginCommand
  <2>4. cmd' \in CommandStates
    <3>1. cmd.count + 1 \in Nat BY DEF ThreadTypes, CommandStates
    <3>2. {MutexOf(c)} \in SUBSET Mutexes /\ {c} \in SUBSET Channels BY <2>2
    <3> QED BY <2>1, <3>1, <3>2 DEF ThreadTypes, CommandStates
  <2>5. ThreadTypes' BY <1>0, <2>3, <2>4 DEF ThreadTypes
  <2> QED BY <1>1, <2>5
<1>4. ASSUME NEW c \in Channels, CommandTalks(c) PROVE Types'
  <2>1. leases' \subseteq [mutex : Mutexes, by : Holders]
    BY <1>4, LeasedKeepsTypes DEF CommandTalks, Holders
  <2>2. cmd' = [cmd EXCEPT !.at = "talking", !.on = {line[c]}] /\ line[c] \in Lines
    BY <1>4 DEF CommandTalks, ChannelTypes
  <2>3. cmd' \in CommandStates BY <2>2 DEF ThreadTypes, CommandStates
  <2>4. ThreadTypes' BY <1>0, <2>1, <2>3 DEF ThreadTypes
  <2> QED BY <1>1, <2>4
<1> QED BY <1>2, <1>3, <1>4

LEMMA NextMutexesAreTabled ==
  ASSUME Types, NEW next \in [Channels -> Lines]
  PROVE  Tabled(NextMutexes(next), next)
<1> DEFINE used == {PortOf[next[c]] : c \in Channels}
<1>1. used \subseteq Ports BY DEF Ports
<1>2. ASSUME NEW p \in used
      PROVE  /\ NextMutexes(next)[p] \in Mutexes
             /\ NextMutexes(next)[p].port = p
  <2>1. NextMutexes(next)[p] =
          IF p \in DOMAIN portMutex THEN portMutex[p] ELSE [port |-> p, made |-> exchange.count]
    BY DEF NextMutexes
  <2>2. CASE p \in DOMAIN portMutex
    BY <2>1, <2>2 DEF Types, ChannelTypes, Tabled
  <2>3. CASE p \notin DOMAIN portMutex
    BY <1>1, <2>1, <2>3 DEF Types, ExchangeTypes, Mutexes
  <2> QED BY <2>2, <2>3
<1>3. NextMutexes(next) = [p \in used |-> NextMutexes(next)[p]] BY DEF NextMutexes
<1> QED BY <1>2, <1>3 DEF Tabled

LEMMA ExchangesKeepTypes ==
  ASSUME Types,
         \/ PersistFails \/ Swap \/ CloseRetired \/ InvalidateChannels
         \/ \E c \in Channels, l \in Lines : BeginExchange(c, l)
         \/ \E m \in exchange.want : ExchangeLeases(m)
  PROVE  Types'
<1> USE DEF Types
<1>0. cmd' = cmd /\ poller' = poller
  BY DEF PersistFails, Swap, CloseRetired, InvalidateChannels, BeginExchange, ExchangeLeases
<1>1. CASE PersistFails
  <2>1. ThreadTypes' BY <1>0, <1>1, ReleaseKeepsTypes DEF PersistFails, ThreadTypes
  <2>2. ChannelTypes' BY <1>1, SameChannelsKeepTypes DEF PersistFails, ChannelTypes
  <2>3. ExchangeTypes' BY <1>1 DEF PersistFails, ExchangeTypes
  <2> QED BY <2>1, <2>2, <2>3
<1>2. CASE Swap
  <2>1. ThreadTypes' BY <1>0, <1>2 DEF Swap, ThreadTypes
  <2>2. Tabled(exchange.mutexes, exchange.next) BY <1>2 DEF Swap, ExchangeTypes
  <2>3. Tabled(portMutex, line)' BY <1>2, <2>2 DEF Swap, Tabled
  <2>4. generation' \in [Channels -> Nat] BY <1>2 DEF Swap, ChannelTypes
  <2>5. ChannelTypes' BY <1>2, <2>3, <2>4 DEF Swap, ChannelTypes, ExchangeTypes
  <2>6. ExchangeTypes' BY <1>2 DEF Swap, ExchangeTypes, ChannelTypes
  <2> QED BY <2>1, <2>5, <2>6
<1>3. CASE CloseRetired
  <2>1. ThreadTypes' BY <1>0, <1>3, ReleaseKeepsTypes DEF CloseRetired, ThreadTypes
  <2>2. ChannelTypes' BY <1>3, SameChannelsKeepTypes DEF CloseRetired, ChannelTypes
  <2>3. ExchangeTypes' BY <1>3 DEF CloseRetired, ExchangeTypes
  <2> QED BY <2>1, <2>2, <2>3
<1>4. CASE InvalidateChannels
  <2>1. ThreadTypes' BY <1>0, <1>4 DEF InvalidateChannels, ThreadTypes
  <2>2. values' \in [Channels -> [gen : Nat, good : BOOLEAN]]
    BY <1>4 DEF InvalidateChannels, ChannelTypes
  <2>3. ChannelTypes' BY <1>4, <2>2, SameChannelsKeepTypes DEF InvalidateChannels
  <2>4. ExchangeTypes' BY <1>4 DEF InvalidateChannels, ExchangeTypes
  <2> QED BY <2>1, <2>3, <2>4
<1>5. ASSUME NEW c \in Channels, NEW l \in Lines, BeginExchange(c, l) PROVE Types'
  <2> DEFINE next == [line EXCEPT ![c] = l]
  <2>1. next \in [Channels -> Lines] BY DEF ChannelTypes
  <2>2. Tabled(NextMutexes(next), next) BY <2>1, NextMutexesAreTabled
  <2>3. Affected(next) \subseteq Mutexes
    <3>1. \A d \in Channels : MutexOf(d) \in Mutexes BY MutexOfIsMutex
    <3>2. \A d \in Channels : NextMutexes(next)[PortOf[next[d]]] \in Mutexes
      BY <2>2 DEF Tabled
    <3> HIDE DEF next
    <3> QED BY <3>1, <3>2 DEF Affected, Changed
  <2>4. /\ exchange'.at = "leasing" /\ exchange'.next = next /\ exchange'.want = Affected(next)
        /\ exchange'.mutexes = NextMutexes(next) /\ exchange'.count = exchange.count + 1
        /\ exchange'.was = exchange.was
        /\ exchange' = [at |-> exchange'.at, next |-> exchange'.next, was |-> exchange'.was,
                        want |-> exchange'.want, mutexes |-> exchange'.mutexes,
                        count |-> exchange'.count]
    BY <1>5 DEF BeginExchange, ExchangeTypes
  <2>5. ExchangeTypes'
    <3> HIDE DEF next
    <3>1. Tabled(exchange.mutexes, exchange.next)'
      <4> DEFINE t == NextMutexes(next)
      <4>1. Tabled(t, next) BY <2>2
      <4>2. exchange'.mutexes = t /\ exchange'.next = next BY <2>4
      <4> HIDE DEF t
      <4> QED BY <4>1, <4>2 DEF Tabled
    <3> QED BY <2>1, <2>3, <2>4, <3>1 DEF ExchangeTypes
  <2>6. ThreadTypes' BY <1>0, <1>5 DEF BeginExchange, ThreadTypes
  <2>7. ChannelTypes' BY <1>5, SameChannelsKeepTypes DEF BeginExchange, ChannelTypes
  <2> QED BY <2>5, <2>6, <2>7
<1>6. ASSUME NEW m \in exchange.want, ExchangeLeases(m) PROVE Types'
  <2>1. m \in Mutexes BY DEF ExchangeTypes
  <2>2. ThreadTypes' BY <1>0, <1>6, <2>1, HoldKeepsTypes DEF ExchangeLeases, ThreadTypes, Holders
  <2>3. ChannelTypes' BY <1>6, SameChannelsKeepTypes DEF ExchangeLeases, ChannelTypes
  <2>4. ExchangeTypes'
    <3>1. exchange' = [exchange EXCEPT !.want = exchange.want \ {m}]
      BY <1>6 DEF ExchangeLeases
    <3>2. exchange'.at = exchange.at /\ exchange'.mutexes = exchange.mutexes
          /\ exchange'.next = exchange.next
      BY <3>1 DEF ExchangeTypes
    <3>3. Tabled(exchange.mutexes, exchange.next)' = Tabled(exchange.mutexes, exchange.next)
      BY <3>2 DEF Tabled
    <3> QED BY <3>1, <3>3 DEF ExchangeTypes
  <2> QED BY <2>2, <2>3, <2>4
<1> QED BY <1>1, <1>2, <1>3, <1>4, <1>5, <1>6

LEMMA TypesStep == Types /\ [ExchangeNext]_exchangeVars => Types'
<1>1. ASSUME Types, ExchangeNext PROVE Types'
  BY <1>1, PollersKeepTypes, CommandsKeepTypes, ExchangesKeepTypes DEF ExchangeNext
<1>2. ASSUME Types, UNCHANGED exchangeVars PROVE Types'
  <2>1. ExchangeTypes' BY <1>2, SameExchangeKeepsTypes DEF Types, exchangeVars
  <2>2. ChannelTypes'
    BY <1>2, SameChannelsKeepTypes DEF Types, exchangeVars, SameChannels, ChannelTypes
  <2>3. ThreadTypes' BY <1>2 DEF Types, exchangeVars, ThreadTypes
  <2> QED BY <2>1, <2>2, <2>3 DEF Types
<1> QED BY <1>1, <1>2

-----------------------------------------------------------------------------
(* Part 2: whoever talks holds the mutex its channel has in the table, and *)
(* the exchange holds those of every channel it is about to replace.       *)

Lease(m, who) == [mutex |-> m, by |-> who]

OneOwner == \A h, k \in leases : h.mutex = k.mutex => h.by = k.by

PollersHold ==
  \A c \in Channels : poller[c].at = "talking" =>
    poller[c].on = {line[c]} /\ Lease(MutexOf(c), c) \in leases

CommandHolds ==
  /\ cmd.at # "idle" => \E c \in Channels : cmd.for = {c}
  /\ cmd.at = "talking" =>
       \A c \in cmd.for : cmd.on = {line[c]} /\ Lease(MutexOf(c), "command") \in leases

OneAtATime == cmd.at = "idle" \/ exchange.at = "idle"

ExchangePrepared ==
  exchange.at = "leasing" =>
    /\ \A c \in Changed(exchange.next) :
         MutexOf(c) \in exchange.want \/ Lease(MutexOf(c), "exchange") \in leases
    /\ \A p \in DOMAIN portMutex \cap DOMAIN exchange.mutexes : exchange.mutexes[p] = portMutex[p]

TalkInv == OneOwner /\ PollersHold /\ CommandHolds /\ OneAtATime /\ ExchangePrepared

LEMMA HoldKeepsOneOwner ==
  ASSUME OneOwner, NEW who, NEW m, ~Held(m), Hold(who, m)
  PROVE  /\ OneOwner'
         /\ leases \subseteq leases'
         /\ Lease(m, who) \in leases'
BY DEF OneOwner, Hold, Held, Lease

LEMMA ReleaseKeepsOthers ==
  ASSUME OneOwner, NEW who, Release(who)
  PROVE  /\ OneOwner'
         /\ \A m, other : other # who /\ Lease(m, other) \in leases => Lease(m, other) \in leases'
BY DEF OneOwner, Release, Lease

LEMMA LeasedKeepsOneOwner ==
  ASSUME OneOwner, NEW t, NEW c \in Channels, NEW who, Leased(t, c, who)
  PROVE  /\ OneOwner'
         /\ leases \subseteq leases'
         /\ Lease(MutexOf(c), who) \in leases'
BY HoldKeepsOneOwner DEF Leased

LEMMA SameMutexes ==
  ASSUME SameChannels
  PROVE  \A c \in Channels : MutexOf(c)' = MutexOf(c) /\ line'[c] = line[c]
BY DEF SameChannels, MutexOf

LEMMA PreparedAsBefore ==
  ASSUME ExchangePrepared, SameChannels, exchange' = exchange,
         \A m : Lease(m, "exchange") \in leases => Lease(m, "exchange") \in leases'
  PROVE  ExchangePrepared'
BY SameMutexes DEF ExchangePrepared, SameChannels, Changed

LEMMA PollersKeepTalk ==
  ASSUME Types, TalkInv, NEW c \in Channels,
         \/ BeginPoll(c) \/ PollGoesBack(c) \/ PollTalks(c) \/ PollHasAnswer(c)
         \/ PollCompares(c) \/ PollPublishes(c) \/ ValueExpires(c)
  PROVE  TalkInv'
<1> USE DEF TalkInv
<1>0. cmd' = cmd /\ exchange' = exchange /\ SameChannels
  BY DEF BeginPoll, PollGoesBack, PollTalks, PollHasAnswer, PollCompares, PollPublishes,
         ValueExpires
<1>1. OneAtATime' BY <1>0 DEF OneAtATime
<1>2. \A d \in Channels : MutexOf(d)' = MutexOf(d) /\ line'[d] = line[d]
  BY <1>0, SameMutexes
<1>3. c # "exchange" /\ c # "command" BY ExchangeAssumption
<1>4. cmd.for \subseteq Channels BY DEF Types, ThreadTypes, CommandStates
<1>5. poller \in [Channels -> PollerStates] BY DEF Types, ThreadTypes
<1>6. CASE \/ BeginPoll(c) \/ PollGoesBack(c) \/ PollCompares(c) \/ PollPublishes(c)
           \/ ValueExpires(c)
  <2>1. leases' = leases
    BY <1>6 DEF BeginPoll, PollGoesBack, PollCompares, PollPublishes, ValueExpires
  <2>2. \A d \in Channels : poller'[d].at = "talking" => poller'[d] = poller[d]
    <3>1. LookUp(poller[c], c).at = "waiting" BY <1>5 DEF LookUp, PollerStates
    <3>2. Idle.at = "idle" /\ [poller[c] EXCEPT !.at = "publishing"].at = "publishing"
      BY <1>5 DEF Idle, PollerStates
    <3> QED BY <1>5, <1>6, <3>1, <3>2
            DEF BeginPoll, PollGoesBack, PollCompares, PollPublishes, ValueExpires, SetPoller
  <2> QED BY <1>0, <1>1, <1>2, <1>4, <2>1, <2>2, PreparedAsBefore
          DEF OneOwner, PollersHold, CommandHolds
<1>7. CASE PollTalks(c)
  <2>1. OneOwner' /\ leases \subseteq leases' /\ Lease(MutexOf(c), c) \in leases'
    BY <1>7, LeasedKeepsOneOwner DEF PollTalks
  <2>2. poller' = [poller EXCEPT ![c] = [poller[c] EXCEPT !.at = "talking", !.on = {line[c]},
                                                         !.gen = generation[c]]]
    BY <1>7 DEF PollTalks, SetPoller
  <2>3. PollersHold' BY <1>2, <1>5, <2>1, <2>2 DEF PollersHold, PollerStates
  <2> QED BY <1>0, <1>1, <1>2, <1>4, <2>1, <2>3, PreparedAsBefore DEF CommandHolds
<1>8. CASE PollHasAnswer(c)
  <2>1. /\ OneOwner'
        /\ \A m, other : other # c /\ Lease(m, other) \in leases => Lease(m, other) \in leases'
    <3>1. Release(c) BY <1>8 DEF PollHasAnswer
    <3> QED BY <3>1, ReleaseKeepsOthers
  <2>2. PICK good \in BOOLEAN :
          poller' = [poller EXCEPT ![c] = [poller[c] EXCEPT !.at = "answered", !.good = good]]
    BY <1>8 DEF PollHasAnswer, SetPoller
  <2>3. PollersHold' BY <1>2, <1>5, <2>1, <2>2 DEF PollersHold, PollerStates
  <2> QED BY <1>0, <1>1, <1>2, <1>3, <1>4, <2>1, <2>3, PreparedAsBefore DEF CommandHolds
<1> QED BY <1>6, <1>7, <1>8

LEMMA CommandsKeepTalk ==
  ASSUME Types, TalkInv,
         \/ CommandReturns
         \/ \E c \in Channels : BeginCommand(c) \/ CommandTalks(c)
  PROVE  TalkInv'
<1> USE DEF TalkInv
<1>0. poller' = poller /\ exchange' = exchange /\ SameChannels
  BY DEF BeginCommand, CommandTalks, CommandReturns
<1>1. \A d \in Channels : MutexOf(d)' = MutexOf(d) /\ line'[d] = line[d]
  BY <1>0, SameMutexes
<1>2. cmd \in CommandStates BY DEF Types, ThreadTypes
<1>3. CASE CommandReturns
  <2>1. /\ OneOwner'
        /\ \A m, other : other # "command" /\ Lease(m, other) \in leases =>
             Lease(m, other) \in leases'
    BY <1>3, ReleaseKeepsOthers DEF CommandReturns
  <2>2. cmd'.at = "idle" BY <1>2, <1>3 DEF CommandReturns, CommandStates
  <2>3. PollersHold' BY <1>0, <1>1, <2>1, ExchangeAssumption DEF PollersHold
  <2> QED BY <1>0, <2>1, <2>2, <2>3, PreparedAsBefore DEF CommandHolds, OneAtATime
<1>4. ASSUME NEW c \in Channels, BeginCommand(c) PROVE TalkInv'
  <2>1. leases' = leases /\ exchange.at = "idle" BY <1>4 DEF BeginCommand, CommandsFree
  <2>2. cmd'.at = "waiting" /\ cmd'.for = {c}
    BY <1>2, <1>4 DEF BeginCommand, LookUp, CommandStates
  <2>3. PollersHold' BY <1>0, <1>1, <2>1 DEF PollersHold
  <2> QED BY <1>0, <2>1, <2>2, <2>3, PreparedAsBefore DEF CommandHolds, OneAtATime, OneOwner
<1>5. ASSUME NEW c \in Channels, CommandTalks(c) PROVE TalkInv'
  <2>1. OneOwner' /\ leases \subseteq leases' /\ Lease(MutexOf(c), "command") \in leases'
    BY <1>5, LeasedKeepsOneOwner DEF CommandTalks
  <2>2. cmd' = [cmd EXCEPT !.at = "talking", !.on = {line[c]}] BY <1>5 DEF CommandTalks
  <2>3. cmd'.for = cmd.for /\ cmd'.on = {line[c]} BY <1>2, <2>2 DEF CommandStates
  <2>4. cmd.at = "waiting" /\ c \in cmd.for BY <1>5 DEF CommandTalks
  <2>5. cmd'.for = {c} BY <2>3, <2>4 DEF CommandHolds
  <2>6. CommandHolds' BY <1>1, <2>1, <2>3, <2>5 DEF CommandHolds
  <2>7. PollersHold' BY <1>0, <1>1, <2>1 DEF PollersHold
  <2>8. OneAtATime' BY <1>0, <2>4 DEF OneAtATime
  <2> QED BY <1>0, <2>1, <2>6, <2>7, <2>8, PreparedAsBefore
<1> QED BY <1>3, <1>4, <1>5

LEMMA ExchangesKeepTalk ==
  ASSUME Types, TalkInv,
         \/ PersistFails \/ Swap \/ CloseRetired \/ InvalidateChannels
         \/ \E c \in Channels, l \in Lines : BeginExchange(c, l)
         \/ \E m \in exchange.want : ExchangeLeases(m)
  PROVE  TalkInv'
<1> USE DEF TalkInv
<1>0. cmd' = cmd /\ poller' = poller
  BY DEF PersistFails, Swap, CloseRetired, InvalidateChannels, BeginExchange, ExchangeLeases
<1>1. exchange = [at |-> exchange.at, next |-> exchange.next, was |-> exchange.was,
                  want |-> exchange.want, mutexes |-> exchange.mutexes, count |-> exchange.count]
  BY DEF Types, ExchangeTypes
<1>2. \A c \in Channels : c # "exchange" BY ExchangeAssumption
<1>3. SameChannels => \A d \in Channels : MutexOf(d)' = MutexOf(d) /\ line'[d] = line[d]
  BY SameMutexes
<1>4. cmd.for \subseteq Channels BY DEF Types, ThreadTypes, CommandStates
<1>5. CASE PersistFails \/ CloseRetired
  <2>1. Release("exchange") /\ SameChannels BY <1>5 DEF PersistFails, CloseRetired
  <2>2. /\ OneOwner'
        /\ \A m, other : other # "exchange" /\ Lease(m, other) \in leases =>
             Lease(m, other) \in leases'
    BY <2>1, ReleaseKeepsOthers
  <2>3. PollersHold' BY <1>0, <1>2, <1>3, <2>1, <2>2 DEF PollersHold
  <2>4. CommandHolds' BY <1>0, <1>3, <1>4, <2>1, <2>2 DEF CommandHolds
  <2>5. exchange'.at # "leasing" /\ cmd.at = "idle"
    BY <1>1, <1>5 DEF PersistFails, CloseRetired, OneAtATime
  <2> QED BY <1>0, <2>2, <2>3, <2>4, <2>5 DEF OneAtATime, ExchangePrepared
<1>6. CASE InvalidateChannels
  <2>1. leases' = leases /\ SameChannels BY <1>6 DEF InvalidateChannels
  <2>2. exchange'.at = "idle" BY <1>1, <1>6 DEF InvalidateChannels
  <2> QED BY <1>0, <1>3, <1>4, <2>1, <2>2
          DEF OneOwner, PollersHold, CommandHolds, OneAtATime, ExchangePrepared
<1>7. CASE Swap
  <2>1. leases' = leases /\ cmd.at = "idle" BY <1>7 DEF Swap
  <2>2. exchange'.at = "swapped" BY <1>1, <1>7 DEF Swap
  <2>3. ASSUME NEW c \in Channels, poller[c].at = "talking"
        PROVE  line'[c] = line[c] /\ MutexOf(c)' = MutexOf(c)
    <3>1. c \notin Changed(exchange.next)
      <4>1. Lease(MutexOf(c), c) \in leases BY <2>3 DEF PollersHold
      <4>2. c \in Changed(exchange.next) => Lease(MutexOf(c), "exchange") \in leases
        BY <1>7 DEF Swap, ExchangePrepared
      <4> QED BY <1>2, <4>1, <4>2 DEF OneOwner, Lease
    <3>2. line'[c] = line[c] BY <1>7, <3>1 DEF Swap, Changed
    <3>3. PortOf[line[c]] \in DOMAIN portMutex
      BY DEF Types, ChannelTypes, Tabled
    <3>4. PortOf[exchange.next[c]] \in DOMAIN exchange.mutexes
      BY <1>7 DEF Swap, Types, ExchangeTypes, Tabled
    <3> QED BY <1>7, <3>2, <3>3, <3>4 DEF Swap, ExchangePrepared, MutexOf
  <2>4. PollersHold' BY <1>0, <2>1, <2>3 DEF PollersHold
  <2> QED BY <1>0, <2>1, <2>2, <2>4 DEF OneOwner, CommandHolds, OneAtATime, ExchangePrepared
<1>8. ASSUME NEW c \in Channels, NEW l \in Lines, BeginExchange(c, l) PROVE TalkInv'
  <2> DEFINE next == [line EXCEPT ![c] = l]
  <2>1. leases' = leases /\ cmd.at = "idle" /\ SameChannels
    BY <1>8 DEF BeginExchange, CommandsFree
  <2>2. /\ exchange'.next = next /\ exchange'.want = Affected(next)
        /\ exchange'.mutexes = NextMutexes(next)
    BY <1>1, <1>8 DEF BeginExchange
  <2> HIDE DEF next
  <2>3. \A d \in Changed(next) : MutexOf(d) \in Affected(next) BY DEF Affected
  <2>4. \A p \in DOMAIN portMutex \cap DOMAIN NextMutexes(next) :
          NextMutexes(next)[p] = portMutex[p]
    BY DEF NextMutexes
  <2>5. Changed(exchange.next)' = Changed(next) BY <2>1, <2>2 DEF Changed, SameChannels
  <2>6. ExchangePrepared'
    <3>1. \A d \in Changed(next) : MutexOf(d)' = MutexOf(d) BY <1>3, <2>1 DEF Changed
    <3>2. portMutex' = portMutex BY <2>1 DEF SameChannels
    <3> QED BY <2>1, <2>2, <2>3, <2>4, <2>5, <3>1, <3>2 DEF ExchangePrepared
  <2> QED BY <1>0, <1>3, <1>4, <2>1, <2>6 DEF OneOwner, PollersHold, CommandHolds, OneAtATime
<1>9. ASSUME NEW m \in exchange.want, ExchangeLeases(m) PROVE TalkInv'
  <2>1. SameChannels /\ exchange' = [exchange EXCEPT !.want = exchange.want \ {m}]
        /\ exchange.at = "leasing"
    BY <1>9 DEF ExchangeLeases
  <2>2. OneOwner' /\ leases \subseteq leases' /\ Lease(m, "exchange") \in leases'
    BY <1>9, HoldKeepsOneOwner DEF ExchangeLeases
  <2>3. /\ exchange'.at = exchange.at /\ exchange'.next = exchange.next
        /\ exchange'.mutexes = exchange.mutexes /\ exchange'.want = exchange.want \ {m}
    BY <1>1, <2>1
  <2>4. ExchangePrepared'
    <3>1. Changed(exchange.next)' = Changed(exchange.next)
      BY <2>1, <2>3 DEF Changed, SameChannels
    <3>2. \A d \in Changed(exchange.next) : MutexOf(d)' = MutexOf(d)
      BY <1>3, <2>1 DEF Changed
    <3>3. portMutex' = portMutex BY <2>1 DEF SameChannels
    <3> QED BY <2>1, <2>2, <2>3, <3>1, <3>2, <3>3 DEF ExchangePrepared
  <2>5. cmd.at = "idle" BY <2>1 DEF OneAtATime
  <2>6. PollersHold' BY <1>0, <1>3, <2>1, <2>2 DEF PollersHold
  <2> QED BY <1>0, <2>2, <2>4, <2>5, <2>6 DEF CommandHolds, OneAtATime
<1> QED BY <1>5, <1>6, <1>7, <1>8, <1>9

LEMMA TalkStep == Types /\ TalkInv /\ [ExchangeNext]_exchangeVars => TalkInv'
<1>1. ASSUME Types, TalkInv, ExchangeNext PROVE TalkInv'
  BY <1>1, PollersKeepTalk, CommandsKeepTalk, ExchangesKeepTalk DEF ExchangeNext
<1>2. ASSUME Types, TalkInv, UNCHANGED exchangeVars PROVE TalkInv'
  <2>1. SameChannels /\ leases' = leases /\ poller' = poller /\ cmd' = cmd /\ exchange' = exchange
    BY <1>2 DEF exchangeVars, SameChannels
  <2>2. \A d \in Channels : MutexOf(d)' = MutexOf(d) /\ line'[d] = line[d]
    BY <2>1, SameMutexes
  <2>3. cmd.for \subseteq Channels BY <1>2 DEF Types, ThreadTypes, CommandStates
  <2>4. ExchangePrepared' BY <1>2, <2>1, PreparedAsBefore DEF TalkInv
  <2> QED BY <1>2, <2>1, <2>2, <2>3, <2>4
          DEF TalkInv, OneOwner, PollersHold, CommandHolds, OneAtATime
<1> QED BY <1>1, <1>2

LEMMA TalkInit == ExchangeInit => TalkInv
BY DEF ExchangeInit, TalkInv, OneOwner, PollersHold, CommandHolds, OneAtATime, ExchangePrepared,
       Idle

(* Two that talk on one port would both hold the one mutex of that port.   *)
LEMMA HoldersTalkAlone ==
  ASSUME Types, TalkInv
  PROVE  TalkIsExclusive
<1> USE DEF TalkInv
<1>1. \A c \in Channels : poller[c].at = "talking" => poller[c].on = {line[c]}
  BY DEF PollersHold
<1>2. cmd.at = "talking" => \A c \in cmd.for : cmd.on = {line[c]}
  BY DEF CommandHolds
<1>3. ASSUME NEW s \in Talkers
      PROVE  \E c \in Channels : s.over = {line[c]} /\ Lease(MutexOf(c), s.by) \in leases
  <2>1. CASE \E c \in Channels : poller[c].at = "talking" /\ s = [by |-> c, over |-> poller[c].on]
    BY <2>1 DEF PollersHold
  <2>2. CASE cmd.at = "talking" /\ s = [by |-> "command", over |-> cmd.on]
    BY <2>2 DEF CommandHolds
  <2> QED BY <1>3, <2>1, <2>2 DEF Talkers
<1>4. ASSUME NEW s \in Talkers, NEW t \in Talkers, s # t,
             {PortOf[l] : l \in s.over} \cap {PortOf[l] : l \in t.over} # {}
      PROVE  FALSE
  <2>1. PICK c \in Channels : s.over = {line[c]} /\ Lease(MutexOf(c), s.by) \in leases
    BY <1>3
  <2>2. PICK d \in Channels : t.over = {line[d]} /\ Lease(MutexOf(d), t.by) \in leases
    BY <1>3
  <2>3. PortOf[line[c]] = PortOf[line[d]] BY <1>4, <2>1, <2>2
  <2>4. s.by = t.by BY <2>1, <2>2, <2>3 DEF OneOwner, Lease, MutexOf
  <2>5. s = t
    <3>1. \A c1, c2 \in Channels :
            [by |-> c1, over |-> poller[c1].on].by = [by |-> c2, over |-> poller[c2].on].by => c1 = c2
      OBVIOUS
    <3> QED BY <2>4, ExchangeAssumption DEF Talkers
  <2> QED BY <1>4, <2>5
<1> QED BY <1>1, <1>2, <1>4 DEF TalkIsExclusive

-----------------------------------------------------------------------------
(* Part 3: what was read over a transport that is gone is marked as stale  *)
(* before the exchange returns.                                            *)

Replaced(c) == exchange.at \in {"swapped", "closed"} /\ exchange.was[c] # line[c]

PublishedIsCurrent ==
  \A c \in Channels :
    /\ poller[c].at = "publishing" /\ poller[c].gen # generation[c] => Replaced(c)
    /\ values[c].good /\ values[c].gen # generation[c] => Replaced(c)

LEMMA ValuesStep ==
  ASSUME Types, TalkInv, PublishedIsCurrent, [ExchangeNext]_exchangeVars
  PROVE  PublishedIsCurrent'
<1>1. poller \in [Channels -> PollerStates] BY DEF Types, ThreadTypes
<1>2. values \in [Channels -> [gen : Nat, good : BOOLEAN]] BY DEF Types, ChannelTypes
<1>3. exchange = [at |-> exchange.at, next |-> exchange.next, was |-> exchange.was,
                  want |-> exchange.want, mutexes |-> exchange.mutexes, count |-> exchange.count]
  BY DEF Types, ExchangeTypes
<1>4. ASSUME SameChannels, poller' = poller, values' = values,
             \A c \in Channels : Replaced(c) => Replaced(c)'
      PROVE  PublishedIsCurrent'
  BY <1>4 DEF PublishedIsCurrent, SameChannels
<1>5. ASSUME SameChannels, exchange' = exchange
      PROVE  \A c \in Channels : Replaced(c)' = Replaced(c) /\ generation'[c] = generation[c]
  BY <1>5 DEF Replaced, SameChannels
<1>6. ASSUME NEW c \in Channels,
             \/ BeginPoll(c) \/ PollGoesBack(c) \/ PollTalks(c) \/ PollHasAnswer(c)
             \/ PollCompares(c) \/ PollPublishes(c) \/ ValueExpires(c)
      PROVE  PublishedIsCurrent'
  <2>1. SameChannels /\ exchange' = exchange
    BY <1>6 DEF BeginPoll, PollGoesBack, PollTalks, PollHasAnswer, PollCompares, PollPublishes,
                ValueExpires
  <2>2. \A d \in Channels : Replaced(d)' = Replaced(d) /\ generation'[d] = generation[d]
    BY <1>5, <2>1
  <2>3. CASE BeginPoll(c) \/ PollGoesBack(c)
    <3>1. LookUp(poller[c], c).at = "waiting" BY <1>1 DEF LookUp, PollerStates
    <3> QED BY <1>1, <2>2, <2>3, <3>1 DEF BeginPoll, PollGoesBack, SetPoller, PublishedIsCurrent
  <2>4. CASE PollTalks(c)
    BY <1>1, <2>2, <2>4 DEF PollTalks, SetPoller, PublishedIsCurrent, PollerStates
  <2>5. CASE PollHasAnswer(c)
    <3>1. PICK good \in BOOLEAN :
            poller' = [poller EXCEPT ![c] = [poller[c] EXCEPT !.at = "answered", !.good = good]]
      BY <2>5 DEF PollHasAnswer, SetPoller
    <3>2. values' = values BY <2>5 DEF PollHasAnswer
    <3> QED BY <1>1, <2>2, <3>1, <3>2 DEF PublishedIsCurrent, PollerStates
  <2>6. CASE PollCompares(c)
    BY <1>1, <2>2, <2>6 DEF PollCompares, SetPoller, PublishedIsCurrent, PollerStates, Idle
  <2>7. CASE PollPublishes(c)
    BY <1>1, <1>2, <2>2, <2>7 DEF PollPublishes, SetPoller, PublishedIsCurrent, PollerStates, Idle
  <2>8. CASE ValueExpires(c)
    BY <1>2, <2>2, <2>8 DEF ValueExpires, PublishedIsCurrent
  <2> QED BY <1>6, <2>3, <2>4, <2>5, <2>6, <2>7, <2>8
<1>7. CASE \/ CommandReturns
           \/ \E c \in Channels : BeginCommand(c) \/ CommandTalks(c)
  <2>1. SameChannels /\ exchange' = exchange /\ poller' = poller /\ values' = values
    BY <1>7 DEF BeginCommand, CommandTalks, CommandReturns
  <2> QED BY <1>4, <1>5, <2>1
<1>8. CASE PersistFails
  <2>1. \A c \in Channels : ~Replaced(c) BY <1>8 DEF PersistFails, Replaced
  <2> QED BY <1>4, <1>8, <2>1 DEF PersistFails
<1>9. ASSUME NEW c \in Channels, NEW l \in Lines, BeginExchange(c, l) PROVE PublishedIsCurrent'
  <2>1. \A d \in Channels : ~Replaced(d) BY <1>9 DEF BeginExchange, CommandsFree, Replaced
  <2> QED BY <1>4, <1>9, <2>1 DEF BeginExchange
<1>10. ASSUME NEW m \in exchange.want, ExchangeLeases(m) PROVE PublishedIsCurrent'
  <2>1. \A d \in Channels : ~Replaced(d) BY <1>10 DEF ExchangeLeases, Replaced
  <2> QED BY <1>4, <1>10, <2>1 DEF ExchangeLeases
<1>11. CASE Swap
  <2>1. /\ exchange'.at = "swapped" /\ exchange'.was = line /\ line' = exchange.next
        /\ poller' = poller /\ values' = values
    BY <1>3, <1>11 DEF Swap
  <2>2. \A c \in Channels : ~Replaced(c) BY <1>11 DEF Swap, Replaced
  <2>3. ASSUME NEW c \in Channels PROVE generation'[c] = generation[c] \/ Replaced(c)'
    BY <1>11, <2>1 DEF Swap, Changed, Replaced
  <2> QED BY <2>1, <2>2, <2>3 DEF PublishedIsCurrent
<1>12. CASE CloseRetired
  <2>1. exchange'.at = "closed" /\ exchange'.was = exchange.was /\ SameChannels
    BY <1>3, <1>12 DEF CloseRetired
  <2>2. \A c \in Channels : Replaced(c) => Replaced(c)' BY <2>1 DEF Replaced, SameChannels
  <2> QED BY <1>4, <1>12, <2>2 DEF CloseRetired
<1>13. CASE InvalidateChannels
  <2>1. \A c \in Channels : poller[c].at # "publishing"
    BY <1>13 DEF InvalidateChannels, PublicationFree
  <2>2. SameChannels /\ poller' = poller BY <1>13 DEF InvalidateChannels
  <2>3. ASSUME NEW c \in Channels, values'[c].good, values'[c].gen # generation[c] PROVE FALSE
    <3>1. exchange.was[c] = line[c] /\ values'[c] = values[c]
      BY <1>2, <1>13, <2>3 DEF InvalidateChannels
    <3> QED BY <2>3, <3>1 DEF PublishedIsCurrent, Replaced
  <2> QED BY <2>1, <2>2, <2>3 DEF PublishedIsCurrent, SameChannels
<1>14. CASE UNCHANGED exchangeVars
  BY <1>4, <1>5, <1>14 DEF exchangeVars, SameChannels
<1> QED BY <1>6, <1>7, <1>8, <1>9, <1>10, <1>11, <1>12, <1>13, <1>14 DEF ExchangeNext

-----------------------------------------------------------------------------
ExchangeInv == Types /\ TalkInv /\ PublishedIsCurrent

LEMMA ExchangeInvHolds == ExchangeSpec => []ExchangeInv
<1>1. ExchangeInit => ExchangeInv
  <2>1. ExchangeInit => PublishedIsCurrent BY DEF ExchangeInit, PublishedIsCurrent, Idle
  <2> QED BY <2>1, TypesInit, TalkInit DEF ExchangeInv
<1>2. ExchangeInv /\ [ExchangeNext]_exchangeVars => ExchangeInv'
  BY TypesStep, TalkStep, ValuesStep DEF ExchangeInv
<1> QED BY <1>1, <1>2, PTL DEF ExchangeSpec

(* No two threads ever talk on one port, and none over a channel that has  *)
(* been replaced, for any channels, ports and number of exchanges: a lease *)
(* is only kept by who finds, once the port is there, that the channel is  *)
(* still on it (ChannelManager::acquire_communication_lease).              *)
THEOREM TalkStaysExclusive == ExchangeSpec => []TalkIsExclusive
<1>1. ExchangeInv => TalkIsExclusive BY HoldersTalkAlone DEF ExchangeInv
<1> QED BY <1>1, ExchangeInvHolds, PTL

(* When an exchange has returned, no good value came over a transport that *)
(* has been replaced: one whose publication was under way has been marked  *)
(* by PollingService::invalidate_channels.                                 *)
THEOREM ValuesStayCurrent == ExchangeSpec => []ValuesAreCurrent
<1>1. ExchangeInv => ValuesAreCurrent
  BY DEF ExchangeInv, PublishedIsCurrent, Replaced, ValuesAreCurrent
<1> QED BY <1>1, ExchangeInvHolds, PTL

(* An exchange and a command never wait for each other, because both have  *)
(* manual_modbus_mutex_ from their first step to their last.               *)
THEOREM NobodyEverWaitsInACircle == ExchangeSpec => []NobodyWaitsInACircle
<1>1. ExchangeInv => NobodyWaitsInACircle
  BY DEF ExchangeInv, TalkInv, OneAtATime, NobodyWaitsInACircle
<1> QED BY <1>1, ExchangeInvHolds, PTL

(***************************************************************************)
(* Collection, for any blocks, devices, attempts and failures of the line. *)
(***************************************************************************)
-----------------------------------------------------------------------------
(* The line: what is on its way or has arrived was asked for, over a serial*)
(* line once.                                                              *)
SomeAnswers == [to : Nat, ask : Nat, kind : {"value", "fault", "refusal", "noise"}]

AnswersOf(l) == l.wire \cup {l.inbox[i] : i \in DOMAIN l.inbox}

OnceEach(l) ==
  /\ \A a, b \in l.wire : a.ask = b.ask => a = b
  /\ \A i, j \in DOMAIN l.inbox : l.inbox[i].ask = l.inbox[j].ask => i = j
  /\ \A a \in l.wire, i \in DOMAIN l.inbox : a.ask # l.inbox[i].ask

InLine(l, n) ==
  /\ l = [open |-> l.open, wire |-> l.wire, inbox |-> l.inbox] /\ l.open \in BOOLEAN
  /\ l.wire \subseteq SomeAnswers /\ l.inbox \in Seq(SomeAnswers)
  /\ \A a \in AnswersOf(l) : a.ask \in 1..n
  /\ medium = "rtu" => OnceEach(l)

(* The poll: while an answer is awaited, those to the last request are of  *)
(* the block asked for.                                                    *)
IsPoll(q) ==
  /\ q = [at |-> q.at, n |-> q.n, plan |-> q.plan, left |-> q.left, got |-> q.got,
          on |-> q.on, leased |-> q.leased]
  /\ q.n \in Nat /\ q.plan \in Nat
  /\ q.got = [p \in Plans |-> q.got[p]] /\ q.on = [p \in Plans |-> q.on[p]]

AwaitsOwn(q, l, n) ==
  q.at = "waiting" => \A a \in AnswersOf(l) : a.ask = n => a.to = q.plan

(* What was read is an answer to a request for a block of that shape.      *)
AnswersBlock(a, p, n) ==
  /\ ShapeOf[a.to] = ShapeOf[p] /\ a.ask <= n
  /\ medium = "tcp" => a.to = p /\ a.ask = n

GotTrue(q, l, n) ==
  \A p \in Plans : Readable(q.got[p]) =>
    /\ AnswersBlock(q.got[p], p, q.on[p]) /\ q.got[p].ask \in 1..n
    /\ medium = "rtu" =>
         /\ \A a \in AnswersOf(l) : a.ask # q.got[p].ask
         /\ \A r \in Plans \ {p} : Readable(q.got[r]) => q.got[r].ask # q.got[p].ask

(* The store: all of its points are of one poll.                           *)
StoreShape(s) ==
  /\ s = [points |-> s.points, devices |-> s.devices, master |-> s.master,
          channel |-> s.channel, devicesOnline |-> s.devicesOnline,
          mastersOnline |-> s.mastersOnline, channelsOnline |-> s.channelsOnline]
  /\ s.points = [p \in Plans |-> s.points[p]]
  /\ \A p \in Plans : /\ s.points[p] = [good |-> s.points[p].good, from |-> s.points[p].from,
                                        ask |-> s.points[p].ask, at |-> s.points[p].at]
                      /\ s.points[p].at \in Nat /\ s.points[p].good \in BOOLEAN
  /\ \A p, q \in Plans : s.points[p].at = s.points[q].at
  /\ s.devices = [d \in PolledDevices |-> s.devices[d]]
  /\ \A d \in PolledDevices : s.devices[d].online \in BOOLEAN
  /\ s.master.online \in BOOLEAN /\ s.channel \in BOOLEAN

PointsTrue(s) ==
  \A p \in Plans : s.points[p].good =>
    /\ Readable(s.points[p].from) /\ AnswersBlock(s.points[p].from, p, s.points[p].ask)
    /\ \A q \in Plans \ {p} : s.points[q].good => s.points[q].from # s.points[p].from

DevicesTrue(s) ==
  \A d \in PolledDevices :
    /\ (\E p \in PlansOf(d) : s.points[p].good) => s.devices[d].online
    /\ s.devices[d].ok => \A p \in PlansOf(d) : Readable(s.points[p].from)

SumsTrue(s) ==
  /\ s.devicesOnline = Cardinality({d \in PolledDevices : s.devices[d].online})
  /\ s.mastersOnline = IF s.master.online THEN 1 ELSE 0
  /\ s.channelsOnline = IF s.channel THEN 1 ELSE 0

StoreInv(s) == StoreShape(s) /\ PointsTrue(s) /\ DevicesTrue(s) /\ SumsTrue(s)

CollectionInv ==
  /\ medium \in {"rtu", "tcp"} /\ asked \in Nat
  /\ IsPoll(poll) /\ InLine(link, asked)
  /\ AwaitsOwn(poll, link, asked) /\ GotTrue(poll, link, asked)
  /\ StoreInv(store)

-----------------------------------------------------------------------------
(* The line after a step: of what it carries, nothing is new.              *)
NothingNew(k, l) == \A a \in AnswersOf(k) : \E b \in AnswersOf(l) : b.ask = a.ask /\ b.to = a.to

LineGoes(k, l, n) == InLine(k, n) /\ NothingNew(k, l)

LEMMA SameLine ==
  ASSUME NEW l, NEW n, InLine(l, n)
  PROVE  LineGoes(l, l, n)
BY DEF LineGoes, NothingNew

(* What is thrown away.                                                    *)
LEMMA LineEmptied ==
  ASSUME NEW l, NEW n, InLine(l, n), NEW k, NEW open \in BOOLEAN, NEW wire,
         wire \subseteq l.wire, k = [open |-> open, wire |-> wire, inbox |-> <<>>]
  PROVE  LineGoes(k, l, n)
<1>1. PICK s : s = <<>>
      OBVIOUS
<1>2. s \in Seq(SomeAnswers) /\ Len(s) = 0
      BY <1>1, EmptySeq
<1>3. DOMAIN s = {}
  <2>1. DOMAIN s = 1..0
        BY <1>2, LenProperties
  <2> QED  BY <2>1
<1>4. PICK q : q = [open |-> open, wire |-> wire, inbox |-> s]
      OBVIOUS
<1>5. q.open = open /\ q.wire = wire /\ q.inbox = s
      BY <1>4
<1>6. k = q
      BY <1>1, <1>4
<1>7. AnswersOf(q) = wire
      BY <1>3, <1>5 DEF AnswersOf
<1>8. wire \subseteq AnswersOf(l)
      BY DEF AnswersOf
<1>9. OnceEach(l) => OnceEach(q)
      BY <1>3, <1>5 DEF OnceEach
<1>10. InLine(q, n)
      BY <1>2, <1>4, <1>5, <1>7, <1>8, <1>9 DEF InLine
<1>11. NothingNew(q, l)
      BY <1>7, <1>8 DEF NothingNew
<1> QED  BY <1>6, <1>10, <1>11 DEF LineGoes

(* What is taken out.                                                      *)
LEMMA LineTaken ==
  ASSUME NEW l, NEW n, InLine(l, n), l.inbox # <<>>, NEW k,
         k = [l EXCEPT !.inbox = Tail(@)]
  PROVE  /\ LineGoes(k, l, n)
         /\ Head(l.inbox) \in SomeAnswers /\ Head(l.inbox) \in AnswersOf(l)
         /\ medium = "rtu" => \A a \in AnswersOf(k) : a.ask # Head(l.inbox).ask
<1> DEFINE s == l.inbox
<1>1. /\ s \in Seq(SomeAnswers) /\ s # <<>> /\ l.wire \subseteq SomeAnswers /\ l.open \in BOOLEAN
      /\ \A a \in AnswersOf(l) : a.ask \in 1..n
      /\ medium = "rtu" => OnceEach(l)
      BY DEF InLine
<1>2. PICK r : r = Tail(s)
      OBVIOUS
<1>3. /\ r \in Seq(SomeAnswers) /\ Len(r) = Len(s) - 1 /\ Len(s) \in Nat \ {0}
      /\ \A i \in 1..Len(r) : r[i] = s[i + 1]
      BY <1>1, <1>2, HeadTailProperties, EmptySeq
<1>4. DOMAIN r = 1..Len(r) /\ DOMAIN s = 1..Len(s) /\ Len(r) \in Nat
      BY <1>1, <1>3, LenProperties
<1>5. Head(s) = s[1] /\ 1 \in DOMAIN s
      BY <1>1, <1>3, <1>4
<1>6. \A i \in DOMAIN r : i + 1 \in DOMAIN s /\ i + 1 # 1 /\ r[i] = s[i + 1]
      BY <1>3, <1>4
<1>7. k = [open |-> l.open, wire |-> l.wire, inbox |-> r]
      BY <1>2 DEF InLine
<1>8. k.wire = l.wire /\ k.inbox = r /\ k.open = l.open
      BY <1>7
<1>9. AnswersOf(k) \subseteq AnswersOf(l)
      BY <1>6, <1>8 DEF AnswersOf
<1>10. OnceEach(l) => OnceEach(k)
  <2>1. ASSUME OnceEach(l)
        PROVE  \A i, j \in DOMAIN r : r[i].ask = r[j].ask => i = j
        BY <1>3, <1>4, <1>6, <2>1 DEF OnceEach
  <2> QED  BY <1>6, <1>8, <2>1 DEF OnceEach
<1>11. InLine(k, n)
      BY <1>1, <1>3, <1>7, <1>8, <1>9, <1>10 DEF InLine
<1>12. Head(s) \in SomeAnswers /\ Head(s) \in AnswersOf(l)
      BY <1>1, <1>5, HeadTailProperties DEF AnswersOf
<1>13. ASSUME medium = "rtu", NEW a \in AnswersOf(k)
      PROVE  a.ask # Head(s).ask
  <2>1. OnceEach(l)
        BY <1>1, <1>13
  <2>2. CASE a \in l.wire
        BY <1>5, <2>1, <2>2 DEF OnceEach
  <2>3. CASE a \notin l.wire
    <3>1. PICK i \in DOMAIN r : a = r[i]
          BY <1>8, <1>13, <2>3 DEF AnswersOf
    <3> QED  BY <1>5, <1>6, <2>1, <3>1 DEF OnceEach
  <2> QED  BY <2>2, <2>3
<1> QED  BY <1>9, <1>11, <1>12, <1>13 DEF LineGoes, NothingNew

(* What arrives: over a serial line it has left the wire.                  *)
LEMMA LineArrives ==
  ASSUME NEW l, NEW n, InLine(l, n), NEW a \in l.wire,
         NEW b, b = a \/ b = [a EXCEPT !.kind = "noise"], NEW wire,
         wire = l.wire \ {a} \/ (medium # "rtu" /\ wire = l.wire),
         NEW k, k = [l EXCEPT !.wire = wire, !.inbox = Append(@, b)]
  PROVE  LineGoes(k, l, n)
<1> DEFINE s == l.inbox
<1>1. /\ s \in Seq(SomeAnswers) /\ l.wire \subseteq SomeAnswers /\ l.open \in BOOLEAN
      /\ \A e \in AnswersOf(l) : e.ask \in 1..n
      /\ medium = "rtu" => OnceEach(l)
      BY DEF InLine
<1>2. b \in SomeAnswers /\ b.ask = a.ask /\ b.to = a.to
  <2>1. a \in SomeAnswers
        BY <1>1
  <2>2. CASE b = a
        BY <2>1, <2>2
  <2>3. CASE b = [a EXCEPT !.kind = "noise"]
    <3>1. b = [to |-> a.to, ask |-> a.ask, kind |-> "noise"]
          BY <2>1, <2>3 DEF SomeAnswers
    <3>2. b.to = a.to /\ b.ask = a.ask /\ b.kind = "noise"
          BY <3>1
    <3> QED  BY <2>1, <3>1, <3>2 DEF SomeAnswers
  <2> QED  BY <2>2, <2>3
<1>3. PICK r : r = Append(s, b)
      OBVIOUS
<1>4. /\ r \in Seq(SomeAnswers) /\ Len(r) = Len(s) + 1 /\ Len(s) \in Nat
      /\ r[Len(s) + 1] = b /\ \A i \in 1..Len(s) : r[i] = s[i]
      BY <1>1, <1>2, <1>3, LenProperties
<1>5. DOMAIN r = 1..(Len(s) + 1) /\ DOMAIN s = 1..Len(s)
      BY <1>1, <1>4, LenProperties
<1>6. \A i \in DOMAIN r : (i \in DOMAIN s /\ r[i] = s[i]) \/ (i = Len(s) + 1 /\ r[i] = b)
      BY <1>4, <1>5
<1>7. PICK o : o = l.open
      OBVIOUS
<1>8. PICK q : q = [open |-> o, wire |-> wire, inbox |-> r]
      OBVIOUS
<1>9. q.open = o /\ q.wire = wire /\ q.inbox = r
      BY <1>8
<1>10. k = q
  <2>1. k = [open |-> l.open, wire |-> wire, inbox |-> r]
        BY <1>3 DEF InLine
  <2> QED  BY <1>7, <1>8, <2>1
<1>11. wire \subseteq l.wire
      OBVIOUS
<1>12. ASSUME NEW e \in AnswersOf(q)
      PROVE  e \in SomeAnswers /\ \E f \in AnswersOf(l) : f.ask = e.ask /\ f.to = e.to
  <2>1. CASE e \in wire
        BY <1>1, <1>11, <2>1 DEF AnswersOf
  <2>2. CASE e \notin wire
    <3>1. PICK i \in DOMAIN r : e = r[i]
          BY <1>9, <1>12, <2>2 DEF AnswersOf
    <3>2. CASE i \in DOMAIN s /\ r[i] = s[i]
      <4>1. e \in AnswersOf(l)
            BY <3>1, <3>2 DEF AnswersOf
      <4>2. e \in SomeAnswers
            BY <1>4, <3>1, LenProperties
      <4> QED  BY <4>1, <4>2
    <3>3. CASE r[i] = b
          BY <1>2, <3>1, <3>3 DEF AnswersOf
    <3> QED  BY <1>6, <3>1, <3>2, <3>3
  <2> QED  BY <2>1, <2>2
<1>13. medium = "rtu" => OnceEach(q)
  <2> SUFFICES ASSUME medium = "rtu"
               PROVE  OnceEach(q)
      OBVIOUS
  <2>1. OnceEach(l) /\ wire = l.wire \ {a}
        BY <1>1
  <2>2. \A i, j \in DOMAIN r : r[i].ask = r[j].ask => i = j
        BY <1>2, <1>6, <2>1 DEF OnceEach
  <2>3. \A e \in l.wire \ {a}, i \in DOMAIN r : e.ask # r[i].ask
        BY <1>2, <1>6, <2>1 DEF OnceEach
  <2>4. \A e, f \in l.wire \ {a} : e.ask = f.ask => e = f
        BY <2>1 DEF OnceEach
  <2> QED  BY <1>9, <2>1, <2>2, <2>3, <2>4 DEF OnceEach
<1>14. \A e \in AnswersOf(q) : e.ask \in 1..n
      BY <1>1, <1>12
<1>15. InLine(q, n)
      BY <1>1, <1>4, <1>7, <1>8, <1>9, <1>11, <1>13, <1>14 DEF InLine
<1>16. NothingNew(q, l)
      BY <1>12 DEF NothingNew
<1> QED  BY <1>10, <1>15, <1>16 DEF LineGoes

(* A request is sent, and answered or not.                                 *)
LEMMA LineAsked ==
  ASSUME NEW l, NEW n \in Nat, InLine(l, n), NEW a \in SomeAnswers, a.ask = n + 1,
         NEW k, k = l \/ k = [l EXCEPT !.wire = @ \cup {a}]
  PROVE  InLine(k, n + 1) /\ AnswersOf(k) \subseteq AnswersOf(l) \cup {a}
<1>1. /\ l.wire \subseteq SomeAnswers /\ l.open \in BOOLEAN
      /\ \A e \in AnswersOf(l) : e.ask \in 1..n
      BY DEF InLine
<1>2. \A e \in AnswersOf(l) : e.ask \in 1..(n + 1) /\ e.ask # n + 1
      BY <1>1
<1>3. CASE k = l
      BY <1>2, <1>3 DEF InLine
<1>4. CASE k = [l EXCEPT !.wire = @ \cup {a}]
  <2>1. PICK w, s, o : w = l.wire \cup {a} /\ s = l.inbox /\ o = l.open
        OBVIOUS
  <2>2. PICK q : q = [open |-> o, wire |-> w, inbox |-> s]
        OBVIOUS
  <2>3. q.open = o /\ q.wire = w /\ q.inbox = s
        BY <2>2
  <2>4. k = q
        BY <1>4, <2>1, <2>2 DEF InLine
  <2>5. AnswersOf(q) = AnswersOf(l) \cup {a}
        BY <2>1, <2>3 DEF AnswersOf
  <2>6. OnceEach(l) => OnceEach(q)
        BY <1>2, <2>1, <2>3 DEF OnceEach, AnswersOf
  <2>7. n + 1 \in 1..(n + 1)
        OBVIOUS
  <2>8. InLine(q, n + 1)
        BY <1>1, <1>2, <2>1, <2>2, <2>3, <2>5, <2>6, <2>7 DEF InLine
  <2> QED  BY <2>4, <2>5, <2>8
<1> QED  BY <1>3, <1>4

-----------------------------------------------------------------------------
(* The poll after a step that reads no answer: it keeps what it has read,  *)
(* or forgets all of it.                                                   *)
PollGoes(r, q) ==
  /\ IsPoll(r)
  /\ \/ r.got = q.got /\ r.on = q.on
     \/ \A p \in Plans : ~Readable(r.got[p])
  /\ r.at = "waiting" => q.at = "waiting" /\ r.plan = q.plan

LEMMA SamePoll ==
  ASSUME NEW q, IsPoll(q)
  PROVE  PollGoes(q, q)
BY DEF PollGoes

LEMMA PollMoves ==
  ASSUME NEW q, IsPoll(q), NEW at, at # "waiting", NEW r, r = [q EXCEPT !.at = at]
  PROVE  PollGoes(r, q)
<1>1. r = [at |-> at, n |-> q.n, plan |-> q.plan, left |-> q.left, got |-> q.got,
           on |-> q.on, leased |-> q.leased]
      BY DEF IsPoll
<1>2. /\ r.at = at /\ r.n = q.n /\ r.plan = q.plan /\ r.got = q.got /\ r.on = q.on
      /\ r = [at |-> r.at, n |-> r.n, plan |-> r.plan, left |-> r.left, got |-> r.got,
              on |-> r.on, leased |-> r.leased]
      BY <1>1
<1> QED  BY <1>2 DEF PollGoes, IsPoll

(* Between polls.                                                          *)
LEMMA PollBegins ==
  ASSUME NEW q, IsPoll(q), NEW at, at # "waiting", NEW n \in Nat, NEW left, NEW leased,
         NEW g, g = Unread, NEW o, o = [p \in Plans |-> 0],
         NEW r, r = [at |-> at, n |-> n, plan |-> 1, left |-> left, got |-> g, on |-> o,
                     leased |-> leased]
  PROVE  PollGoes(r, q)
<1>1. /\ r.at = at /\ r.n = n /\ r.plan = 1 /\ r.got = g /\ r.on = o
      /\ r = [at |-> r.at, n |-> r.n, plan |-> r.plan, left |-> r.left, got |-> r.got,
              on |-> r.on, leased |-> r.leased]
      OBVIOUS
<1>2. \A p \in Plans : ~Readable(g[p])
      BY DEF Unread, NoAnswer, Readable
<1>3. g = [p \in Plans |-> g[p]] /\ o = [p \in Plans |-> o[p]]
      BY DEF Unread
<1> QED  BY <1>1, <1>2, <1>3 DEF PollGoes, IsPoll

EndsAt(r, at, n, leased) == r = [NotPolling(n, leased) EXCEPT !.at = at]

LEMMA PollEnds ==
  ASSUME NEW q, IsPoll(q), NEW at, at # "waiting", NEW n \in Nat, NEW leased, NEW r,
         EndsAt(r, at, n, leased)
  PROVE  PollGoes(r, q)
<1>1. PICK g, o, left : g = Unread /\ o = [p \in Plans |-> 0] /\ left = Attempts
      OBVIOUS
<1>2. r = [at |-> at, n |-> n, plan |-> 1, left |-> left, got |-> g, on |-> o, leased |-> leased]
      BY <1>1 DEF NotPolling, EndsAt
<1> QED  BY <1>1, <1>2, PollBegins

LEMMA PollIsDone ==
  ASSUME NEW q, IsPoll(q), NEW n \in Nat, NEW leased, NEW r, r = NotPolling(n, leased)
  PROVE  PollGoes(r, q)
<1>1. EndsAt(r, "idle", n, leased)
      BY DEF NotPolling, EndsAt
<1> QED  BY <1>1, PollEnds

(* The block was read, or given up.                                        *)
LEMMA BlockEnds ==
  ASSUME IsPoll(poll), NEW r, r = NextBlock
  PROVE  PollGoes(r, poll) /\ r.at # "waiting"
<1>1. CASE r = [poll EXCEPT !.at = "collected"]
  <2>1. PollGoes(r, poll)
        BY <1>1, PollMoves
  <2> QED  BY <1>1, <2>1 DEF IsPoll
<1>2. CASE r = [poll EXCEPT !.at = "asking", !.plan = @ + 1, !.left = Attempts]
  <2>1. r = [at |-> "asking", n |-> poll.n, plan |-> poll.plan + 1, left |-> Attempts,
             got |-> poll.got, on |-> poll.on, leased |-> poll.leased]
        BY <1>2 DEF IsPoll
  <2>2. /\ r.at = "asking" /\ r.n = poll.n /\ r.plan = poll.plan + 1 /\ r.got = poll.got
        /\ r.on = poll.on
        /\ r = [at |-> r.at, n |-> r.n, plan |-> r.plan, left |-> r.left, got |-> r.got,
                on |-> r.on, leased |-> r.leased]
        BY <2>1
  <2> QED  BY <2>2 DEF PollGoes, IsPoll
<1> QED  BY <1>1, <1>2 DEF NextBlock

LEMMA AttemptEnds ==
  ASSUME IsPoll(poll), AttemptFails
  PROVE  PollGoes(poll', poll)
<1>1. CASE poll' = [poll EXCEPT !.at = "asking", !.left = @ - 1]
  <2>1. poll' = [at |-> "asking", n |-> poll.n, plan |-> poll.plan, left |-> poll.left - 1,
                 got |-> poll.got, on |-> poll.on, leased |-> poll.leased]
        BY <1>1 DEF IsPoll
  <2>2. PICK r : r = poll'
        OBVIOUS
  <2>3. /\ r.at = "asking" /\ r.n = poll.n /\ r.plan = poll.plan /\ r.got = poll.got
        /\ r.on = poll.on
        /\ r = [at |-> r.at, n |-> r.n, plan |-> r.plan, left |-> r.left, got |-> r.got,
                on |-> r.on, leased |-> r.leased]
        BY <2>1, <2>2
  <2> QED  BY <2>2, <2>3 DEF PollGoes, IsPoll
<1>2. CASE poll' = NextBlock
      BY <1>2, BlockEnds
<1> QED  BY <1>1, <1>2 DEF AttemptFails

-----------------------------------------------------------------------------
(* A step that reads no answer and asks for nothing.                       *)
LEMMA PollStep ==
  ASSUME CollectionInv, UNCHANGED <<medium, asked>>, LineGoes(link', link, asked),
         PollGoes(poll', poll), StoreInv(store')
  PROVE  CollectionInv'
<1>1. InLine(link, asked)'
      BY DEF LineGoes, InLine, OnceEach
<1>2. AwaitsOwn(poll, link, asked)'
      BY DEF CollectionInv, AwaitsOwn, LineGoes, NothingNew, PollGoes
<1>3. GotTrue(poll, link, asked)'
  <2> SUFFICES ASSUME NEW p \in Plans, Readable(poll.got[p])'
               PROVE  /\ AnswersBlock(poll.got[p], p, poll.on[p])' /\ (poll.got[p].ask \in 1..asked)'
                      /\ medium = "rtu" =>
                           /\ \A a \in AnswersOf(link') : a.ask # poll'.got[p].ask
                           /\ \A r \in Plans \ {p} :
                                Readable(poll'.got[r]) => poll'.got[r].ask # poll'.got[p].ask
      BY DEF GotTrue
  <2>1. poll'.got = poll.got /\ poll'.on = poll.on
        BY DEF PollGoes
  <2>2. /\ AnswersBlock(poll.got[p], p, poll.on[p]) /\ poll.got[p].ask \in 1..asked
        /\ medium = "rtu" =>
             /\ \A a \in AnswersOf(link) : a.ask # poll.got[p].ask
             /\ \A r \in Plans \ {p} : Readable(poll.got[r]) => poll.got[r].ask # poll.got[p].ask
        BY <2>1 DEF CollectionInv, GotTrue
  <2>3. ASSUME NEW a \in AnswersOf(link')
        PROVE  \E b \in AnswersOf(link) : b.ask = a.ask
        BY <2>3 DEF LineGoes, NothingNew
  <2> QED  BY <2>1, <2>2, <2>3 DEF AnswersBlock
<1>4. StoreInv(store)'
      BY DEF StoreInv, StoreShape, PointsTrue, DevicesTrue, SumsTrue, AnswersBlock
<1>5. IsPoll(poll)'
      BY DEF PollGoes, IsPoll
<1> QED  BY <1>1, <1>2, <1>3, <1>4, <1>5 DEF CollectionInv

LEMMA StoreStands ==
  ASSUME CollectionInv, UNCHANGED store
  PROVE  StoreInv(store')
BY DEF CollectionInv

LEMMA LineStands ==
  ASSUME CollectionInv, UNCHANGED link
  PROVE  LineGoes(link', link, asked)
BY SameLine DEF CollectionInv

-----------------------------------------------------------------------------
(* The connection is shut, opened, or emptied.                             *)
LEMMA ClosedGoes ==
  ASSUME NEW l, NEW n, InLine(l, n), NEW k, k = Closed
  PROVE  LineGoes(k, l, n)
<1>1. PICK w : w = {}
      OBVIOUS
<1>2. w \subseteq l.wire /\ k = [open |-> FALSE, wire |-> w, inbox |-> <<>>]
      BY <1>1 DEF Closed
<1> QED  BY <1>2, LineEmptied

LEMMA ShutGoes ==
  ASSUME CollectionInv, NEW k, k = Shut
  PROVE  LineGoes(k, link, asked)
<1>1. InLine(link, asked)
      BY DEF CollectionInv
<1>2. CASE k = Closed
      BY <1>1, <1>2, ClosedGoes
<1>3. CASE k # Closed
  <2>1. PICK w : w = link.wire
        OBVIOUS
  <2>2. k = [open |-> FALSE, wire |-> w, inbox |-> <<>>]
        BY <1>3, <2>1 DEF Shut, Closed
  <2> QED  BY <1>1, <2>1, <2>2, LineEmptied
<1> QED  BY <1>2, <1>3

LEMMA ReadyGoes ==
  ASSUME CollectionInv, NEW k, k = Ready
  PROVE  LineGoes(k, link, asked) /\ k.open \in BOOLEAN
<1>1. InLine(link, asked)
      BY DEF CollectionInv
<1>2. CASE k = link
  <2>1. LineGoes(link, link, asked)
        BY <1>1, SameLine
  <2>2. link.open \in BOOLEAN
        BY <1>1 DEF InLine
  <2> QED  BY <1>2, <2>1, <2>2
<1>3. CASE k # link
  <2>1. PICK w : w = IF medium = "tcp" THEN {} ELSE link.wire
        OBVIOUS
  <2>2. k = [open |-> TRUE, wire |-> w, inbox |-> <<>>]
        BY <1>3, <2>1 DEF Ready, Shut, Closed
  <2>3. w \subseteq link.wire
        BY <2>1
  <2>4. LineGoes(k, link, asked)
        BY <1>1, <2>2, <2>3, LineEmptied
  <2> QED  BY <2>2, <2>4
<1> QED  BY <1>2, <1>3

(* What has arrived at a serial port is thrown away.                       *)
LEMMA FlushedGoes ==
  ASSUME CollectionInv, NEW late, late \subseteq link.wire, NEW k,
         k = [Ready EXCEPT !.wire = late, !.inbox = <<>>]
  PROVE  LineGoes(k, link, asked)
<1>1. InLine(link, asked)
      BY DEF CollectionInv
<1>2. PICK r : r = Ready
      OBVIOUS
<1>3. PICK o : o = r.open
      OBVIOUS
<1>4. o \in BOOLEAN /\ r = [open |-> r.open, wire |-> r.wire, inbox |-> r.inbox]
  <2>1. LineGoes(r, link, asked) /\ r.open \in BOOLEAN
        BY <1>2, ReadyGoes
  <2> QED  BY <1>3, <2>1 DEF LineGoes, InLine
<1>5. k = [open |-> o, wire |-> late, inbox |-> <<>>]
      BY <1>2, <1>3, <1>4
<1> QED  BY <1>1, <1>4, <1>5, LineEmptied

LEMMA ForgottenGoes ==
  ASSUME CollectionInv, NEW k, k = [link EXCEPT !.inbox = <<>>]
  PROVE  LineGoes(k, link, asked)
<1>1. InLine(link, asked) /\ link.open \in BOOLEAN
      BY DEF CollectionInv, InLine
<1>2. PICK o, w : o = link.open /\ w = link.wire
      OBVIOUS
<1>3. k = [open |-> o, wire |-> w, inbox |-> <<>>]
      BY <1>1, <1>2 DEF InLine
<1> QED  BY <1>1, <1>2, <1>3, LineEmptied

-----------------------------------------------------------------------------
(* The actions that leave the store alone and read no answer.              *)
LEMMA PollRests ==
  ASSUME CollectionInv, UNCHANGED <<medium, link, asked, store>>, PollGoes(poll', poll)
  PROVE  CollectionInv'
BY PollStep, StoreStands, LineStands

LEMMA LineStep ==
  ASSUME CollectionInv, UNCHANGED <<medium, asked, store>>, LineGoes(link', link, asked),
         PollGoes(poll', poll)
  PROVE  CollectionInv'
BY PollStep, StoreStands

LEMMA StartPollStep == ASSUME CollectionInv, StartPoll PROVE CollectionInv'
<1>1. IsPoll(poll)
      BY DEF CollectionInv
<1>2. poll' = [at |-> "begun", n |-> poll.n + 1, plan |-> poll.plan, left |-> poll.left,
               got |-> poll.got, on |-> poll.on, leased |-> poll.leased]
      BY <1>1 DEF StartPoll, IsPoll
<1>3. PICK r : r = poll'
      OBVIOUS
<1>4. /\ r.at = "begun" /\ r.n = poll.n + 1 /\ r.plan = poll.plan /\ r.got = poll.got
      /\ r.on = poll.on
      /\ r = [at |-> r.at, n |-> r.n, plan |-> r.plan, left |-> r.left, got |-> r.got,
              on |-> r.on, leased |-> r.leased]
      BY <1>2, <1>3
<1>5. PollGoes(poll', poll)
      BY <1>1, <1>3, <1>4 DEF PollGoes, IsPoll
<1> QED  BY <1>5, PollRests DEF StartPoll, Elsewhere

LEMMA TakeLeaseStep == ASSUME CollectionInv, TakeLease PROVE CollectionInv'
<1>1. IsPoll(poll)
      BY DEF CollectionInv
<1>2. poll' = [at |-> "leased", n |-> poll.n, plan |-> poll.plan, left |-> poll.left,
               got |-> poll.got, on |-> poll.on, leased |-> TRUE]
      BY <1>1 DEF TakeLease, IsPoll
<1>3. PICK r : r = poll'
      OBVIOUS
<1>4. /\ r.at = "leased" /\ r.n = poll.n /\ r.plan = poll.plan /\ r.got = poll.got
      /\ r.on = poll.on
      /\ r = [at |-> r.at, n |-> r.n, plan |-> r.plan, left |-> r.left, got |-> r.got,
              on |-> r.on, leased |-> r.leased]
      BY <1>2, <1>3
<1>5. PollGoes(poll', poll)
      BY <1>1, <1>3, <1>4 DEF PollGoes, IsPoll
<1> QED  BY <1>5, PollRests DEF TakeLease, Elsewhere

LEMMA DoneGoes ==
  ASSUME CollectionInv, NEW r, r = Done
  PROVE  PollGoes(r, poll)
<1>1. IsPoll(poll) /\ poll.n \in Nat
      BY DEF CollectionInv, IsPoll
<1>2. PICK n, leased : n = poll.n /\ leased = poll.leased
      OBVIOUS
<1>3. r = NotPolling(n, leased)
      BY <1>2 DEF Done
<1> QED  BY <1>1, <1>2, <1>3, PollIsDone

LEMMA QuietActions ==
  ASSUME CollectionInv,
         PollSeesStop \/ PrepareFails \/ PollGivesUp \/ Map \/ RequestStop
  PROVE  CollectionInv'
<1>1. IsPoll(poll)
      BY DEF CollectionInv
<1>2. PollGoes(poll', poll)
  <2>1. CASE \E at \in {"failing", "mapped"} : poll' = [poll EXCEPT !.at = at]
    <3>1. PICK at \in {"failing", "mapped"} : poll' = [poll EXCEPT !.at = at]
          BY <2>1
    <3> QED  BY <1>1, <3>1, PollMoves
  <2>2. CASE poll' = Done
        BY <2>2, DoneGoes
  <2>3. CASE poll' = poll
        BY <1>1, <2>3, SamePoll
  <2> QED  BY <2>1, <2>2, <2>3 DEF PollSeesStop, PrepareFails, PollGivesUp, Map, RequestStop
<1>3. UNCHANGED <<medium, link, asked, store>>
      BY DEF PollSeesStop, PrepareFails, PollGivesUp, Map, RequestStop, Elsewhere
<1> QED  BY <1>2, <1>3, PollRests

LEMMA LineActions ==
  ASSUME CollectionInv,
         Prepare \/ OpenToAsk \/ OpenFails \/ LineFails \/ TimesOut
  PROVE  CollectionInv'
<1>1. IsPoll(poll) /\ InLine(link, asked)
      BY DEF CollectionInv
<1>2. PollGoes(poll', poll)
  <2>1. CASE \E at \in {"asking", "sending"} : poll' = [poll EXCEPT !.at = at]
    <3>1. PICK at \in {"asking", "sending"} : poll' = [poll EXCEPT !.at = at]
          BY <2>1
    <3> QED  BY <1>1, <3>1, PollMoves
  <2>2. CASE AttemptFails
        BY <1>1, <2>2, AttemptEnds
  <2> QED  BY <2>1, <2>2 DEF Prepare, OpenToAsk, OpenFails, LineFails, TimesOut
<1>3. LineGoes(link', link, asked)
  <2>1. CASE link' = link
        BY <1>1, <2>1, SameLine
  <2>2. CASE link' = Closed
        BY <1>1, <2>2, ClosedGoes
  <2>3. CASE link' = Shut
        BY <2>3, ShutGoes
  <2>4. CASE link' = Ready
        BY <2>4, ReadyGoes
  <2>5. CASE \E late \in SUBSET link.wire : link' = [Ready EXCEPT !.wire = late, !.inbox = <<>>]
    <3>1. PICK late \in SUBSET link.wire : link' = [Ready EXCEPT !.wire = late, !.inbox = <<>>]
          BY <2>5
    <3> QED  BY <3>1, FlushedGoes
  <2>6. \/ link' = link \/ link' = Closed \/ link' = Shut \/ link' = Ready
        \/ \E late \in SUBSET link.wire : link' = [Ready EXCEPT !.wire = late, !.inbox = <<>>]
        BY DEF Prepare, OpenToAsk, OpenFails, LineFails, TimesOut
  <2> QED  BY <2>1, <2>2, <2>3, <2>4, <2>5, <2>6
<1>4. UNCHANGED <<medium, asked, store>>
      BY DEF Prepare, OpenToAsk, OpenFails, LineFails, TimesOut, OnTheLine
<1> QED  BY <1>2, <1>3, <1>4, LineStep

LEMMA CancelStep == ASSUME CollectionInv, Cancel PROVE CollectionInv'
<1>1. IsPoll(poll) /\ InLine(link, asked) /\ poll.n \in Nat
      BY DEF CollectionInv, IsPoll
<1>2. PollGoes(poll', poll)
  <2>1. PICK n : n = poll.n
        OBVIOUS
  <2>2. PICK leased : leased = TRUE
        OBVIOUS
  <2>3. EndsAt(poll', "collected", n, leased)
        BY <2>1, <2>2 DEF Cancel, EndsAt
  <2> QED  BY <1>1, <2>1, <2>3, PollEnds
<1>3. LineGoes(link', link, asked)
  <2>1. CASE link' = link
        BY <1>1, <2>1, SameLine
  <2>2. CASE link' = Closed
        BY <1>1, <2>2, ClosedGoes
  <2>3. medium = "rtu" \/ medium = "tcp"
        BY DEF CollectionInv
  <2>4. link' = link \/ link' = Closed
        BY <2>3 DEF Cancel
  <2> QED  BY <2>1, <2>2, <2>4
<1>4. UNCHANGED <<medium, asked, store>>
      BY DEF Cancel, OnTheLine
<1> QED  BY <1>2, <1>3, <1>4, LineStep

LEMMA ArriveStep == ASSUME CollectionInv, NEW a \in link.wire, Arrive(a) PROVE CollectionInv'
<1>1. IsPoll(poll) /\ InLine(link, asked)
      BY DEF CollectionInv
<1>2. PICK b, wire : /\ b = a \/ b = [a EXCEPT !.kind = "noise"]
                     /\ wire = link.wire \ {a} \/ (medium # "rtu" /\ wire = link.wire)
                     /\ link' = [link EXCEPT !.wire = wire, !.inbox = Append(@, b)]
      <2>1. CASE link' = [link EXCEPT !.wire = @ \ {a}, !.inbox = Append(@, a)]
            BY <2>1
      <2>2. CASE medium = "tcp" /\ link' = [link EXCEPT !.inbox = Append(@, a)]
        <3>1. PICK w, s : w = link.wire /\ s = Append(link.inbox, a)
              OBVIOUS
        <3>2. [link EXCEPT !.inbox = s] = [link EXCEPT !.wire = w, !.inbox = s]
              BY <1>1, <3>1 DEF InLine
        <3> QED  BY <2>2, <3>1, <3>2
      <2>3. CASE link' = [link EXCEPT !.wire = @ \ {a}, !.inbox = Append(@, [a EXCEPT !.kind = "noise"])]
            BY <2>3
      <2> QED  BY <2>1, <2>2, <2>3 DEF Arrive
<1>3. LineGoes(link', link, asked)
      BY <1>1, <1>2, LineArrives
<1>4. UNCHANGED <<medium, asked, store, poll>>
      BY DEF Arrive, OnTheLine
<1>5. PollGoes(poll', poll)
      BY <1>1, <1>4, SamePoll
<1> QED  BY <1>3, <1>4, <1>5, LineStep

-----------------------------------------------------------------------------
(* A request is sent.                                                      *)
LEMMA SendStep == ASSUME CollectionInv, Send PROVE CollectionInv'
<1>1. /\ IsPoll(poll) /\ InLine(link, asked) /\ asked \in Nat /\ poll.plan \in Nat
      /\ GotTrue(poll, link, asked) /\ StoreInv(store) /\ medium \in {"rtu", "tcp"}
      BY DEF CollectionInv, IsPoll
<1>2. UNCHANGED <<medium, store>> /\ asked' = asked + 1
      BY DEF Send, OnTheLine
<1>3. PICK a : /\ a \in SomeAnswers /\ a.ask = asked + 1 /\ a.to = poll.plan
               /\ link' = link \/ link' = [link EXCEPT !.wire = @ \cup {a}]
  <2>1. CASE \E k \in {"value", "fault", "refusal"} :
               link' = [link EXCEPT !.wire = @ \cup {[to |-> poll.plan, ask |-> asked + 1, kind |-> k]}]
    <3>1. PICK k \in {"value", "fault", "refusal"} :
               link' = [link EXCEPT !.wire = @ \cup {[to |-> poll.plan, ask |-> asked + 1, kind |-> k]}]
          BY <2>1
    <3>2. PICK a : a = [to |-> poll.plan, ask |-> asked + 1, kind |-> k]
          OBVIOUS
    <3>3. a \in SomeAnswers /\ a.ask = asked + 1 /\ a.to = poll.plan
          BY <1>1, <3>2 DEF SomeAnswers
    <3> QED  BY <3>1, <3>2, <3>3
  <2>2. CASE link' = link
    <3>1. PICK a : a = [to |-> poll.plan, ask |-> asked + 1, kind |-> "value"]
          OBVIOUS
    <3>2. a \in SomeAnswers /\ a.ask = asked + 1 /\ a.to = poll.plan
          BY <1>1, <3>1 DEF SomeAnswers
    <3> QED  BY <2>2, <3>2
  <2> QED  BY <2>1, <2>2 DEF Send, Answers
<1>4. InLine(link', asked + 1) /\ AnswersOf(link') \subseteq AnswersOf(link) \cup {a}
      BY <1>1, <1>3, LineAsked
<1>5. \A e \in AnswersOf(link) : e.ask \in 1..asked
      BY <1>1 DEF InLine
<1>6. PICK r : r = poll'
      OBVIOUS
<1>7. IsPoll(r) /\ r.plan = poll.plan /\ r.got = poll.got /\ r.on = poll.on
  <2>1. r = [at |-> "waiting", n |-> poll.n, plan |-> poll.plan, left |-> poll.left,
             got |-> poll.got, on |-> poll.on, leased |-> poll.leased]
        BY <1>1, <1>6 DEF Send, IsPoll
  <2>2. /\ r.n = poll.n /\ r.plan = poll.plan /\ r.got = poll.got /\ r.on = poll.on
        /\ r = [at |-> r.at, n |-> r.n, plan |-> r.plan, left |-> r.left, got |-> r.got,
                on |-> r.on, leased |-> r.leased]
        BY <2>1
  <2> QED  BY <1>1, <2>2 DEF IsPoll
<1>8. AwaitsOwn(r, link', asked + 1)
  <2> SUFFICES ASSUME NEW e \in AnswersOf(link'), e.ask = asked + 1
               PROVE  e.to = r.plan
      BY DEF AwaitsOwn
  <2>1. e = a
        BY <1>1, <1>4, <1>5
  <2> QED  BY <1>3, <1>7, <2>1
<1>9. GotTrue(r, link', asked + 1)
  <2> SUFFICES ASSUME NEW p \in Plans, Readable(r.got[p])
               PROVE  /\ AnswersBlock(r.got[p], p, r.on[p]) /\ r.got[p].ask \in 1..(asked + 1)
                      /\ medium = "rtu" =>
                           /\ \A e \in AnswersOf(link') : e.ask # r.got[p].ask
                           /\ \A q \in Plans \ {p} :
                                Readable(r.got[q]) => r.got[q].ask # r.got[p].ask
      BY DEF GotTrue
  <2>1. /\ AnswersBlock(r.got[p], p, r.on[p]) /\ r.got[p].ask \in 1..asked
        /\ medium = "rtu" =>
             /\ \A e \in AnswersOf(link) : e.ask # r.got[p].ask
             /\ \A q \in Plans \ {p} : Readable(r.got[q]) => r.got[q].ask # r.got[p].ask
        BY <1>1, <1>7 DEF GotTrue
  <2>2. a.ask # r.got[p].ask /\ r.got[p].ask \in 1..(asked + 1)
        BY <1>1, <1>3, <2>1
  <2> QED  BY <1>4, <2>1, <2>2
<1>10. IsPoll(poll)' /\ InLine(link, asked)' /\ AwaitsOwn(poll, link, asked)'
       /\ GotTrue(poll, link, asked)'
      BY <1>2, <1>4, <1>6, <1>7, <1>8, <1>9
         DEF InLine, OnceEach, AwaitsOwn, GotTrue, AnswersBlock, IsPoll
<1>11. StoreInv(store)'
  <2>1. StoreInv(store')
        BY <1>1, <1>2
  <2> QED  BY <1>2, <2>1 DEF StoreInv, StoreShape, PointsTrue, DevicesTrue, SumsTrue, AnswersBlock
<1> QED  BY <1>1, <1>2, <1>10, <1>11 DEF CollectionInv

-----------------------------------------------------------------------------
(* An answer is read for the block that was asked for.                     *)
LEMMA AnswerGot ==
  ASSUME IsPoll(poll), NEW a, AttemptSucceeds(a), NEW r, r = poll'
  PROVE  /\ IsPoll(r) /\ r.at # "waiting"
         /\ \A p \in Plans : IF p = poll.plan THEN r.got[p] = a /\ r.on[p] = asked
                             ELSE r.got[p] = poll.got[p] /\ r.on[p] = poll.on[p]
<1>1. PICK b : b = NextBlock
      OBVIOUS
<1>2. PollGoes(b, poll) /\ b.at # "waiting"
      BY <1>1, BlockEnds
<1>3. b.got = poll.got /\ b.on = poll.on
      BY <1>1 DEF NextBlock, IsPoll
<1>4. PICK g, o : g = [b.got EXCEPT ![poll.plan] = a] /\ o = [b.on EXCEPT ![poll.plan] = asked]
      OBVIOUS
<1>5. r = [b EXCEPT !.got = g, !.on = o]
      BY <1>1, <1>4 DEF AttemptSucceeds
<1>6. IsPoll(b)
      BY <1>2 DEF PollGoes
<1>7. /\ g = [p \in Plans |-> g[p]] /\ o = [p \in Plans |-> o[p]]
      /\ \A p \in Plans : IF p = poll.plan THEN g[p] = a /\ o[p] = asked
                          ELSE g[p] = poll.got[p] /\ o[p] = poll.on[p]
      BY <1>3, <1>4 DEF IsPoll
<1>8. r = [at |-> b.at, n |-> b.n, plan |-> b.plan, left |-> b.left, got |-> g, on |-> o,
           leased |-> b.leased]
      BY <1>5, <1>6 DEF IsPoll
<1>9. /\ r.at = b.at /\ r.n = b.n /\ r.plan = b.plan /\ r.got = g /\ r.on = o
      /\ r = [at |-> r.at, n |-> r.n, plan |-> r.plan, left |-> r.left, got |-> r.got,
              on |-> r.on, leased |-> r.leased]
      BY <1>8
<1> QED  BY <1>2, <1>6, <1>7, <1>9 DEF IsPoll

LEMMA AnswerRead ==
  ASSUME CollectionInv, UNCHANGED <<medium, asked, store>>, LineGoes(link', link, asked),
         NEW a \in AnswersOf(link), AttemptSucceeds(a), FitsShape(a),
         medium = "rtu" => \A e \in AnswersOf(link') : e.ask # a.ask,
         medium = "tcp" => a.ask = asked /\ poll.at = "waiting"
  PROVE  CollectionInv'
<1>1. /\ IsPoll(poll) /\ InLine(link, asked) /\ asked \in Nat /\ GotTrue(poll, link, asked)
      /\ AwaitsOwn(poll, link, asked) /\ StoreInv(store) /\ medium \in {"rtu", "tcp"}
      BY DEF CollectionInv
<1>2. PICK r : r = poll'
      OBVIOUS
<1>3. /\ IsPoll(r) /\ r.at # "waiting"
      /\ \A p \in Plans : IF p = poll.plan THEN r.got[p] = a /\ r.on[p] = asked
                          ELSE r.got[p] = poll.got[p] /\ r.on[p] = poll.on[p]
      BY <1>1, <1>2, AnswerGot
<1>4. a.ask \in 1..asked
      BY <1>1 DEF InLine
<1>5. AnswersBlock(a, poll.plan, asked)
      BY <1>1, <1>4 DEF AnswersBlock, FitsShape, AwaitsOwn
<1>6. ASSUME NEW p \in Plans, Readable(poll.got[p]), medium = "rtu"
      PROVE  poll.got[p].ask # a.ask /\ \A e \in AnswersOf(link') : e.ask # poll.got[p].ask
  <2>1. \A e \in AnswersOf(link) : e.ask # poll.got[p].ask
        BY <1>1, <1>6 DEF GotTrue
  <2> QED  BY <2>1 DEF LineGoes, NothingNew
<1>7. GotTrue(r, link', asked)
  <2> SUFFICES ASSUME NEW p \in Plans, Readable(r.got[p])
               PROVE  /\ AnswersBlock(r.got[p], p, r.on[p]) /\ r.got[p].ask \in 1..asked
                      /\ medium = "rtu" =>
                           /\ \A e \in AnswersOf(link') : e.ask # r.got[p].ask
                           /\ \A q \in Plans \ {p} :
                                Readable(r.got[q]) => r.got[q].ask # r.got[p].ask
      BY DEF GotTrue
  <2>1. AnswersBlock(r.got[p], p, r.on[p]) /\ r.got[p].ask \in 1..asked
        BY <1>1, <1>3, <1>4, <1>5 DEF GotTrue
  <2>2. ASSUME medium = "rtu"
        PROVE  \A e \in AnswersOf(link') : e.ask # r.got[p].ask
        BY <1>3, <1>6, <2>2
  <2>3. ASSUME medium = "rtu", NEW q \in Plans \ {p}, Readable(r.got[q])
        PROVE  r.got[q].ask # r.got[p].ask
    <3>1. CASE p = poll.plan
          BY <1>3, <1>6, <2>3, <3>1
    <3>2. CASE q = poll.plan
          BY <1>3, <1>6, <2>3, <3>2
    <3>3. CASE p # poll.plan /\ q # poll.plan
          BY <1>1, <1>3, <2>3, <3>3 DEF GotTrue
    <3> QED  BY <3>1, <3>2, <3>3
  <2> QED  BY <2>1, <2>2, <2>3
<1>8. IsPoll(poll)' /\ InLine(link, asked)' /\ AwaitsOwn(poll, link, asked)'
      /\ GotTrue(poll, link, asked)'
      BY <1>2, <1>3, <1>7 DEF LineGoes, InLine, OnceEach, AwaitsOwn, GotTrue, AnswersBlock, IsPoll
<1>9. StoreInv(store)'
  <2>1. StoreInv(store')
        BY <1>1
  <2> QED  BY <2>1 DEF StoreInv, StoreShape, PointsTrue, DevicesTrue, SumsTrue, AnswersBlock
<1> QED  BY <1>1, <1>8, <1>9 DEF CollectionInv

LEMMA ReceiveRtuStep == ASSUME CollectionInv, ReceiveRtu PROVE CollectionInv'
<1>1. IsPoll(poll) /\ InLine(link, asked) /\ UNCHANGED <<medium, asked, store>>
      BY DEF CollectionInv, ReceiveRtu, OnTheLine
<1>2. CASE link' = [link EXCEPT !.inbox = <<>>] /\ AttemptFails
      BY <1>1, <1>2, ForgottenGoes, AttemptEnds, LineStep
<1>3. CASE link' = [link EXCEPT !.inbox = Tail(@)]
  <2>1. PICK a : a = Head(link.inbox)
        OBVIOUS
  <2>2. /\ LineGoes(link', link, asked) /\ a \in AnswersOf(link)
        /\ medium = "rtu" => \A e \in AnswersOf(link') : e.ask # a.ask
        BY <1>1, <1>3, <2>1, LineTaken DEF ReceiveRtu
  <2>3. CASE AttemptFails
        BY <1>1, <2>2, <2>3, AttemptEnds, LineStep
  <2>4. CASE FitsShape(a) /\ AttemptSucceeds(a)
        BY <1>1, <2>2, <2>4, AnswerRead DEF ReceiveRtu
  <2> QED  BY <1>2, <2>1, <2>3, <2>4 DEF ReceiveRtu
<1> QED  BY <1>2, <1>3 DEF ReceiveRtu

LEMMA ReceiveTcpStep == ASSUME CollectionInv, ReceiveTcp PROVE CollectionInv'
<1>1. IsPoll(poll) /\ InLine(link, asked) /\ UNCHANGED <<medium, asked, store>>
      BY DEF CollectionInv, ReceiveTcp, OnTheLine
<1>2. PICK a : a = Head(link.inbox)
      OBVIOUS
<1>3. CASE FitsRequest(a) /\ link' = [link EXCEPT !.inbox = Tail(@)]
  <2>1. LineGoes(link', link, asked) /\ a \in AnswersOf(link)
        BY <1>1, <1>2, <1>3, LineTaken DEF ReceiveTcp
  <2>2. CASE AttemptFails
        BY <1>1, <2>1, <2>2, AttemptEnds, LineStep
  <2>3. CASE AttemptSucceeds(a)
        BY <1>1, <1>3, <2>1, <2>3, AnswerRead DEF ReceiveTcp, FitsRequest
  <2> QED  BY <1>2, <2>2, <2>3 DEF ReceiveTcp
<1>4. CASE ~FitsRequest(a)
  <2>1. link' = Closed /\ AttemptFails
        BY <1>2, <1>4 DEF ReceiveTcp
  <2> QED  BY <1>1, <2>1, ClosedGoes, AttemptEnds, LineStep
<1> QED  BY <1>2, <1>3, <1>4 DEF ReceiveTcp

-----------------------------------------------------------------------------
(* The sums.  There are finitely many devices.                             *)
LEMMA DevicesAreFinite == IsFiniteSet(PolledDevices)
<1> DEFINE f == [p \in Plans |-> DeviceOf[p]]
<1>1. IsFiniteSet(Plans)
      BY CollectionAssumption
<1>2. f \in Surjection(Plans, PolledDevices)
      BY DEF Surjection, PolledDevices
<1> QED  BY <1>1, <1>2, FS_Surjection

OnlineOf(devices) == {d \in PolledDevices : devices[d].online}

(* Counting those that come and those that go counts who is there.         *)
LEMMA SumFollows ==
  ASSUME NEW old, NEW new, old \subseteq PolledDevices, new \subseteq PolledDevices
  PROVE  Adjusted(Cardinality(old), Cardinality(new \ old), Cardinality(old \ new))
           = Cardinality(new)
<1>1. IsFiniteSet(old) /\ IsFiniteSet(new)
      BY DevicesAreFinite, FS_Subset
<1>2. PICK both : both = old \cap new
      OBVIOUS
<1>3. both = new \cap old /\ IsFiniteSet(both)
      BY <1>1, <1>2, FS_Subset
<1>4. Cardinality(new \ old) = Cardinality(new) - Cardinality(new \cap old)
      BY <1>1, FS_Difference
<1>5. Cardinality(old \ new) = Cardinality(old) - Cardinality(old \cap new)
      BY <1>1, FS_Difference
<1>6. PICK a, b, c, u, d :
        /\ a = Cardinality(old) /\ b = Cardinality(new) /\ c = Cardinality(both)
        /\ u = Cardinality(new \ old) /\ d = Cardinality(old \ new)
      OBVIOUS
<1>7. a \in Nat /\ b \in Nat /\ c \in Nat /\ c <= a
  <2>1. a \in Nat /\ b \in Nat /\ c \in Nat
        BY <1>1, <1>3, <1>6, FS_CardinalityType
  <2>2. both \subseteq old
        BY <1>2
  <2>3. Cardinality(both) <= Cardinality(old)
        BY <1>1, <2>2, FS_Subset
  <2> QED  BY <1>6, <2>1, <2>3
<1>8. u = b - c /\ d = a - c
      BY <1>2, <1>3, <1>4, <1>5, <1>6
<1>9. Adjusted(a, u, d) = b
      BY <1>7, <1>8 DEF Adjusted
<1> QED  BY <1>6, <1>9

IsDevices(devices) ==
  /\ devices = [d \in PolledDevices |-> devices[d]]
  /\ \A d \in PolledDevices : devices[d].online \in BOOLEAN

(* Points and devices are put into the store.                              *)
WasPut(t, s, devices, points) == t = [WithDevices(s, devices) EXCEPT !.points = points]

LEMMA PutFields ==
  ASSUME NEW s, StoreInv(s), NEW devices, IsDevices(devices), NEW points, NEW t,
         WasPut(t, s, devices, points)
  PROVE  /\ t = [points |-> t.points, devices |-> t.devices, master |-> t.master,
                 channel |-> t.channel, devicesOnline |-> t.devicesOnline,
                 mastersOnline |-> t.mastersOnline, channelsOnline |-> t.channelsOnline]
         /\ t.points = points /\ t.devices = devices /\ t.master = s.master
         /\ t.channel = s.channel /\ SumsTrue(t)
<1>1. PICK old, new : old = OnlineOf(s.devices) /\ new = OnlineOf(devices)
      OBVIOUS
<1>2. PICK sum : sum = Adjusted(s.devicesOnline, Cardinality(new \ old), Cardinality(old \ new))
      OBVIOUS
<1>3. t = [points |-> points, devices |-> devices, master |-> s.master, channel |-> s.channel,
           devicesOnline |-> sum, mastersOnline |-> s.mastersOnline,
           channelsOnline |-> s.channelsOnline]
  <2>1. /\ {d \in PolledDevices : devices[d].online /\ ~s.devices[d].online} = new \ old
        /\ {d \in PolledDevices : ~devices[d].online /\ s.devices[d].online} = old \ new
        BY <1>1 DEF OnlineOf
  <2>2. PICK w : w = WithDevices(s, devices)
        OBVIOUS
  <2>3. w = [s EXCEPT !.devices = devices, !.devicesOnline = sum]
        BY <1>2, <2>1, <2>2 DEF WithDevices
  <2>4. s = [points |-> s.points, devices |-> s.devices, master |-> s.master,
             channel |-> s.channel, devicesOnline |-> s.devicesOnline,
             mastersOnline |-> s.mastersOnline, channelsOnline |-> s.channelsOnline]
        BY DEF StoreInv, StoreShape
  <2>5. w = [points |-> s.points, devices |-> devices, master |-> s.master, channel |-> s.channel,
             devicesOnline |-> sum, mastersOnline |-> s.mastersOnline,
             channelsOnline |-> s.channelsOnline]
        BY <2>3, <2>4
  <2>6. t = [w EXCEPT !.points = points]
        BY <2>2 DEF WasPut
  <2> QED  BY <2>5, <2>6
<1>4. /\ t.points = points /\ t.devices = devices /\ t.master = s.master
      /\ t.channel = s.channel /\ t.devicesOnline = sum
      /\ t.mastersOnline = s.mastersOnline /\ t.channelsOnline = s.channelsOnline
      BY <1>3
<1>5. sum = Cardinality(new)
  <2>1. old \subseteq PolledDevices /\ new \subseteq PolledDevices
        BY <1>1 DEF OnlineOf
  <2>2. s.devicesOnline = Cardinality(old)
        BY <1>1 DEF StoreInv, SumsTrue, OnlineOf
  <2> QED  BY <1>2, <2>1, <2>2, SumFollows
<1>6. SumsTrue(t)
      BY <1>1, <1>4, <1>5 DEF StoreInv, SumsTrue, OnlineOf
<1> QED  BY <1>3, <1>4, <1>6

IsPoints(points) ==
  /\ points = [p \in Plans |-> points[p]]
  /\ \A p \in Plans : /\ points[p] = [good |-> points[p].good, from |-> points[p].from,
                                      ask |-> points[p].ask, at |-> points[p].at]
                      /\ points[p].at \in Nat /\ points[p].good \in BOOLEAN
  /\ \A p, q \in Plans : points[p].at = points[q].at

LEMMA PutKeeps ==
  ASSUME NEW s, StoreInv(s), NEW devices, IsDevices(devices), NEW points, IsPoints(points),
         NEW t, WasPut(t, s, devices, points), PointsTrue(t), DevicesTrue(t)
  PROVE  StoreInv(t)
<1>1. /\ t = [points |-> t.points, devices |-> t.devices, master |-> t.master,
              channel |-> t.channel, devicesOnline |-> t.devicesOnline,
              mastersOnline |-> t.mastersOnline, channelsOnline |-> t.channelsOnline]
      /\ t.points = points /\ t.devices = devices /\ t.master = s.master
      /\ t.channel = s.channel /\ SumsTrue(t)
      BY PutFields
<1>2. s.master.online \in BOOLEAN /\ s.channel \in BOOLEAN
      BY DEF StoreInv, StoreShape
<1>3. StoreShape(t)
      BY <1>1, <1>2 DEF StoreShape, IsDevices, IsPoints
<1> QED  BY <1>1, <1>3 DEF StoreInv

-----------------------------------------------------------------------------
(* All points are of one poll, so they expire together.                    *)
LEMMA ExpiryKeeps ==
  ASSUME NEW s, StoreInv(s), NEW t, t = Expire(s, Plans)
  PROVE  StoreInv(t)
<1>1. PICK gone : gone = {p \in Plans : s.points[p].good}
      OBVIOUS
<1>2. PICK devices : devices = [d \in PolledDevices |->
                                  IF PlansOf(d) \cap gone = {} THEN s.devices[d]
                                  ELSE [online |-> FALSE, ok |-> FALSE]]
      OBVIOUS
<1>3. PICK points :
        points = [p \in Plans |-> [s.points[p] EXCEPT !.good = @ /\ p \notin gone]]
      OBVIOUS
<1>4. WasPut(t, s, devices, points)
      BY <1>1, <1>2, <1>3 DEF Expire, WasPut
<1>5. StoreShape(s) /\ DevicesTrue(s)
      BY DEF StoreInv
<1>6. ASSUME NEW p \in Plans
      PROVE  /\ points[p] = [good |-> points[p].good, from |-> points[p].from,
                             ask |-> points[p].ask, at |-> points[p].at]
             /\ points[p].good = FALSE /\ points[p].from = s.points[p].from
             /\ points[p].ask = s.points[p].ask /\ points[p].at = s.points[p].at
  <2>1. PICK v, ok : v = s.points[p] /\ ok = FALSE
        OBVIOUS
  <2>2. v = [good |-> v.good, from |-> v.from, ask |-> v.ask, at |-> v.at] /\ v.good \in BOOLEAN
        BY <1>5, <2>1 DEF StoreShape
  <2>3. (v.good /\ p \notin gone) = ok
        BY <1>1, <2>1, <2>2
  <2>4. points[p] = [v EXCEPT !.good = ok]
        BY <1>3, <2>1, <2>3
  <2>5. points[p] = [good |-> ok, from |-> v.from, ask |-> v.ask, at |-> v.at]
        BY <2>2, <2>4
  <2>6. /\ points[p].good = ok /\ points[p].from = v.from /\ points[p].ask = v.ask
        /\ points[p].at = v.at
        BY <2>5
  <2> QED  BY <2>1, <2>5, <2>6
<1>7. IsPoints(points)
  <2>1. points = [p \in Plans |-> points[p]]
        BY <1>3
  <2>2. /\ \A p \in Plans : s.points[p].at \in Nat
        /\ \A p, q \in Plans : s.points[p].at = s.points[q].at
        BY <1>5 DEF StoreShape
  <2>3. \A p \in Plans : points[p].at \in Nat /\ points[p].good \in BOOLEAN
        BY <1>6, <2>2
  <2>4. \A p \in Plans : points[p].at = s.points[p].at
        BY <1>6
  <2>5. \A p, q \in Plans : points[p].at = points[q].at
        BY <2>2, <2>4
  <2> QED  BY <1>6, <2>1, <2>3, <2>5 DEF IsPoints
<1>8. ASSUME NEW d \in PolledDevices
      PROVE  /\ devices[d].online \in BOOLEAN
             /\ devices[d].ok => s.devices[d].ok
  <2>1. CASE PlansOf(d) \cap gone = {}
        BY <1>2, <1>5, <2>1 DEF StoreShape
  <2>2. CASE PlansOf(d) \cap gone # {}
    <3>1. devices[d] = [online |-> FALSE, ok |-> FALSE]
          BY <1>2, <2>2
    <3>2. devices[d].online = FALSE /\ devices[d].ok = FALSE
          BY <3>1
    <3> QED  BY <3>2
  <2> QED  BY <2>1, <2>2
<1>9. IsDevices(devices)
  <2>1. devices = [d \in PolledDevices |-> devices[d]]
        BY <1>2
  <2> QED  BY <1>8, <2>1 DEF IsDevices
<1>10. t.points = points /\ t.devices = devices
      BY <1>4, <1>9, PutFields
<1>11. PointsTrue(t)
      BY <1>6, <1>10 DEF PointsTrue
<1>12. DevicesTrue(t)
      BY <1>5, <1>6, <1>8, <1>10 DEF DevicesTrue, PlansOf
<1> QED  BY <1>4, <1>7, <1>9, <1>11, <1>12, PutKeeps

(* What was read is published.                                             *)
LEMMA PublicationKeeps ==
  ASSUME CollectionInv, NEW t, t = Published
  PROVE  StoreInv(t)
<1>1. /\ StoreInv(store) /\ IsPoll(poll) /\ GotTrue(poll, link, asked) /\ poll.n \in Nat
      /\ medium \in {"rtu", "tcp"}
      BY DEF CollectionInv, IsPoll
<1>2. PICK devices : devices = [d \in PolledDevices |-> MappedDevice(d)]
      OBVIOUS
<1>3. PICK points : points = [p \in Plans |-> MappedPoint(p)]
      OBVIOUS
<1>4. WasPut(t, store, devices, points)
      BY <1>2, <1>3 DEF Published, WasPut
<1>5. ASSUME NEW p \in Plans
      PROVE  /\ points[p] = [good |-> points[p].good, from |-> points[p].from,
                             ask |-> points[p].ask, at |-> points[p].at]
             /\ points[p].good <=> Valid(poll.got[p])
             /\ points[p].good \in BOOLEAN
             /\ points[p].from = poll.got[p] /\ points[p].ask = poll.on[p]
             /\ points[p].at = poll.n
  <2>1. PICK good, from, ask, at : /\ good = Valid(poll.got[p]) /\ from = poll.got[p]
                                   /\ ask = poll.on[p] /\ at = poll.n
        OBVIOUS
  <2>2. points[p] = [good |-> good, from |-> from, ask |-> ask, at |-> at]
        BY <1>3, <2>1 DEF MappedPoint
  <2>3. good \in BOOLEAN
        BY <2>1 DEF Valid
  <2>4. /\ points[p].good = good /\ points[p].from = from /\ points[p].ask = ask
        /\ points[p].at = at
        BY <2>2
  <2> QED  BY <2>1, <2>2, <2>3, <2>4
<1>6. IsPoints(points)
  <2>1. points = [p \in Plans |-> points[p]]
        BY <1>3
  <2> QED  BY <1>1, <1>5, <2>1 DEF IsPoints
<1>7. ASSUME NEW d \in PolledDevices
      PROVE  /\ devices[d].online \in BOOLEAN
             /\ (\E p \in PlansOf(d) : Readable(poll.got[p])) => devices[d].online
             /\ devices[d].ok => \A p \in PlansOf(d) : Readable(poll.got[p])
  <2>1. PICK usable : usable = {p \in PlansOf(d) : Readable(poll.got[p])}
        OBVIOUS
  <2>2. PICK online, ok : online = (usable # {}) /\ ok = (usable = PlansOf(d))
        OBVIOUS
  <2>3. devices[d] = [online |-> online, ok |-> ok]
        BY <1>2, <2>1, <2>2 DEF MappedDevice
  <2>4. devices[d].online = online /\ devices[d].ok = ok
        BY <2>3
  <2> QED  BY <2>1, <2>2, <2>4
<1>8. IsDevices(devices)
  <2>1. devices = [d \in PolledDevices |-> devices[d]]
        BY <1>2
  <2> QED  BY <1>7, <2>1 DEF IsDevices
<1>9. t.points = points /\ t.devices = devices
      BY <1>1, <1>4, <1>8, PutFields
<1>10. PointsTrue(t)
  <2> SUFFICES ASSUME NEW p \in Plans, points[p].good
               PROVE  /\ Readable(points[p].from)
                      /\ AnswersBlock(points[p].from, p, points[p].ask)
                      /\ \A q \in Plans \ {p} : points[q].good => points[q].from # points[p].from
      BY <1>9 DEF PointsTrue
  <2>1. \A q \in Plans : points[q].good => Readable(poll.got[q])
        BY <1>5 DEF Valid, Readable
  <2>2. Readable(points[p].from) /\ AnswersBlock(points[p].from, p, points[p].ask)
        BY <1>1, <1>5, <2>1 DEF GotTrue
  <2>3. ASSUME NEW q \in Plans \ {p}, points[q].good
        PROVE  points[q].from # points[p].from
    <3>1. Readable(poll.got[p]) /\ Readable(poll.got[q]) /\ q \in Plans /\ q # p
          BY <2>1, <2>3
    <3>2. poll.got[p] # poll.got[q]
      <4>1. medium = "rtu" => poll.got[q].ask # poll.got[p].ask
            BY <1>1, <3>1 DEF GotTrue
      <4>2. medium = "tcp" => poll.got[p].to = p /\ poll.got[q].to = q
            BY <1>1, <3>1 DEF GotTrue, AnswersBlock
      <4> QED  BY <1>1, <3>1, <4>1, <4>2
    <3>3. points[p].from = poll.got[p] /\ points[q].from = poll.got[q]
          BY <1>5, <3>1
    <3> QED  BY <3>2, <3>3
  <2> QED  BY <2>2, <2>3
<1>11. DevicesTrue(t)
  <2>1. \A d \in PolledDevices : \A p \in PlansOf(d) :
          p \in Plans /\ (points[p].good => Readable(poll.got[p])) /\ points[p].from = poll.got[p]
        BY <1>5 DEF PlansOf, Valid, Readable
  <2>2. \A d \in PolledDevices :
          /\ (\E p \in PlansOf(d) : points[p].good) => devices[d].online
          /\ devices[d].ok => \A p \in PlansOf(d) : Readable(points[p].from)
        BY <1>7, <2>1
  <2> QED  BY <1>9, <2>2 DEF DevicesTrue
<1> QED  BY <1>1, <1>4, <1>6, <1>8, <1>10, <1>11, PutKeeps

(* The status of the master and that of the channel.                       *)
LEMMA MasterKeeps ==
  ASSUME NEW s, StoreInv(s), NEW m, m.online \in BOOLEAN, NEW t, t = WithMaster(s, m)
  PROVE  StoreInv(t)
<1>1. StoreShape(s) /\ PointsTrue(s) /\ DevicesTrue(s) /\ SumsTrue(s)
      BY DEF StoreInv
<1>2. PICK sum : sum = IF m.online THEN 1 ELSE 0
      OBVIOUS
<1>3. t = [s EXCEPT !.master = m, !.mastersOnline = sum]
  <2>1. s.master.online \in BOOLEAN /\ s.mastersOnline = IF s.master.online THEN 1 ELSE 0
        BY <1>1 DEF StoreShape, SumsTrue
  <2>2. (IF m.online = s.master.online THEN s.mastersOnline
         ELSE IF m.online THEN s.mastersOnline + 1 ELSE Adjusted(s.mastersOnline, 0, 1)) = sum
        BY <1>2, <2>1 DEF Adjusted
  <2> QED  BY <2>2 DEF WithMaster
<1>4. t = [points |-> s.points, devices |-> s.devices, master |-> m, channel |-> s.channel,
           devicesOnline |-> s.devicesOnline, mastersOnline |-> sum,
           channelsOnline |-> s.channelsOnline]
      BY <1>1, <1>3 DEF StoreShape
<1>5. /\ t.points = s.points /\ t.devices = s.devices /\ t.master = m /\ t.channel = s.channel
      /\ t.devicesOnline = s.devicesOnline /\ t.mastersOnline = sum
      /\ t.channelsOnline = s.channelsOnline
      /\ t = [points |-> t.points, devices |-> t.devices, master |-> t.master,
              channel |-> t.channel, devicesOnline |-> t.devicesOnline,
              mastersOnline |-> t.mastersOnline, channelsOnline |-> t.channelsOnline]
      BY <1>4
<1>6. StoreShape(t)
      BY <1>1, <1>5 DEF StoreShape
<1>7. PointsTrue(t) /\ DevicesTrue(t) /\ SumsTrue(t)
      BY <1>1, <1>2, <1>5 DEF PointsTrue, DevicesTrue, SumsTrue
<1> QED  BY <1>6, <1>7 DEF StoreInv

LEMMA ChannelKeeps ==
  ASSUME NEW s, StoreInv(s), NEW open \in BOOLEAN, NEW t, t = WithChannel(s, open)
  PROVE  StoreInv(t)
<1>1. StoreShape(s) /\ PointsTrue(s) /\ DevicesTrue(s) /\ SumsTrue(s)
      BY DEF StoreInv
<1>2. PICK sum : sum = IF open THEN 1 ELSE 0
      OBVIOUS
<1>3. t = [s EXCEPT !.channel = open, !.channelsOnline = sum]
  <2>1. s.channel \in BOOLEAN /\ s.channelsOnline = IF s.channel THEN 1 ELSE 0
        BY <1>1 DEF StoreShape, SumsTrue
  <2>2. (IF open = s.channel THEN s.channelsOnline
         ELSE IF open THEN s.channelsOnline + 1 ELSE Adjusted(s.channelsOnline, 0, 1)) = sum
        BY <1>2, <2>1 DEF Adjusted
  <2> QED  BY <2>2 DEF WithChannel
<1>4. t = [points |-> s.points, devices |-> s.devices, master |-> s.master, channel |-> open,
           devicesOnline |-> s.devicesOnline, mastersOnline |-> s.mastersOnline,
           channelsOnline |-> sum]
      BY <1>1, <1>3 DEF StoreShape
<1>5. /\ t.points = s.points /\ t.devices = s.devices /\ t.master = s.master /\ t.channel = open
      /\ t.devicesOnline = s.devicesOnline /\ t.mastersOnline = s.mastersOnline
      /\ t.channelsOnline = sum
      /\ t = [points |-> t.points, devices |-> t.devices, master |-> t.master,
              channel |-> t.channel, devicesOnline |-> t.devicesOnline,
              mastersOnline |-> t.mastersOnline, channelsOnline |-> t.channelsOnline]
      BY <1>4
<1>6. StoreShape(t)
      BY <1>1, <1>5 DEF StoreShape
<1>7. PointsTrue(t) /\ DevicesTrue(t) /\ SumsTrue(t)
      BY <1>1, <1>2, <1>5 DEF PointsTrue, DevicesTrue, SumsTrue
<1> QED  BY <1>6, <1>7 DEF StoreInv

-----------------------------------------------------------------------------
(* The actions on the store.                                               *)
LEMMA StoreActions ==
  ASSUME CollectionInv,
         TellChannel \/ PublishDevices \/ PublishFailure \/ PublishMaster \/ FreshnessPass
         \/ StopCompletes
  PROVE  CollectionInv'
<1>1. /\ IsPoll(poll) /\ InLine(link, asked) /\ poll.n \in Nat /\ link.open \in BOOLEAN
      /\ StoreInv(store)
      BY DEF CollectionInv, IsPoll, InLine
<1>2. UNCHANGED <<medium, link, asked>>
      BY DEF TellChannel, PublishDevices, PublishFailure, PublishMaster, FreshnessPass,
             StopCompletes, Elsewhere
<1>3. PollGoes(poll', poll)
  <2>1. CASE \E at \in {"told", "published", "failed"} : poll' = [poll EXCEPT !.at = at]
    <3>1. PICK at \in {"told", "published", "failed"} : poll' = [poll EXCEPT !.at = at]
          BY <2>1
    <3> QED  BY <1>1, <3>1, PollMoves
  <2>2. CASE poll' = Done
        BY <2>2, DoneGoes
  <2>3. CASE poll' = poll
        BY <1>1, <2>3, SamePoll
  <2>4. CASE poll' = NotPolling(poll.n, FALSE)
    <3>1. PICK n, leased : n = poll.n /\ leased = FALSE
          OBVIOUS
    <3>2. poll' = NotPolling(n, leased)
          BY <2>4, <3>1
    <3> QED  BY <1>1, <3>1, <3>2, PollIsDone
  <2>5. \/ \E at \in {"told", "published", "failed"} : poll' = [poll EXCEPT !.at = at]
        \/ poll' = Done \/ poll' = poll \/ poll' = NotPolling(poll.n, FALSE)
        BY DEF TellChannel, PublishDevices, PublishFailure, PublishMaster, FreshnessPass,
               StopCompletes
  <2> QED  BY <2>1, <2>2, <2>3, <2>4, <2>5
<1>4. StoreInv(store')
  <2>1. CASE TellChannel
    <3>1. PICK open : open = link.open
          OBVIOUS
    <3>2. store' = WithChannel(store, open) /\ open \in BOOLEAN
          BY <1>1, <2>1, <3>1 DEF TellChannel
    <3> QED  BY <1>1, <3>2, ChannelKeeps
  <2>2. CASE PublishDevices \/ PublishFailure
    <3>1. store' = Published
          BY <2>2 DEF PublishDevices, PublishFailure
    <3> QED  BY <3>1, PublicationKeeps
  <2>3. CASE PublishMaster
    <3>1. PICK m : m = IF poll.at = "published" THEN MappedMaster ELSE [online |-> FALSE, ok |-> FALSE]
          OBVIOUS
    <3>2. store' = WithMaster(store, m)
          BY <2>3, <3>1 DEF PublishMaster
    <3>3. m.online \in BOOLEAN
      <4>1. PICK online, ok : /\ online = \E p \in Plans : Readable(poll.got[p])
                              /\ ok = \A p \in Plans : Readable(poll.got[p])
            OBVIOUS
      <4>2. \/ m = [online |-> online, ok |-> ok]
            \/ m = [online |-> FALSE, ok |-> FALSE]
            BY <3>1, <4>1 DEF MappedMaster
      <4>3. m.online = online \/ m.online = FALSE
            BY <4>2
      <4> QED  BY <4>1, <4>3
    <3> QED  BY <1>1, <3>2, <3>3, MasterKeeps
  <2>4. CASE FreshnessPass
    <3>1. PICK q \in Plans :
            store' = Expire(store, {p \in Plans : store.points[p].at <= store.points[q].at})
          BY <2>4 DEF FreshnessPass
    <3>2. {p \in Plans : store.points[p].at <= store.points[q].at} = Plans
      <4>1. \A p \in Plans : /\ store.points[p].at = store.points[q].at
                             /\ store.points[p].at \in Nat
            BY <1>1 DEF StoreInv, StoreShape
      <4> QED  BY <4>1
    <3>3. store' = Expire(store, Plans)
          BY <3>1, <3>2
    <3> QED  BY <1>1, <3>3, ExpiryKeeps
  <2>5. CASE StopCompletes
    <3>1. store' = Expire(store, Plans)
          BY <2>5 DEF StopCompletes
    <3> QED  BY <1>1, <3>1, ExpiryKeeps
  <2> QED  BY <2>1, <2>2, <2>3, <2>4, <2>5
<1>5. LineGoes(link', link, asked)
      BY <1>1, <1>2, SameLine
<1> QED  BY <1>2, <1>3, <1>4, <1>5, PollStep

-----------------------------------------------------------------------------
LEMMA CollectionBegins == CollectionInit => CollectionInv
<1> SUFFICES ASSUME CollectionInit
             PROVE  CollectionInv
    OBVIOUS
<1>1. medium \in {"rtu", "tcp"} /\ asked \in Nat /\ asked = 0
      BY DEF CollectionInit
<1>2. IsPoll(poll) /\ poll.at = "idle" /\ \A p \in Plans : ~Readable(poll.got[p])
  <2>1. PICK g, o, left, no : /\ g = Unread /\ o = [p \in Plans |-> 0] /\ left = Attempts
                              /\ no = FALSE
        OBVIOUS
  <2>2. PICK r : r = poll
        OBVIOUS
  <2>3. r = [at |-> "idle", n |-> 0, plan |-> 1, left |-> left, got |-> g, on |-> o, leased |-> no]
        BY <2>1, <2>2 DEF CollectionInit, NotPolling
  <2>4. /\ r.at = "idle" /\ r.n = 0 /\ r.plan = 1 /\ r.got = g /\ r.on = o
        /\ r = [at |-> r.at, n |-> r.n, plan |-> r.plan, left |-> r.left, got |-> r.got,
                on |-> r.on, leased |-> r.leased]
        BY <2>3
  <2>5. g = [p \in Plans |-> g[p]] /\ o = [p \in Plans |-> o[p]]
        BY <2>1 DEF Unread
  <2>6. \A p \in Plans : ~Readable(g[p])
        BY <2>1 DEF Unread, NoAnswer, Readable
  <2> QED  BY <2>2, <2>4, <2>5, <2>6 DEF IsPoll
<1>3. InLine(link, asked)
  <2>1. PICK s, w, open : s = <<>> /\ w = {} /\ open = FALSE
        OBVIOUS
  <2>2. s \in Seq(SomeAnswers) /\ Len(s) = 0
        BY <2>1, EmptySeq
  <2>3. DOMAIN s = {}
    <3>1. DOMAIN s = 1..0
          BY <2>2, LenProperties
    <3> QED  BY <3>1
  <2>4. PICK l : l = link
        OBVIOUS
  <2>5. l = [open |-> open, wire |-> w, inbox |-> s]
        BY <2>1, <2>4 DEF CollectionInit
  <2>6. /\ l.open = open /\ l.wire = w /\ l.inbox = s
        /\ l = [open |-> l.open, wire |-> l.wire, inbox |-> l.inbox]
        BY <2>5
  <2>7. AnswersOf(l) = {}
        BY <2>1, <2>3, <2>6 DEF AnswersOf
  <2>8. OnceEach(l)
        BY <2>1, <2>3, <2>6 DEF OnceEach
  <2> QED  BY <2>1, <2>2, <2>4, <2>6, <2>7, <2>8 DEF InLine
<1>4. AwaitsOwn(poll, link, asked) /\ GotTrue(poll, link, asked)
      BY <1>2 DEF AwaitsOwn, GotTrue
<1>5. StoreInv(store)
  <2>1. PICK points, devices, off, no :
          /\ points = [p \in Plans |-> [good |-> FALSE, from |-> NoAnswer, ask |-> 0, at |-> 0]]
          /\ devices = [d \in PolledDevices |-> [online |-> FALSE, ok |-> FALSE]]
          /\ off = [online |-> FALSE, ok |-> FALSE] /\ no = FALSE
        OBVIOUS
  <2>2. PICK s : s = store
        OBVIOUS
  <2>3. s = [points |-> points, devices |-> devices, master |-> off, channel |-> no,
             devicesOnline |-> 0, mastersOnline |-> 0, channelsOnline |-> 0]
        BY <2>1, <2>2 DEF CollectionInit, EmptyStore
  <2>4. /\ s.points = points /\ s.devices = devices /\ s.master = off /\ s.channel = no
        /\ s.devicesOnline = 0 /\ s.mastersOnline = 0 /\ s.channelsOnline = 0
        /\ s = [points |-> s.points, devices |-> s.devices, master |-> s.master,
                channel |-> s.channel, devicesOnline |-> s.devicesOnline,
                mastersOnline |-> s.mastersOnline, channelsOnline |-> s.channelsOnline]
        BY <2>3
  <2>5. /\ points = [p \in Plans |-> points[p]]
        /\ devices = [d \in PolledDevices |-> devices[d]]
        BY <2>1
  <2>6. ASSUME NEW p \in Plans
        PROVE  /\ points[p] = [good |-> points[p].good, from |-> points[p].from,
                               ask |-> points[p].ask, at |-> points[p].at]
               /\ points[p].good = FALSE /\ points[p].at = 0
    <3>1. PICK from, ask : from = NoAnswer /\ ask = 0
          OBVIOUS
    <3>2. points[p] = [good |-> no, from |-> from, ask |-> ask, at |-> 0]
          BY <2>1, <3>1
    <3>3. /\ points[p].good = no /\ points[p].from = from /\ points[p].ask = ask
          /\ points[p].at = 0
          BY <3>2
    <3> QED  BY <2>1, <3>2, <3>3
  <2>7. ASSUME NEW d \in PolledDevices
        PROVE  devices[d].online = FALSE /\ devices[d].ok = FALSE
    <3>1. devices[d] = [online |-> FALSE, ok |-> FALSE]
          BY <2>1
    <3> QED  BY <3>1
  <2>8. off.online = FALSE
        BY <2>1
  <2>9. StoreShape(s)
    <3>1. IsPoints(points)
      <4>1. \A p \in Plans : points[p].at = 0 /\ points[p].good = FALSE
            BY <2>6
      <4>2. \A p \in Plans : points[p].at \in Nat
            BY <4>1
      <4>4. \A p \in Plans : points[p].good \in BOOLEAN
            BY <4>1
      <4>3. \A p, q \in Plans : points[p].at = points[q].at
            BY <4>1
      <4> QED  BY <2>5, <2>6, <4>2, <4>3, <4>4 DEF IsPoints
    <3>3. IsDevices(devices)
          BY <2>5, <2>7 DEF IsDevices
    <3>2. s.master.online \in BOOLEAN /\ s.channel \in BOOLEAN
          BY <2>1, <2>4, <2>8
    <3> QED  BY <2>4, <3>1, <3>2, <3>3 DEF StoreShape, IsPoints, IsDevices
  <2>10. PointsTrue(s)
        BY <2>4, <2>6 DEF PointsTrue
  <2>11. DevicesTrue(s)
        BY <2>4, <2>6, <2>7 DEF DevicesTrue, PlansOf
  <2>12. SumsTrue(s)
    <3>1. {d \in PolledDevices : s.devices[d].online} = {}
          BY <2>4, <2>7
    <3>2. Cardinality({d \in PolledDevices : s.devices[d].online}) = 0
          BY <3>1, FS_EmptySet
    <3> QED  BY <2>1, <2>4, <2>8, <3>2 DEF SumsTrue
  <2> QED  BY <2>2, <2>9, <2>10, <2>11, <2>12 DEF StoreInv
<1> QED  BY <1>1, <1>2, <1>3, <1>4, <1>5 DEF CollectionInv

LEMMA CollectionStep ==
  ASSUME CollectionInv, [CollectionNext]_collectionVars
  PROVE  CollectionInv'
<1>1. CASE UNCHANGED collectionVars
  <2>1. UNCHANGED <<medium, link, asked, store, poll>>
        BY <1>1 DEF collectionVars
  <2>2. PollGoes(poll', poll)
        BY <2>1, SamePoll DEF CollectionInv
  <2> QED  BY <2>1, <2>2, PollRests
<1>2. CASE StartPoll
      BY <1>2, StartPollStep
<1>3. CASE TakeLease
      BY <1>3, TakeLeaseStep
<1>4. CASE PollSeesStop \/ PrepareFails \/ PollGivesUp \/ Map \/ RequestStop
      BY <1>4, QuietActions
<1>5. CASE Prepare \/ OpenToAsk \/ OpenFails \/ LineFails \/ TimesOut
      BY <1>5, LineActions
<1>6. CASE Send
      BY <1>6, SendStep
<1>7. CASE \E a \in link.wire : Arrive(a)
      BY <1>7, ArriveStep
<1>8. CASE ReceiveRtu
      BY <1>8, ReceiveRtuStep
<1>9. CASE ReceiveTcp
      BY <1>9, ReceiveTcpStep
<1>10. CASE Cancel
      BY <1>10, CancelStep
<1>11. CASE TellChannel \/ PublishDevices \/ PublishFailure \/ PublishMaster \/ FreshnessPass
            \/ StopCompletes
      BY <1>11, StoreActions
<1> QED  BY <1>1, <1>2, <1>3, <1>4, <1>5, <1>6, <1>7, <1>8, <1>9, <1>10, <1>11
         DEF CollectionNext

LEMMA CollectionHolds == CollectionSpec => []CollectionInv
<1>1. CollectionInv /\ [CollectionNext]_collectionVars => CollectionInv'
      BY CollectionStep
<1> QED  BY <1>1, CollectionBegins, PTL DEF CollectionSpec

(* What the store shows is what the devices have said, for any blocks,     *)
(* devices, attempts and number of polls, whatever answers are late, lost, *)
(* doubled or spoilt, wherever a poll is stopped and whenever values       *)
(* expire: a good value came in one answer to one request for a block of   *)
(* its shape (transceive), and statuses and sums follow the values.        *)
THEOREM StoreStaysTrue == CollectionSpec => []StoreIsTrue
<1>1. CollectionInv => StoreIsTrue
  <2> SUFFICES ASSUME CollectionInv
               PROVE  StoreIsTrue
      OBVIOUS
  <2>1. PointsTrue(store) /\ DevicesTrue(store) /\ SumsTrue(store)
        BY DEF CollectionInv, StoreInv
  <2>2. ValuesAreAnswered
        BY <2>1 DEF PointsTrue, AnswersBlock, ValuesAreAnswered
  <2>3. StatusTellsValues
        BY <2>1 DEF DevicesTrue, SumsTrue, StatusTellsValues
  <2> QED  BY <2>2, <2>3 DEF StoreIsTrue
<1> QED  BY <1>1, CollectionHolds, PTL

(***************************************************************************)
(* HistoryStore, for any terms of keeping and failures.                    *)
(***************************************************************************)
-----------------------------------------------------------------------------
(* A table of hours or days, of which the hours hold samples of their own. *)
HistoryShape ==
  /\ now \in Nat /\ dirty \in BOOLEAN
  /\ raw = [b \in DOMAIN raw |-> raw[b]] /\ DOMAIN raw \subseteq Nat

HoursAreOwn == \A h \in DOMAIN hours : \A s \in hours[h] : HourOf(s[1]) = h

(* The aggregates count what is kept, but for some, whatever the           *)
(* connection stands at.                                                   *)
CountsOne(rows, byHour, byDay, b) ==
  /\ HourOf(b) \in DOMAIN byHour
  /\ {s \in byHour[HourOf(b)] : s[1] = b} = {<<b, rows[b]>>}
  /\ DayOf(b) \in DOMAIN byDay
  /\ {s \in byDay[DayOf(b)] : s[1] = b} = {<<b, rows[b]>>}

CountsAll(rows, byHour, byDay, but, t) ==
  \A b \in DOMAIN rows \ but : b + RawKept >= t => CountsOne(rows, byHour, byDay, b)

HistoryInv ==
  HistoryShape /\ HoursAreOwn /\ (~dirty => CountsAll(raw, hours, days, passedOver, now))

(* A bucket lies in its hour and its day, and the hour in the day.         *)
LEMMA Periods ==
  ASSUME NEW b \in Nat
  PROVE  /\ HourOf(b) \in Nat /\ b - 1 <= 2 * HourOf(b)
         /\ DayOf(b) \in Nat /\ b - 3 <= 4 * DayOf(b)
         /\ HourOf(b) \div 2 = DayOf(b)
BY DEF HourOf, DayOf

(* The samples of some rows, and those of one hour.                        *)
SamplesOf(rows, bs) == {<<b, rows[b]>> : b \in bs}
OfHour(rows, k) == SamplesOf(rows, {c \in DOMAIN rows : HourOf(c) = k})

HoursOf(bs) == {HourOf(b) : b \in bs}
DaysOf(hs) == {h \div 2 : h \in hs}

(* The hours of bs are those of rows, and the others what they were.       *)
HoursAnew(f, rows, table, bs) ==
  /\ DOMAIN f = DOMAIN table \cup HoursOf(bs)
  /\ \A b \in bs : f[HourOf(b)] = OfHour(rows, HourOf(b))
  /\ \A k \in DOMAIN table \ HoursOf(bs) : f[k] = table[k]

LEMMA HoursFromIs ==
  ASSUME NEW rows, NEW table, NEW bs
  PROVE  HoursAnew(HoursFrom(rows, table, bs), rows, table, bs)
<1>1. HoursFrom(rows, table, bs) =
        [k \in DOMAIN table \cup HoursOf(bs) |->
           IF k \in HoursOf(bs)
           THEN OfHour(rows, k)
           ELSE table[k]]
      BY DEF HoursFrom, Refreshed, Within, SamplesOf, OfHour, HoursOf
<1> QED  BY <1>1 DEF HoursAnew, HoursOf

(* The days of hs are those of the hours, and the others what they were.   *)
DaysAnew(f, byHour, table, hs) ==
  /\ DOMAIN f = DOMAIN table \cup DaysOf(hs)
  /\ \A k \in DaysOf(hs) : f[k] = Together(byHour, k)
  /\ \A k \in DOMAIN table \ DaysOf(hs) : f[k] = table[k]

LEMMA DaysFromIs ==
  ASSUME NEW byHour, NEW table, NEW hs
  PROVE  DaysAnew(DaysFrom(byHour, table, hs), byHour, table, hs)
<1>1. DaysFrom(byHour, table, hs) =
        [k \in DOMAIN table \cup DaysOf(hs) |->
           IF k \in DaysOf(hs)
           THEN Together(byHour, k)
           ELSE table[k]]
      BY DEF DaysFrom, Refreshed, DaysOf
<1> QED  BY <1>1 DEF DaysAnew

(* The hours of a day hold the samples of a bucket only in its own hour.   *)
LEMMA DayIsOfHours ==
  ASSUME NEW byHour, NEW b \in Nat, HourOf(b) \in DOMAIN byHour,
         \A h \in DOMAIN byHour : \A s \in byHour[h] : HourOf(s[1]) = h
  PROVE  {s \in Together(byHour, DayOf(b)) : s[1] = b} = {s \in byHour[HourOf(b)] : s[1] = b}
<1>1. HourOf(b) \div 2 = DayOf(b)
      BY Periods
<1>2. \A s \in byHour[HourOf(b)] : s \in Together(byHour, DayOf(b))
      BY <1>1 DEF Together
<1>3. \A s \in Together(byHour, DayOf(b)) : s[1] = b => s \in byHour[HourOf(b)]
      BY DEF Together
<1> QED  BY <1>2, <1>3

(* Of one bucket there is one sample among them.                           *)
LEMMA OneSample ==
  ASSUME NEW rows, NEW bs, NEW b \in bs
  PROVE  {s \in SamplesOf(rows, bs) : s[1] = b} = {<<b, rows[b]>>}
<1>1. \A s \in SamplesOf(rows, bs) : s[1] = b => s = <<b, rows[b]>>
      BY DEF SamplesOf
<1>2. <<b, rows[b]>> \in SamplesOf(rows, bs) /\ <<b, rows[b]>>[1] = b
      BY DEF SamplesOf
<1> QED  BY <1>1, <1>2

(* What is computed anew for an hour is of this hour.                      *)
LEMMA HoursStayOwn ==
  ASSUME NEW rows, NEW table, NEW bs,
         \A h \in DOMAIN table : \A s \in table[h] : HourOf(s[1]) = h,
         NEW h \in DOMAIN HoursFrom(rows, table, bs),
         NEW s \in HoursFrom(rows, table, bs)[h]
  PROVE  HourOf(s[1]) = h
<1>0. HoursAnew(HoursFrom(rows, table, bs), rows, table, bs)
      BY HoursFromIs
<1>1. CASE h \in HoursOf(bs)
  <2>1. s \in OfHour(rows, h)
        BY <1>0, <1>1 DEF HoursAnew, HoursOf
  <2>2. PICK c \in DOMAIN rows : HourOf(c) = h /\ s = <<c, rows[c]>>
        BY <2>1 DEF SamplesOf, OfHour
  <2> QED  BY <2>2
<1>2. CASE h \notin HoursOf(bs)
  <2>1. h \in DOMAIN table \ HoursOf(bs)
        BY <1>0, <1>2 DEF HoursAnew
  <2> QED  BY <1>0, <2>1 DEF HoursAnew
<1> QED  BY <1>1, <1>2

-----------------------------------------------------------------------------
(* One write: the hour and the day of its bucket are computed anew, and no *)
(* other bucket is in another state than before.                           *)
LEMMA PutIs ==
  ASSUME NEW b, NEW v
  PROVE  /\ DOMAIN Put(b, v) = DOMAIN raw \cup {b}
         /\ \A c \in DOMAIN raw \ {b} : Put(b, v)[c] = raw[c]
         /\ Put(b, v) = [c \in DOMAIN Put(b, v) |-> Put(b, v)[c]]
BY DEF Put

LEMMA WriteCounts ==
  ASSUME HistoryShape, HoursAreOwn, CountsAll(raw, hours, days, passedOver, now),
         NEW b \in Nat, NEW v, NEW rows, NEW byHour, NEW byDay, NEW but,
         rows = Put(b, v), byHour = HoursFrom(rows, hours, {b}),
         byDay = DaysFrom(byHour, days, {HourOf(b)}),
         but = {c \in passedOver : HourOf(c) # HourOf(b)}
  PROVE  CountsAll(rows, byHour, byDay, but, now)
<1>1. /\ DOMAIN byHour = DOMAIN hours \cup {HourOf(b)}
      /\ byHour[HourOf(b)] = OfHour(rows, HourOf(b))
      /\ \A k \in DOMAIN hours \ {HourOf(b)} : byHour[k] = hours[k]
  <2>1. PICK bs : bs = {b}
        OBVIOUS
  <2>2. HoursAnew(byHour, rows, hours, bs)
        BY <2>1, HoursFromIs
  <2> QED  BY <2>1, <2>2 DEF HoursAnew, HoursOf
<1>2. /\ DOMAIN byDay = DOMAIN days \cup {DayOf(b)}
      /\ byDay[DayOf(b)] = Together(byHour, DayOf(b))
      /\ \A k \in DOMAIN days \ {DayOf(b)} : byDay[k] = days[k]
  <2>1. PICK hs : hs = {HourOf(b)}
        OBVIOUS
  <2>2. DaysAnew(byDay, byHour, days, hs)
        BY <2>1, DaysFromIs
  <2>3. DaysOf(hs) = {DayOf(b)}
        BY <2>1, Periods DEF DaysOf
  <2> QED  BY <2>2, <2>3 DEF DaysAnew
<1>3. DOMAIN rows = DOMAIN raw \cup {b} /\ \A c \in DOMAIN raw \ {b} : rows[c] = raw[c]
  <2>1. /\ DOMAIN Put(b, v) = DOMAIN raw \cup {b}
        /\ \A c \in DOMAIN raw \ {b} : Put(b, v)[c] = raw[c]
        BY Zenon, PutIs
  <2> QED  BY <2>1
<1>4. \A h \in DOMAIN byHour : \A s \in byHour[h] : HourOf(s[1]) = h
  <2>1. PICK bs : bs = {b}
        OBVIOUS
  <2> QED  BY <2>1, HoursStayOwn DEF HoursAreOwn
<1>5. DOMAIN rows \subseteq Nat
      BY <1>3 DEF HistoryShape
<1>6. ASSUME NEW c \in DOMAIN rows \ but, c + RawKept >= now, HourOf(c) # HourOf(b)
      PROVE  /\ c \in DOMAIN raw /\ rows[c] = raw[c]
             /\ CountsOne(raw, hours, days, c)
  <2>1. c \in DOMAIN raw \ passedOver /\ c # b
        BY <1>3, <1>6
  <2> QED  BY <1>3, <1>6, <2>1 DEF CountsAll
<1>7. ASSUME NEW c \in DOMAIN rows \ but, c + RawKept >= now
      PROVE  /\ HourOf(c) \in DOMAIN byHour
             /\ {s \in byHour[HourOf(c)] : s[1] = c} = {<<c, rows[c]>>}
  <2>1. CASE HourOf(c) = HourOf(b)
    <3>1. {s \in OfHour(rows, HourOf(b)) : s[1] = c} = {<<c, rows[c]>>}
          BY <2>1, OneSample DEF OfHour
    <3> QED  BY <1>1, <2>1, <3>1
  <2>2. CASE HourOf(c) # HourOf(b)
        BY <1>1, <1>6, <1>7, <2>2 DEF CountsOne
  <2> QED  BY <2>1, <2>2
<1>8. ASSUME NEW c \in DOMAIN rows \ but, c + RawKept >= now
      PROVE  /\ DayOf(c) \in DOMAIN byDay
             /\ {s \in byDay[DayOf(c)] : s[1] = c} = {<<c, rows[c]>>}
  <2>1. CASE DayOf(c) = DayOf(b)
    <3>1. {s \in Together(byHour, DayOf(c)) : s[1] = c} = {s \in byHour[HourOf(c)] : s[1] = c}
      <4>1. c \in Nat /\ HourOf(c) \in DOMAIN byHour
            BY <1>5, <1>7, <1>8
      <4> HIDE DEF HourOf, DayOf
      <4> QED  BY ONLY <1>4, <4>1, DayIsOfHours
    <3>2. {s \in byHour[HourOf(c)] : s[1] = c} = {<<c, rows[c]>>}
          BY <1>7, <1>8
    <3> QED  BY <1>2, <2>1, <3>1, <3>2
  <2>2. CASE DayOf(c) # DayOf(b)
    <3>1. c \in Nat
          BY <1>5
    <3>2. HourOf(c) # HourOf(b)
          BY <2>2, <3>1, Periods
    <3>3. CountsOne(raw, hours, days, c) /\ rows[c] = raw[c]
          BY <1>6, <1>8, <3>2
    <3>4. /\ DayOf(c) \in DOMAIN days
          /\ {s \in days[DayOf(c)] : s[1] = c} = {<<c, raw[c]>>}
          BY <3>3 DEF CountsOne
    <3> QED  BY <1>2, <2>2, <3>3, <3>4
  <2> QED  BY <2>1, <2>2
<1> QED  BY <1>7, <1>8 DEF CountsAll, CountsOne

(* What every write leaves of the rest.                                    *)
LEMMA WriteKeepsShape ==
  ASSUME HistoryShape, HoursAreOwn, NEW b, NEW v, Upserted(b), raw' = Put(b, v),
         UNCHANGED now, dirty' \in BOOLEAN,
         hours' = hours \/ hours' = HoursFrom(raw', hours, {b})
  PROVE  HistoryShape' /\ HoursAreOwn'
<1>1. b \in Nat
      BY DEF Upserted
<1>2. HistoryShape'
  <2>1. raw' = [c \in DOMAIN raw' |-> raw'[c]] /\ DOMAIN raw' = DOMAIN raw \cup {b}
        BY PutIs
  <2> QED  BY <1>1, <2>1 DEF HistoryShape
<1>3. HoursAreOwn'
  <2>1. CASE hours' = hours
        BY <2>1 DEF HoursAreOwn
  <2>2. CASE hours' = HoursFrom(raw', hours, {b})
        BY <2>2, HoursStayOwn DEF HoursAreOwn
  <2> QED  BY <2>1, <2>2
<1> QED  BY <1>2, <1>3

LEMMA UpsertKeeps ==
  ASSUME HistoryInv, NEW b, NEW v, Upsert(b, v)
  PROVE  HistoryInv'
<1>1. HistoryShape' /\ HoursAreOwn'
      BY WriteKeepsShape DEF HistoryInv, Upsert, HistoryShape
<1>2. ~dirty' => CountsAll(raw', hours', days', passedOver', now')
  <2>1. b \in Nat
        BY DEF Upsert, Upserted
  <2> QED  BY <2>1, WriteCounts DEF HistoryInv, Upsert, MadeUpFor
<1> QED  BY <1>1, <1>2 DEF HistoryInv

LEMMA UpsertMarksKeeps ==
  ASSUME HistoryInv, NEW b, NEW v, UpsertMarks(b, v)
  PROVE  HistoryInv'
<1>1. HistoryShape' /\ HoursAreOwn'
      BY WriteKeepsShape DEF HistoryInv, UpsertMarks
<1> QED  BY <1>1 DEF HistoryInv, UpsertMarks

(* What leaves the tables as they are.                                     *)
LEMMA TablesStand ==
  ASSUME HistoryInv, UNCHANGED <<now, raw, hours, days, passedOver>>, dirty' \in BOOLEAN, dirty => dirty'
  PROVE  HistoryInv'
BY DEF HistoryInv, HistoryShape, HoursAreOwn

LEMMA CommitFailsKeeps ==
  ASSUME HistoryInv, NEW b, NEW v, CommitFails(b, v)
  PROVE  HistoryInv'
<1>1. CASE UNCHANGED <<tables, passedOver>>
      BY <1>1, TablesStand DEF CommitFails, tables, HistoryInv, HistoryShape
<1>2. CASE /\ raw' = Put(b, v)
           /\ hours' = HoursFrom(raw', hours, {b})
           /\ days' = DaysFrom(hours', days, {HourOf(b)})
           /\ MadeUpFor(b)
           /\ UNCHANGED dirty
  <2>1. HistoryShape' /\ HoursAreOwn'
        BY <1>2, WriteKeepsShape DEF HistoryInv, CommitFails, HistoryShape
  <2>2. ~dirty' => CountsAll(raw', hours', days', passedOver', now')
    <3>1. b \in Nat
          BY DEF CommitFails, Upserted
    <3> QED  BY <1>2, <3>1, WriteCounts DEF HistoryInv, CommitFails, MadeUpFor
  <2> QED  BY <2>1, <2>2 DEF HistoryInv
<1> QED  BY <1>1, <1>2 DEF CommitFails

-----------------------------------------------------------------------------
(* Rebuilding computes every hour and day of a sample that is kept anew.   *)
LEMMA RebuiltKeeps ==
  ASSUME HistoryInv, Rebuilt, UNCHANGED <<now, raw>>, passedOver' = {}, dirty' = FALSE
  PROVE  HistoryInv'
<1> DEFINE recent == {b \in DOMAIN raw : Kept(b, RawKept)}
           hoursNow == HoursFrom(raw, hours, recent)
           recentHours == {h \in DOMAIN hoursNow : Kept(2 * h, DayKept)}
           again == {HourOf(b) : b \in recent} \cup recentHours
<1>1. hours' = hoursNow /\ days' = DaysFrom(hoursNow, days, again)
      BY DEF Rebuilt
<1>2. HistoryShape'
      BY DEF HistoryInv, HistoryShape
<1>3. \A h \in DOMAIN hoursNow : \A s \in hoursNow[h] : HourOf(s[1]) = h
      BY HoursStayOwn DEF HistoryInv, HoursAreOwn
<1>4. HoursAreOwn'
      BY <1>1, <1>3 DEF HoursAreOwn
<1>5. ASSUME NEW b \in recent
      PROVE  /\ HourOf(b) \in DOMAIN hoursNow
             /\ {s \in hoursNow[HourOf(b)] : s[1] = b} = {<<b, raw[b]>>}
  <2>1. HoursAnew(hoursNow, raw, hours, recent)
    <3>1. PICK bs : bs = recent
          OBVIOUS
    <3> QED  BY <3>1, HoursFromIs
  <2>2. {s \in OfHour(raw, HourOf(b)) : s[1] = b} = {<<b, raw[b]>>}
        BY <1>5, OneSample DEF OfHour
  <2> QED  BY <1>5, <2>1, <2>2 DEF HoursAnew, HoursOf
<1>6. ASSUME NEW b \in recent
      PROVE  /\ DayOf(b) \in DOMAIN days'
             /\ {s \in days'[DayOf(b)] : s[1] = b} = {<<b, raw[b]>>}
  <2>1. PICK byHour, hs : byHour = hoursNow /\ hs = again
        OBVIOUS
  <2>2. DaysAnew(days', byHour, days, hs)
        BY <1>1, <2>1, DaysFromIs
  <2>3. b \in Nat
        BY <1>6 DEF HistoryInv, HistoryShape
  <2>4. DayOf(b) \in DaysOf(hs)
    <3>1. HourOf(b) \in hs /\ HourOf(b) \div 2 = DayOf(b)
          BY <1>6, <2>1, <2>3, Periods
    <3> QED  BY <3>1 DEF DaysOf
  <2>5. DayOf(b) \in DOMAIN days' /\ days'[DayOf(b)] = Together(byHour, DayOf(b))
        BY <2>2, <2>4 DEF DaysAnew
  <2>6. /\ HourOf(b) \in DOMAIN byHour
        /\ {s \in byHour[HourOf(b)] : s[1] = b} = {<<b, raw[b]>>}
        BY <1>5, <1>6, <2>1
  <2>7. \A h \in DOMAIN byHour : \A s \in byHour[h] : HourOf(s[1]) = h
        BY <1>3, <2>1
  <2>8. {s \in Together(byHour, DayOf(b)) : s[1] = b} = {s \in byHour[HourOf(b)] : s[1] = b}
        BY <2>3, <2>6, <2>7, DayIsOfHours
  <2> QED  BY <2>5, <2>6, <2>8
<1>7. CountsAll(raw', hours', days', passedOver', now')
  <2>1. \A b \in DOMAIN raw : b + RawKept >= now <=> b \in recent
        BY DEF Kept
  <2> HIDE DEF recent
  <2> QED  BY <1>1, <1>5, <1>6, <2>1 DEF CountsAll, CountsOne
<1> QED  BY <1>2, <1>4, <1>7 DEF HistoryInv

LEMMA RebuildKeeps ==
  ASSUME HistoryInv, Rebuild
  PROVE  HistoryInv'
<1>1. UNCHANGED <<now, raw>> /\ dirty' = FALSE
      BY DEF Rebuild
<1>2. CASE recorded /\ Rebuilt /\ passedOver' = {}
      BY <1>1, <1>2, RebuiltKeeps
<1>3. CASE passedOver' = {b \in DOMAIN raw : ~CountedTwice(b)} /\ UNCHANGED <<hours, days>>
  <2>1. HistoryShape' /\ HoursAreOwn'
        BY <1>1, <1>3 DEF HistoryInv, HistoryShape, HoursAreOwn
  <2>2. CountsAll(raw', hours', days', passedOver', now')
        BY <1>1, <1>3 DEF CountsAll, CountsOne, CountedTwice, Counted
  <2> QED  BY <2>1, <2>2 DEF HistoryInv
<1> QED  BY <1>2, <1>3 DEF Rebuild

-----------------------------------------------------------------------------
(* A sample leaves before its hour and its day.                            *)
LEMMA CleanupKeeps ==
  ASSUME HistoryInv, Cleanup
  PROVE  HistoryInv'
<1>1. /\ DOMAIN raw' = {b \in DOMAIN raw : Kept(b, RawKept)}
      /\ raw' = [b \in DOMAIN raw' |-> raw[b]]
      /\ DOMAIN hours' = {h \in DOMAIN hours : Kept(2 * h, HourKept)}
      /\ \A h \in DOMAIN hours' : hours'[h] = hours[h]
      /\ DOMAIN days' = {d \in DOMAIN days : Kept(4 * d, DayKept)}
      /\ \A d \in DOMAIN days' : days'[d] = days[d]
      /\ UNCHANGED <<now, dirty, passedOver>>
      BY DEF Cleanup, Restrict
<1>2. \A b \in DOMAIN raw' : raw'[b] = raw[b]
      BY <1>1
<1>3. HistoryShape'
      BY <1>1, <1>2 DEF HistoryInv, HistoryShape
<1>4. HoursAreOwn'
      BY <1>1 DEF HistoryInv, HoursAreOwn
<1>5. ASSUME ~dirty, NEW b \in DOMAIN raw' \ passedOver
      PROVE  CountsOne(raw', hours', days', b)
  <2>1. b \in Nat /\ now \in Nat /\ b \in DOMAIN raw /\ b + RawKept >= now
        BY <1>1, <1>5 DEF HistoryInv, HistoryShape, Kept
  <2>2. /\ HourOf(b) \in DOMAIN hours /\ {s \in hours[HourOf(b)] : s[1] = b} = {<<b, raw[b]>>}
        /\ DayOf(b) \in DOMAIN days /\ {s \in days[DayOf(b)] : s[1] = b} = {<<b, raw[b]>>}
        BY <1>5, <2>1 DEF HistoryInv, CountsAll, CountsOne
  <2>3. Kept(2 * HourOf(b), HourKept) /\ Kept(4 * DayOf(b), DayKept)
    <3>1. /\ HourOf(b) \in Nat /\ b - 1 <= 2 * HourOf(b)
          /\ DayOf(b) \in Nat /\ b - 3 <= 4 * DayOf(b)
          BY <2>1, Periods
    <3> QED  BY <2>1, <3>1, HistoryAssumption DEF Kept
  <2>4. HourOf(b) \in DOMAIN hours' /\ DayOf(b) \in DOMAIN days'
        BY <1>1, <2>2, <2>3
  <2> QED  BY <1>1, <1>2, <2>2, <2>4 DEF CountsOne
<1>6. ~dirty' => CountsAll(raw', hours', days', passedOver', now')
      BY <1>1, <1>5 DEF CountsAll
<1> QED  BY <1>3, <1>4, <1>6 DEF HistoryInv

LEMMA ClearAllKeeps ==
  ASSUME HistoryInv, ClearAll
  PROVE  HistoryInv'
<1>1. /\ raw' = [b \in {} |-> {}] /\ hours' = [b \in {} |-> {}]
      /\ UNCHANGED <<now, dirty>>
      BY DEF ClearAll, EmptyTable
<1>2. DOMAIN raw' = {} /\ DOMAIN hours' = {}
      BY <1>1
<1> QED  BY <1>1, <1>2 DEF HistoryInv, HistoryShape, HoursAreOwn, CountsAll

LEMMA TimeKeeps ==
  ASSUME HistoryInv, TimePasses
  PROVE  HistoryInv'
<1>1. now \in Nat /\ now' = now + 1 /\ UNCHANGED <<raw, hours, days, dirty, passedOver>>
      BY DEF HistoryInv, HistoryShape, TimePasses, tables
<1>2. \A b \in DOMAIN raw : b + RawKept >= now + 1 => b + RawKept >= now
      BY <1>1, HistoryAssumption DEF HistoryInv, HistoryShape
<1>3. ~dirty' => CountsAll(raw', hours', days', passedOver', now')
      BY <1>1, <1>2 DEF HistoryInv, CountsAll
<1> QED  BY <1>1, <1>3 DEF HistoryInv, HistoryShape, HoursAreOwn

(* The steps of opening and of ending, and an edit, touch no table.        *)
LEMMA OpeningKeeps ==
  ASSUME HistoryInv, Open \/ MarkDirty \/ RebuildFails \/ CrashStore \/ EditType
  PROVE  HistoryInv'
<1>1. /\ UNCHANGED <<now, raw, hours, days, passedOver>> /\ dirty' \in BOOLEAN
      /\ dirty => dirty'
      BY DEF Open, MarkDirty, RebuildFails, CrashStore, EditType, tables, HistoryInv, HistoryShape
<1> QED  BY <1>1, TablesStand

-----------------------------------------------------------------------------
LEMMA HistoryStart ==
  HistoryInit => HistoryInv
<1> SUFFICES ASSUME HistoryInit
             PROVE  HistoryInv
    OBVIOUS
<1>1. /\ now = 0 /\ dirty = TRUE
      /\ raw = [b \in {} |-> {}] /\ hours = [b \in {} |-> {}]
      BY DEF HistoryInit, EmptyTable
<1>2. DOMAIN raw = {} /\ DOMAIN hours = {}
      BY <1>1
<1> QED  BY <1>1, <1>2 DEF HistoryInv, HistoryShape, HoursAreOwn

LEMMA HistoryStep ==
  HistoryInv /\ [HistoryNext]_historyVars => HistoryInv'
<1> SUFFICES ASSUME HistoryInv, [HistoryNext]_historyVars
             PROVE  HistoryInv'
    OBVIOUS
<1>1. ASSUME NEW b \in 0..MaxTime, NEW v \in Samples,
             Upsert(b, v) \/ UpsertMarks(b, v) \/ CommitFails(b, v)
      PROVE  HistoryInv'
      BY <1>1, UpsertKeeps, UpsertMarksKeeps, CommitFailsKeeps
<1>2. CASE Open \/ MarkDirty \/ RebuildFails \/ CrashStore \/ EditType
      BY <1>2, OpeningKeeps
<1>3. CASE Rebuild
      BY <1>3, RebuildKeeps
<1>4. CASE Cleanup \/ ClearAll \/ TimePasses
      BY <1>4, CleanupKeeps, ClearAllKeeps, TimeKeeps
<1>5. CASE UNCHANGED historyVars
      BY <1>5, TablesStand DEF historyVars, tables, HistoryInv, HistoryShape
<1> QED  BY <1>1, <1>2, <1>3, <1>4, <1>5 DEF HistoryNext

LEMMA HistoryHolds ==
  HistoryInv => AggregatesAreCurrent
BY DEF HistoryInv, CountsAll, CountsOne, AggregatesAreCurrent, CountedTwice, Counted, Kept

(* Unless the table is marked, an aggregate counts every sample that is    *)
(* still kept with its present value, but for those a rebuild passed over  *)
(* while their point had no history: no failed refresh, lost commit, crash *)
(* in a rebuild or clean-up leaves an hour behind its samples or a day     *)
(* behind its hours, for any retention that keeps the aggregates longer.   *)
THEOREM AggregatesStayCurrent == HistorySpec => []AggregatesAreCurrent
<1>1. HistorySpec => []HistoryInv
      BY HistoryStart, HistoryStep, PTL DEF HistorySpec
<1> QED  BY <1>1, HistoryHolds, PTL

(***************************************************************************)
(* EventStore, for any kinds, limits, retention and failures.              *)
(***************************************************************************)
-----------------------------------------------------------------------------
(* The table and what is remembered of it.                                 *)
IsWindow(w) ==
  /\ w = [id |-> w.id, at |-> w.at, count |-> w.count, counted |-> w.counted, dirty |-> w.dirty]
  /\ w.count \in Int /\ w.dirty \in BOOLEAN

EventsShape(s) ==
  /\ s = [rows |-> s.rows, known |-> s.known, dirtyCount |-> s.dirtyCount,
          recordCount |-> s.recordCount]
  /\ s.rows = [i \in DOMAIN s.rows |-> s.rows[i]] /\ IsFiniteSet(DOMAIN s.rows)
  /\ s.known = [k \in DOMAIN s.known |-> s.known[k]]
  /\ \A k \in DOMAIN s.known : IsWindow(s.known[k])

(* Every window has its row, of its own kind, with its count or the last   *)
(* but one: so no two kinds share a row.                                   *)
FitsRow(w, k, rows) ==
  /\ w.id \in DOMAIN rows /\ rows[w.id].kind = k
  /\ rows[w.id].count = IF w.dirty THEN w.count - 1 ELSE w.count

Fits(s) == \A k \in DOMAIN s.known : FitsRow(s.known[k], k, s.rows)

InOrder(s) ==
  EventsShape(s) /\ Fits(s) /\ s.recordCount = Cardinality(DOMAIN s.rows)

(* The table exceeds its limit by no more rows than statements failed.     *)
EventsInv ==
  /\ eventFaults \in 0..MaxEventFaults /\ eventsOpen \in BOOLEAN
  /\ Cardinality(DOMAIN events.rows) <= EventLimit + eventFaults
  /\ EventsShape(events)
  /\ IF eventsOpen THEN InOrder(events) ELSE DOMAIN events.known = {}

-----------------------------------------------------------------------------
(* Writing a count leaves every row and every window where it is.          *)
WrittenOn(s, t) ==
  /\ InOrder(t) /\ DOMAIN t.rows = DOMAIN s.rows /\ DOMAIN t.known = DOMAIN s.known

(* Two kinds never count on the same row.                                  *)
LEMMA OneKindARow ==
  ASSUME NEW s, Fits(s), NEW j \in DOMAIN s.known, NEW k \in DOMAIN s.known,
         s.known[j].id = s.known[k].id
  PROVE  j = k
BY DEF Fits, FitsRow

(* A window written down agrees with its row.                              *)
LEMMA WrittenFits ==
  ASSUME NEW s, InOrder(s), NEW ks, ks \subseteq DOMAIN s.known
  PROVE  WrittenOn(s, Written(s, ks))
<1> DEFINE Target(i) == {k \in ks : s.known[k].id = i}
           RowOf(k) == [kind |-> k, at |-> s.known[k].at, count |-> s.known[k].count]
           W == Written(s, ks)
<1>1. /\ EventsShape(s) /\ Fits(s) /\ s.recordCount = Cardinality(DOMAIN s.rows)
      BY DEF InOrder
<1>2. /\ W = [rows |-> W.rows, known |-> W.known, dirtyCount |-> W.dirtyCount,
              recordCount |-> W.recordCount]
      /\ W.recordCount = s.recordCount
      /\ W.rows = [i \in DOMAIN s.rows |->
                     IF Target(i) = {} THEN s.rows[i] ELSE RowOf(CHOOSE k \in Target(i) : TRUE)]
      /\ W.known = [k \in DOMAIN s.known |->
                      IF k \in ks THEN [s.known[k] EXCEPT !.dirty = FALSE] ELSE s.known[k]]
  <2>1. PICK rows : rows = [i \in DOMAIN s.rows |->
                              IF Target(i) = {} THEN s.rows[i]
                              ELSE RowOf(CHOOSE k \in Target(i) : TRUE)]
        OBVIOUS
  <2>2. PICK known : known = [k \in DOMAIN s.known |->
                                IF k \in ks THEN [s.known[k] EXCEPT !.dirty = FALSE]
                                ELSE s.known[k]]
        OBVIOUS
  <2>3. PICK n : W = [s EXCEPT !.rows = rows, !.known = known, !.dirtyCount = n]
        BY <2>1, <2>2, Zenon DEF Written
  <2> HIDE DEF W, Target, RowOf
  <2>4. W = [rows |-> rows, known |-> known, dirtyCount |-> n, recordCount |-> s.recordCount]
        BY <1>1, <2>3 DEF EventsShape
  <2>5. W.rows = rows /\ W.known = known /\ W.recordCount = s.recordCount /\ W.dirtyCount = n
        BY <2>4
  <2> QED  BY <2>1, <2>2, <2>4, <2>5
<1> HIDE DEF W
<1>3. DOMAIN W.rows = DOMAIN s.rows /\ DOMAIN W.known = DOMAIN s.known
      BY <1>2
<1>4. ASSUME NEW k \in DOMAIN s.known
      PROVE  IsWindow(W.known[k]) /\ FitsRow(W.known[k], k, W.rows)
  <2> DEFINE i == s.known[k].id
  <2>1. IsWindow(s.known[k]) /\ FitsRow(s.known[k], k, s.rows)
        BY <1>1 DEF EventsShape, Fits
  <2>2. i \in DOMAIN s.rows
        BY <2>1 DEF FitsRow
  <2>3. W.rows[i] = IF Target(i) = {} THEN s.rows[i] ELSE RowOf(CHOOSE j \in Target(i) : TRUE)
        BY <1>2, <2>2
  <2>4. \A j \in Target(i) : j = k
        BY <1>1, OneKindARow
  <2>5. CASE k \in ks
    <3>1. Target(i) # {} /\ (CHOOSE j \in Target(i) : TRUE) = k
          BY <2>4, <2>5
    <3>2. W.rows[i] = RowOf(k)
          BY <2>3, <3>1
    <3>3. W.known[k] = [s.known[k] EXCEPT !.dirty = FALSE]
          BY <1>2, <2>5
    <3> DEFINE w == s.known[k]
    <3>4. PICK v : v = W.known[k]
          OBVIOUS
    <3>5. v = [id |-> w.id, at |-> w.at, count |-> w.count, counted |-> w.counted,
               dirty |-> FALSE]
          BY <2>1, <3>3, <3>4 DEF IsWindow
    <3>6. v.id = w.id /\ v.count = w.count /\ v.dirty = FALSE
          BY <3>5
    <3>7. W.rows[i].kind = k /\ W.rows[i].count = w.count
          BY <3>2
    <3>8. IsWindow(v)
          BY <2>1, <3>5, <3>6 DEF IsWindow
    <3>9. FitsRow(v, k, W.rows)
          BY <1>3, <2>2, <3>6, <3>7 DEF FitsRow
    <3> QED  BY <3>4, <3>8, <3>9
  <2>6. CASE k \notin ks
    <3>1. Target(i) = {}
          BY <2>4, <2>6
    <3>2. W.rows[i] = s.rows[i]
          BY <2>3, <3>1
    <3>3. W.known[k] = s.known[k]
          BY <1>2, <2>6
    <3> QED  BY <1>3, <2>1, <3>2, <3>3 DEF FitsRow
  <2> QED  BY <2>5, <2>6
<1>5. EventsShape(W)
      BY <1>1, <1>2, <1>3, <1>4 DEF EventsShape
<1>6. Fits(W)
      BY <1>3, <1>4 DEF Fits
<1>7. WrittenOn(s, W)
      BY <1>1, <1>2, <1>3, <1>5, <1>6 DEF WrittenOn, InOrder
<1> QED  BY <1>7 DEF W

(* So does a flush, and one that fails half-way.                           *)
LEMMA FlushedFits ==
  ASSUME NEW s, InOrder(s)
  PROVE  /\ WrittenOn(s, Flushed(s))
         /\ \A t \in HalfFlushed(s) : WrittenOn(s, t)
<1>1. Dirty(s) \subseteq DOMAIN s.known
      BY DEF Dirty
<1>2. WrittenOn(s, s)
      BY DEF WrittenOn
<1>3. WrittenOn(s, Flushed(s))
      BY <1>1, <1>2, WrittenFits DEF Flushed
<1>4. ASSUME NEW t \in HalfFlushed(s)
      PROVE  WrittenOn(s, t)
  <2>1. PICK ks \in SUBSET Dirty(s) : t = Written(s, ks)
        BY <1>4 DEF HalfFlushed
  <2> QED  BY <1>1, <2>1, WrittenFits
<1> QED  BY <1>3, <1>4

-----------------------------------------------------------------------------
(* Forgetting the windows leaves the table.                                *)
LEMMA WithoutFits ==
  ASSUME NEW s, InOrder(s)
  PROVE  /\ InOrder(Without(s)) /\ Without(s).rows = s.rows
         /\ DOMAIN Without(s).known = {}
<1>1. EventsShape(s) /\ s.recordCount = Cardinality(DOMAIN s.rows)
      BY DEF InOrder
<1>2. PICK w : w = Without(s)
      OBVIOUS
<1>3. w = [rows |-> s.rows, known |-> [k \in {} |-> 0], dirtyCount |-> 0,
           recordCount |-> s.recordCount]
      BY <1>1, <1>2 DEF Without, EventsShape
<1>4. w.rows = s.rows /\ w.known = [k \in {} |-> 0] /\ w.recordCount = s.recordCount
      BY <1>3
<1>5. DOMAIN w.known = {}
      BY <1>4
<1>6. EventsShape(w)
      BY <1>1, <1>3, <1>4, <1>5 DEF EventsShape
<1>7. Fits(w)
      BY <1>5 DEF Fits
<1> QED  BY <1>1, <1>2, <1>4, <1>5, <1>6, <1>7 DEF InOrder

(* A clean-up leaves at most the rows of the limit, as many as it counts,  *)
(* and every window that is remembered its row.                            *)
CleanedTable(t) == InOrder(t) /\ Cardinality(DOMAIN t.rows) <= EventLimit

LEMMA CleanedOfFits ==
  ASSUME NEW s, InOrder(s), NEW gone, gone \subseteq DOMAIN s.rows,
         Cardinality(DOMAIN s.rows \ gone) <= EventLimit,
         NEW t \in CleanedOf(s, gone)
  PROVE  CleanedTable(t)
<1> DEFINE left == [s EXCEPT !.rows = Restrict(@, DOMAIN @ \ gone),
                             !.recordCount = IF @ <= Cardinality(gone) THEN 0
                                             ELSE @ - Cardinality(gone)]
<1>1. EventsShape(s) /\ Fits(s) /\ s.recordCount = Cardinality(DOMAIN s.rows)
      BY DEF InOrder
<1>2. PICK l : l = left
      OBVIOUS
<1>3. /\ l = [rows |-> l.rows, known |-> l.known, dirtyCount |-> l.dirtyCount,
              recordCount |-> l.recordCount]
      /\ l.rows = [i \in DOMAIN s.rows \ gone |-> s.rows[i]]
      /\ l.known = s.known
      /\ l.recordCount = IF s.recordCount <= Cardinality(gone) THEN 0
                         ELSE s.recordCount - Cardinality(gone)
      BY <1>1, <1>2 DEF EventsShape, Restrict
<1>4. DOMAIN l.rows = DOMAIN s.rows \ gone
      BY <1>3
<1>5. IsFiniteSet(DOMAIN l.rows) /\ l.recordCount = Cardinality(DOMAIN l.rows)
  <2>1. IsFiniteSet(DOMAIN s.rows)
        BY <1>1 DEF EventsShape
  <2>2. gone \in SUBSET DOMAIN s.rows /\ DOMAIN s.rows \cap gone = gone
        OBVIOUS
  <2>3. /\ IsFiniteSet(DOMAIN s.rows \ gone)
        /\ Cardinality(DOMAIN s.rows \ gone) = Cardinality(DOMAIN s.rows) - Cardinality(gone)
        BY <2>1, <2>2, FS_Difference
  <2>4. Cardinality(gone) <= Cardinality(DOMAIN s.rows) /\ IsFiniteSet(gone)
        BY <2>1, <2>2, FS_Subset
  <2>5. Cardinality(gone) \in Nat /\ Cardinality(DOMAIN s.rows) \in Nat
        BY <2>1, <2>4, FS_CardinalityType
  <2> QED  BY <1>1, <1>3, <1>4, <2>3, <2>4, <2>5
<1>6. Cardinality(DOMAIN l.rows) <= EventLimit
      BY <1>4
<1>7. \A k \in DOMAIN s.known : s.known[k].id \in DOMAIN l.rows =>
        FitsRow(s.known[k], k, l.rows)
      BY <1>1, <1>3, <1>4 DEF Fits, FitsRow
<1>8. CASE gone = {} \/ DOMAIN s.known = {}
  <2>1. t = l
        BY <1>2, <1>8 DEF CleanedOf
  <2>2. \A k \in DOMAIN l.known : s.known[k].id \in DOMAIN l.rows
        BY <1>1, <1>3, <1>4, <1>8 DEF Fits, FitsRow
  <2>3. EventsShape(l) /\ Fits(l)
        BY <1>1, <1>3, <1>4, <1>5, <1>7, <2>2 DEF EventsShape, Fits
  <2> QED  BY <1>5, <1>6, <2>1, <2>3 DEF CleanedTable, InOrder
<1>9. CASE ~(gone = {} \/ DOMAIN s.known = {})
  <2>1. PICK known \in Remembered(l) : t = [l EXCEPT !.known = known, !.dirtyCount = 0]
        BY <1>2, <1>9 DEF CleanedOf
  <2> DEFINE stay == {k \in DOMAIN s.known : s.known[k].id \in DOMAIN l.rows}
  <2>2. known = [k \in stay |-> s.known[k]]
        BY <1>3, <2>1 DEF Remembered, Restrict
  <2>3. /\ t = [rows |-> l.rows, known |-> known, dirtyCount |-> 0, recordCount |-> l.recordCount]
        BY <1>3, <2>1
  <2>4. t.rows = l.rows /\ t.known = known /\ t.recordCount = l.recordCount /\ t.dirtyCount = 0
        BY <2>3
  <2>5. DOMAIN t.known = stay /\ \A k \in stay : t.known[k] = s.known[k]
        BY <2>2, <2>4
  <2>6. EventsShape(t)
        BY <1>1, <1>3, <1>4, <1>5, <2>2, <2>3, <2>4, <2>5 DEF EventsShape
  <2>7. Fits(t)
        BY <1>7, <2>4, <2>5 DEF Fits
  <2> QED  BY <1>5, <1>6, <2>4, <2>6, <2>7 DEF CleanedTable, InOrder
<1> QED  BY <1>8, <1>9

LEMMA CleanedFits ==
  ASSUME NEW s, InOrder(s)
  PROVE  /\ \A t \in Cleaned(s) : CleanedTable(t)
         /\ \A t \in HalfCleaned(s) :
              InOrder(t) /\ (t = s \/ Cardinality(DOMAIN t.rows) <= EventLimit)
<1>1. ASSUME NEW t \in Cleaned(s)
      PROVE  CleanedTable(t)
  <2> DEFINE left == DOMAIN s.rows \ Expired(s.rows)
  <2>1. PICK over \in Overflowing(s.rows, Expired(s.rows)) :
          t \in CleanedOf(s, Expired(s.rows) \cup over)
        BY <1>1 DEF Cleaned
  <2>2. /\ over \subseteq left
        /\ Cardinality(left \ over) = IF Cardinality(left) > EventLimit THEN EventLimit
                                      ELSE Cardinality(left)
        BY <2>1 DEF Overflowing
  <2>3. IsFiniteSet(left)
    <3>1. IsFiniteSet(DOMAIN s.rows)
          BY DEF InOrder, EventsShape
    <3>2. left \in SUBSET DOMAIN s.rows
          OBVIOUS
    <3> QED  BY <3>1, <3>2, FS_Subset
  <2>4. Cardinality(left \ over) <= EventLimit
        BY <2>2, <2>3, FS_CardinalityType, EventAssumption
  <2>5. Expired(s.rows) \cup over \subseteq DOMAIN s.rows
        BY <2>2 DEF Expired
  <2>6. DOMAIN s.rows \ (Expired(s.rows) \cup over) = left \ over
        OBVIOUS
  <2>7. PICK gone : gone = Expired(s.rows) \cup over
        OBVIOUS
  <2>8. /\ gone \subseteq DOMAIN s.rows /\ t \in CleanedOf(s, gone)
        /\ Cardinality(DOMAIN s.rows \ gone) <= EventLimit
        BY <2>1, <2>4, <2>5, <2>6, <2>7
  <2> QED  BY <2>8, CleanedOfFits
<1>2. ASSUME NEW t \in HalfCleaned(s)
      PROVE  InOrder(t) /\ (t = s \/ Cardinality(DOMAIN t.rows) <= EventLimit)
  <2>1. CASE t = s
        BY <2>1
  <2>2. CASE t # s
    <3>1. PICK c \in Cleaned(s) : t = Without(c)
          BY <1>2, <2>2 DEF HalfCleaned
    <3>2. InOrder(c) /\ Cardinality(DOMAIN c.rows) <= EventLimit
          BY <1>1, <3>1 DEF CleanedTable
    <3> QED  BY <3>1, <3>2, WithoutFits
  <2> QED  BY <2>1, <2>2
<1> QED  BY <1>1, <1>2

-----------------------------------------------------------------------------
(* A row is inserted beside those there are.                               *)
InsertedTo(s, i, k, t) ==
  /\ InOrder(t) /\ t.known = s.known
  /\ Cardinality(DOMAIN t.rows) = Cardinality(DOMAIN s.rows) + 1
  /\ i \in DOMAIN t.rows /\ t.rows[i].kind = k /\ t.rows[i].count = 1

LEMMA InsertedFits ==
  ASSUME NEW s, InOrder(s), NEW i, i \notin DOMAIN s.rows, NEW k, NEW t
  PROVE  InsertedTo(s, i, k, Inserted(s, i, k, t))
<1>1. EventsShape(s) /\ Fits(s) /\ s.recordCount = Cardinality(DOMAIN s.rows)
      BY DEF InOrder
<1>2. PICK rows : rows = [j \in DOMAIN s.rows \cup {i} |-> IF j = i THEN Row(k, t) ELSE s.rows[j]]
      OBVIOUS
<1>3. PICK w : w = Inserted(s, i, k, t)
      OBVIOUS
<1>4. w = [s EXCEPT !.rows = rows, !.recordCount = s.recordCount + 1]
      BY <1>2, <1>3 DEF Inserted
<1>5. w = [rows |-> rows, known |-> s.known, dirtyCount |-> s.dirtyCount,
           recordCount |-> s.recordCount + 1]
      BY <1>1, <1>4 DEF EventsShape
<1>6. /\ w.rows = rows /\ w.known = s.known /\ w.recordCount = s.recordCount + 1
      /\ w.dirtyCount = s.dirtyCount
      BY <1>5
<1>7. DOMAIN rows = DOMAIN s.rows \cup {i}
      BY <1>2
<1>8. /\ IsFiniteSet(DOMAIN rows)
      /\ Cardinality(DOMAIN rows) = Cardinality(DOMAIN s.rows) + 1
      BY <1>1, <1>7, FS_AddElement DEF EventsShape
<1>9. EventsShape(w)
      BY <1>1, <1>2, <1>5, <1>6, <1>7, <1>8 DEF EventsShape
<1>10. Fits(w)
  <2>1. ASSUME NEW j \in DOMAIN s.known
        PROVE  FitsRow(s.known[j], j, rows)
    <3>1. FitsRow(s.known[j], j, s.rows)
          BY <1>1 DEF Fits
    <3>2. s.known[j].id \in DOMAIN s.rows /\ s.known[j].id # i
          BY <3>1 DEF FitsRow
    <3>3. rows[s.known[j].id] = s.rows[s.known[j].id]
          BY <1>2, <3>2
    <3> QED  BY <1>7, <3>1, <3>2, <3>3 DEF FitsRow
  <2> QED  BY <1>6, <2>1 DEF Fits
<1>11. i \in DOMAIN rows /\ rows[i].kind = k /\ rows[i].count = 1
      BY <1>2, <1>7 DEF Row
<1> QED  BY <1>1, <1>3, <1>6, <1>8, <1>9, <1>10, <1>11 DEF InsertedTo, InOrder

(* There is an identity no row has and no window counts on.                *)
LEMMA FreshIsNew ==
  ASSUME NEW s, InOrder(s), Cardinality(DOMAIN s.rows) <= EventLimit + MaxEventFaults
  PROVE  Fresh(s) \notin DOMAIN s.rows
<1> DEFINE n == EventLimit + MaxEventFaults + 2
           Taken == DOMAIN s.rows \cup {s.known[k].id : k \in DOMAIN s.known}
<1>1. Taken = DOMAIN s.rows
      BY DEF InOrder, Fits, FitsRow
<1>2. IsFiniteSet(DOMAIN s.rows) /\ Cardinality(DOMAIN s.rows) \in Nat
      BY FS_CardinalityType DEF InOrder, EventsShape
<1>3. n \in Nat /\ n >= 1
      BY EventAssumption
<1>4. Cardinality(1..n) = n
      BY <1>3, FS_Interval
<1>5. ~(1..n \subseteq DOMAIN s.rows)
  <2> SUFFICES ASSUME 1..n \subseteq DOMAIN s.rows
               PROVE  FALSE
      OBVIOUS
  <2>1. PICK S : S = 1..n
        OBVIOUS
  <2>2. S \in SUBSET DOMAIN s.rows
        BY <2>1
  <2>3. Cardinality(S) <= Cardinality(DOMAIN s.rows)
        BY <1>2, <2>2, FS_Subset
  <2> QED  BY <1>2, <1>3, <1>4, <2>1, <2>3, EventAssumption
<1>6. \E i \in 1..n : i \notin Taken
      BY <1>1, <1>5
<1>7. Fresh(s) \notin Taken
      BY <1>6 DEF Fresh
<1> QED  BY <1>1, <1>7

(* The first of a kind is counted on the row it makes.                     *)
LEMMA LearnedFits ==
  ASSUME NEW s, InOrder(s), Cardinality(DOMAIN s.rows) <= EventLimit + MaxEventFaults,
         NEW k, k \notin DOMAIN s.known
  PROVE  /\ InOrder(Learned(s, k))
         /\ Cardinality(DOMAIN Learned(s, k).rows) = Cardinality(DOMAIN s.rows) + 1
<1>1. PICK i : i = Fresh(s)
      OBVIOUS
<1>2. i \notin DOMAIN s.rows
      BY <1>1, FreshIsNew
<1>3. PICK u : u = Inserted(s, i, k, clock)
      OBVIOUS
<1>4. InsertedTo(s, i, k, u)
      BY <1>2, <1>3, InsertedFits
<1>5. PICK w : w = [id |-> i, at |-> clock, count |-> 1, counted |-> clock, dirty |-> FALSE]
      OBVIOUS
<1>6. PICK known : known = [j \in DOMAIN s.known \cup {k} |-> IF j = k THEN w ELSE s.known[j]]
      OBVIOUS
<1>7. PICK v : v = Learned(s, k)
      OBVIOUS
<1>8. u.known = s.known
      BY <1>4 DEF InsertedTo
<1>9. v = [u EXCEPT !.known = known]
      BY <1>1, <1>3, <1>5, <1>6, <1>7, <1>8 DEF Learned
<1>10. EventsShape(u) /\ Fits(u) /\ u.recordCount = Cardinality(DOMAIN u.rows)
      BY <1>4 DEF InsertedTo, InOrder
<1>11. v = [rows |-> u.rows, known |-> known, dirtyCount |-> u.dirtyCount,
            recordCount |-> u.recordCount]
      BY <1>9, <1>10 DEF EventsShape
<1>12. /\ v.rows = u.rows /\ v.known = known /\ v.dirtyCount = u.dirtyCount
       /\ v.recordCount = u.recordCount
      BY <1>11
<1>13. DOMAIN known = DOMAIN s.known \cup {k}
      BY <1>6
<1>14. w.id = i /\ w.count = 1 /\ w.dirty = FALSE /\ IsWindow(w)
      BY <1>5 DEF IsWindow
<1>15. known[k] = w /\ \A j \in DOMAIN s.known : known[j] = s.known[j]
      BY <1>6
<1>16. \A j \in DOMAIN known : IsWindow(known[j])
      BY <1>8, <1>10, <1>13, <1>14, <1>15 DEF EventsShape
<1>17. \A j \in DOMAIN known : FitsRow(known[j], j, u.rows)
  <2>1. FitsRow(w, k, u.rows)
        BY <1>4, <1>14 DEF InsertedTo, FitsRow
  <2>2. \A j \in DOMAIN s.known : FitsRow(s.known[j], j, u.rows)
        BY <1>8, <1>10 DEF Fits
  <2> QED  BY <1>13, <1>15, <2>1, <2>2
<1>18. EventsShape(v)
      BY <1>6, <1>10, <1>11, <1>12, <1>13, <1>16 DEF EventsShape
<1>19. Fits(v)
      BY <1>12, <1>17 DEF Fits
<1> QED  BY <1>4, <1>7, <1>10, <1>12, <1>18, <1>19 DEF InsertedTo, InOrder

(* A repetition is one more than is written.                               *)
LEMMA RepeatedFits ==
  ASSUME NEW s, InOrder(s), NEW k \in DOMAIN s.known, ~s.known[k].dirty
  PROVE  WrittenOn(s, Repeated(s, k))
<1>1. EventsShape(s) /\ Fits(s) /\ s.recordCount = Cardinality(DOMAIN s.rows)
      BY DEF InOrder
<1>2. IsWindow(s.known[k]) /\ FitsRow(s.known[k], k, s.rows)
      BY <1>1 DEF EventsShape, Fits
<1>3. PICK w : w = [s.known[k] EXCEPT !.at = clock, !.count = @ + 1, !.counted = clock,
                                      !.dirty = TRUE]
      OBVIOUS
<1>4. w = [id |-> s.known[k].id, at |-> clock, count |-> s.known[k].count + 1,
           counted |-> clock, dirty |-> TRUE]
      BY <1>2, <1>3 DEF IsWindow
<1>5. w.id = s.known[k].id /\ w.count = s.known[k].count + 1 /\ w.dirty = TRUE
      BY <1>4
<1>6. IsWindow(w) /\ FitsRow(w, k, s.rows)
      BY <1>2, <1>4, <1>5 DEF IsWindow, FitsRow
<1>7. PICK known : known = [s.known EXCEPT ![k] = w]
      OBVIOUS
<1>8. PICK v : v = Repeated(s, k)
      OBVIOUS
<1>9. v = [s EXCEPT !.known = known, !.dirtyCount = s.dirtyCount + 1]
      BY <1>1, <1>3, <1>7, <1>8 DEF Repeated, EventsShape
<1>10. v = [rows |-> s.rows, known |-> known, dirtyCount |-> s.dirtyCount + 1,
            recordCount |-> s.recordCount]
      BY <1>1, <1>9 DEF EventsShape
<1>11. v.rows = s.rows /\ v.known = known /\ v.recordCount = s.recordCount
       /\ v.dirtyCount = s.dirtyCount + 1
      BY <1>10
<1>12. /\ DOMAIN known = DOMAIN s.known /\ known = [j \in DOMAIN known |-> known[j]]
       /\ known[k] = w /\ \A j \in DOMAIN s.known \ {k} : known[j] = s.known[j]
      BY <1>7
<1>13. EventsShape(v)
      BY <1>1, <1>6, <1>10, <1>11, <1>12 DEF EventsShape
<1>14. Fits(v)
      BY <1>1, <1>6, <1>11, <1>12 DEF Fits
<1> QED  BY <1>1, <1>8, <1>11, <1>12, <1>13, <1>14 DEF WrittenOn, InOrder

-----------------------------------------------------------------------------
(* What a step of the open table may leave.                                *)
LEMMA OpenStep ==
  ASSUME EventsInv, eventsOpen, eventsOpen' = eventsOpen, InOrder(events)',
         \/ eventFaults' = eventFaults
         \/ EventFault,
         \/ Cardinality(DOMAIN events'.rows) <= Cardinality(DOMAIN events.rows)
         \/ Cardinality(DOMAIN events'.rows) <= EventLimit
         \/ EventFault /\ Cardinality(DOMAIN events'.rows) <= Cardinality(DOMAIN events.rows) + 1
  PROVE  EventsInv'
<1>1. EventsShape(events')
      BY DEF InOrder
<1>2. /\ eventFaults \in 0..MaxEventFaults
      /\ Cardinality(DOMAIN events.rows) <= EventLimit + eventFaults
      /\ IsFiniteSet(DOMAIN events.rows) /\ IsFiniteSet(DOMAIN events'.rows)
      BY <1>1 DEF EventsInv, EventsShape
<1>3. /\ Cardinality(DOMAIN events.rows) \in Nat
      /\ Cardinality(DOMAIN events'.rows) \in Nat
      BY <1>2, FS_CardinalityType
<1>4. /\ eventFaults' \in 0..MaxEventFaults
      /\ Cardinality(DOMAIN events'.rows) <= EventLimit + eventFaults'
      BY <1>2, <1>3, EventAssumption DEF EventFault
<1> QED  BY <1>1, <1>4 DEF EventsInv

LEMMA OpenTable ==
  ASSUME EventsInv, eventsOpen
  PROVE  /\ InOrder(events)
         /\ Cardinality(DOMAIN events.rows) <= EventLimit + eventFaults
         /\ Cardinality(DOMAIN events.rows) <= EventLimit + MaxEventFaults
         /\ Cardinality(DOMAIN events.rows) \in Nat
<1>1. IsFiniteSet(DOMAIN events.rows)
      BY DEF EventsInv, EventsShape
<1>2. Cardinality(DOMAIN events.rows) \in Nat
      BY <1>1, FS_CardinalityType
<1> QED  BY <1>2, EventAssumption DEF EventsInv

(* The events of the service.                                              *)
LEMMA AppendNewKeeps ==
  ASSUME EventsInv, NEW k, AppendNew(k)
  PROVE  EventsInv'
<1>1. PICK s : s = Learned(events, k)
      OBVIOUS
<1>2. /\ eventsOpen /\ eventsOpen' = eventsOpen /\ k \notin DOMAIN events.known
      /\ \/ s.recordCount <= EventLimit /\ events' = s /\ eventFaults' = eventFaults
         \/ events' \in Cleaned(Flushed(s)) /\ eventFaults' = eventFaults
         \/ events' \in HalfFlushed(s) \cup HalfCleaned(Flushed(s)) /\ EventFault
      BY <1>1 DEF AppendNew, NoEventFault
<1>3. /\ InOrder(s)
      /\ Cardinality(DOMAIN s.rows) = Cardinality(DOMAIN events.rows) + 1
      BY <1>1, <1>2, OpenTable, LearnedFits
<1>4. s.recordCount = Cardinality(DOMAIN s.rows)
      BY <1>3 DEF InOrder
<1>5. PICK f : f = Flushed(s)
      OBVIOUS
<1>6. InOrder(f) /\ DOMAIN f.rows = DOMAIN s.rows
      BY <1>3, <1>5, FlushedFits DEF WrittenOn
<1>7. CASE s.recordCount <= EventLimit /\ events' = s /\ eventFaults' = eventFaults
      BY <1>2, <1>3, <1>4, <1>7, OpenStep
<1>8. CASE events' \in Cleaned(Flushed(s)) /\ eventFaults' = eventFaults
  <2>1. InOrder(events') /\ Cardinality(DOMAIN events'.rows) <= EventLimit
        BY <1>5, <1>6, <1>8, CleanedFits DEF CleanedTable
  <2> QED  BY <1>2, <1>8, <2>1, OpenStep
<1>9. CASE events' \in HalfFlushed(s) \cup HalfCleaned(Flushed(s)) /\ EventFault
  <2>1. /\ InOrder(events')
        /\ \/ Cardinality(DOMAIN events'.rows) <= EventLimit
           \/ DOMAIN events'.rows = DOMAIN s.rows
    <3>1. CASE events' \in HalfFlushed(s)
          BY <1>3, <3>1, FlushedFits DEF WrittenOn
    <3>2. CASE events' \in HalfCleaned(f)
          BY <1>6, <3>2, CleanedFits
    <3> QED  BY <1>5, <1>9, <3>1, <3>2
  <2>2. \/ Cardinality(DOMAIN events'.rows) <= EventLimit
        \/ Cardinality(DOMAIN events'.rows) <= Cardinality(DOMAIN events.rows) + 1
        BY <1>2, <1>3, <2>1, OpenTable
  <2> QED  BY <1>2, <1>9, <2>1, <2>2, OpenStep
<1> QED  BY <1>2, <1>7, <1>8, <1>9

(* What leaves every row in its place.                                     *)
LEMMA WrittenStep ==
  ASSUME EventsInv, eventsOpen, eventsOpen' = eventsOpen, WrittenOn(events, events'),
         eventFaults' = eventFaults \/ EventFault
  PROVE  EventsInv'
<1>1. InOrder(events') /\ DOMAIN events'.rows = DOMAIN events.rows
      BY DEF WrittenOn
<1>2. Cardinality(DOMAIN events'.rows) <= Cardinality(DOMAIN events.rows)
      BY <1>1, OpenTable
<1> QED  BY <1>1, <1>2, OpenStep

LEMMA AppendRetriesKeeps ==
  ASSUME EventsInv, NEW k, AppendRetries(k)
  PROVE  EventsInv'
<1>1. /\ eventsOpen /\ eventsOpen' = eventsOpen /\ eventFaults' = eventFaults
      /\ k \in DOMAIN events.known /\ events' = Written(events, {k})
      BY DEF AppendRetries, NoEventFault, Dirty
<1>2. WrittenOn(events, events')
      BY <1>1, OpenTable, WrittenFits
<1> QED  BY <1>1, <1>2, WrittenStep

LEMMA AppendCountsKeeps ==
  ASSUME EventsInv, NEW k, AppendCounts(k)
  PROVE  EventsInv'
<1>1. /\ eventsOpen /\ eventsOpen' = eventsOpen
      /\ eventFaults' = eventFaults \/ EventFault
      /\ k \in DOMAIN events.known /\ ~events.known[k].dirty
      /\ events' = Written(Repeated(events, k), {k}) \/ events' = Repeated(events, k)
      BY DEF AppendCounts, NoEventFault, Dirty
<1>2. PICK r : r = Repeated(events, k)
      OBVIOUS
<1>3. WrittenOn(events, r)
      BY <1>1, <1>2, OpenTable, RepeatedFits
<1>4. WrittenOn(r, Written(r, {k}))
      BY <1>1, <1>3, WrittenFits DEF WrittenOn
<1>5. WrittenOn(events, events')
      BY <1>1, <1>2, <1>3, <1>4 DEF WrittenOn
<1> QED  BY <1>1, <1>5, WrittenStep

LEMMA SaveKeeps ==
  ASSUME EventsInv, SaveEvents
  PROVE  EventsInv'
<1>1. /\ eventsOpen /\ eventsOpen' = eventsOpen
      /\ eventFaults' = eventFaults \/ EventFault
      /\ events' = Flushed(events) \/ events' \in HalfFlushed(events)
      BY DEF SaveEvents, NoEventFault
<1>2. WrittenOn(events, events')
      BY <1>1, OpenTable, FlushedFits
<1> QED  BY <1>1, <1>2, WrittenStep

(* An alarm event.                                                         *)
LEMMA AppendAlarmKeeps ==
  ASSUME EventsInv, NEW i, NEW t, AppendAlarm(i, t)
  PROVE  EventsInv'
<1>1. PICK s : s = Inserted(events, i, i, t)
      OBVIOUS
<1>2. /\ eventsOpen /\ eventsOpen' = eventsOpen /\ i \notin DOMAIN events.rows
      /\ \/ events' \in Cleaned(s) /\ eventFaults' = eventFaults
         \/ events' \in HalfCleaned(s) /\ EventFault
      BY <1>1 DEF AppendAlarm, NoEventFault
<1>3. /\ InOrder(s)
      /\ Cardinality(DOMAIN s.rows) = Cardinality(DOMAIN events.rows) + 1
      BY <1>1, <1>2, OpenTable, InsertedFits DEF InsertedTo
<1>4. CASE events' \in Cleaned(s) /\ eventFaults' = eventFaults
  <2>1. InOrder(events') /\ Cardinality(DOMAIN events'.rows) <= EventLimit
        BY <1>3, <1>4, CleanedFits DEF CleanedTable
  <2> QED  BY <1>2, <1>4, <2>1, OpenStep
<1>5. CASE events' \in HalfCleaned(s) /\ EventFault
  <2>1. /\ InOrder(events')
        /\ \/ events' = s
           \/ Cardinality(DOMAIN events'.rows) <= EventLimit
        BY <1>3, <1>5, CleanedFits
  <2>2. \/ Cardinality(DOMAIN events'.rows) <= EventLimit
        \/ Cardinality(DOMAIN events'.rows) <= Cardinality(DOMAIN events.rows) + 1
        BY <1>2, <1>3, <2>1, OpenTable
  <2> QED  BY <1>2, <1>5, <2>1, <2>2, OpenStep
<1> QED  BY <1>2, <1>4, <1>5

(* The clean-up, the clearing and the change of the clock.                 *)
LEMMA CleanUpKeeps ==
  ASSUME EventsInv, CleanUpEvents
  PROVE  EventsInv'
<1>1. PICK f : f = Flushed(events)
      OBVIOUS
<1>2. /\ eventsOpen /\ eventsOpen' = eventsOpen
      /\ eventFaults' = eventFaults \/ EventFault
      /\ events' \in Cleaned(f) \/ events' \in HalfFlushed(events) \/ events' \in HalfCleaned(f)
      BY <1>1 DEF CleanUpEvents, NoEventFault
<1>3. InOrder(f) /\ DOMAIN f.rows = DOMAIN events.rows
      BY <1>1, <1>2, OpenTable, FlushedFits DEF WrittenOn
<1>4. /\ InOrder(events')
      /\ \/ Cardinality(DOMAIN events'.rows) <= EventLimit
         \/ DOMAIN events'.rows = DOMAIN events.rows
  <2>1. CASE events' \in Cleaned(f)
        BY <1>3, <2>1, CleanedFits DEF CleanedTable
  <2>2. CASE events' \in HalfFlushed(events)
        BY <1>2, <2>2, OpenTable, FlushedFits DEF WrittenOn
  <2>3. CASE events' \in HalfCleaned(f)
        BY <1>3, <2>3, CleanedFits
  <2> QED  BY <1>2, <2>1, <2>2, <2>3
<1>5. \/ Cardinality(DOMAIN events'.rows) <= EventLimit
      \/ Cardinality(DOMAIN events'.rows) <= Cardinality(DOMAIN events.rows)
      BY <1>2, <1>4, OpenTable
<1> QED  BY <1>2, <1>4, <1>5, OpenStep

LEMMA ClearKeeps ==
  ASSUME EventsInv, ClearEvents
  PROVE  EventsInv'
<1>1. PICK w : w = Without(events)
      OBVIOUS
<1>2. /\ eventsOpen /\ eventsOpen' = eventsOpen
      /\ eventFaults' = eventFaults \/ EventFault
      /\ events' = [w EXCEPT !.rows = [i \in {} |-> 0], !.recordCount = 0] \/ events' = w
      BY <1>1 DEF ClearEvents, NoEventFault
<1>3. InOrder(w) /\ w.rows = events.rows /\ DOMAIN w.known = {}
      BY <1>1, <1>2, OpenTable, WithoutFits
<1>4. CASE events' = w
  <2>1. Cardinality(DOMAIN events'.rows) <= Cardinality(DOMAIN events.rows)
        BY <1>2, <1>3, <1>4, OpenTable
  <2> QED  BY <1>2, <1>3, <1>4, <2>1, OpenStep
<1>5. CASE events' = [w EXCEPT !.rows = [i \in {} |-> 0], !.recordCount = 0]
  <2>1. EventsShape(w)
        BY <1>3 DEF InOrder
  <2>2. PICK e : e = events'
        OBVIOUS
  <2>3. e = [rows |-> [i \in {} |-> 0], known |-> w.known, dirtyCount |-> w.dirtyCount,
             recordCount |-> 0]
        BY <1>5, <2>1, <2>2 DEF EventsShape
  <2>4. e.rows = [i \in {} |-> 0] /\ e.known = w.known /\ e.recordCount = 0
        BY <2>3
  <2>5. DOMAIN e.rows = {} /\ DOMAIN e.known = {}
        BY <1>3, <2>4
  <2>6. IsFiniteSet(DOMAIN e.rows) /\ Cardinality(DOMAIN e.rows) = 0
        BY <2>5, FS_EmptySet
  <2>7. EventsShape(e) /\ Fits(e)
        BY <2>1, <2>3, <2>4, <2>5, <2>6 DEF EventsShape, Fits
  <2>8. InOrder(e)
        BY <2>4, <2>6, <2>7 DEF InOrder
  <2>9. Cardinality(DOMAIN e.rows) <= EventLimit
        BY <2>6, EventAssumption
  <2> QED  BY <1>2, <2>2, <2>8, <2>9, OpenStep
<1> QED  BY <1>2, <1>4, <1>5

LEMMA ResetKeeps ==
  ASSUME EventsInv, ResetWindows
  PROVE  EventsInv'
<1>1. PICK f : f = Flushed(events)
      OBVIOUS
<1>2. /\ eventsOpen /\ eventsOpen' = eventsOpen
      /\ eventFaults' = eventFaults \/ EventFault
      /\ events' = Without(f) \/ events' \in HalfFlushed(events)
      BY <1>1 DEF ResetWindows, NoEventFault
<1>3. InOrder(f) /\ DOMAIN f.rows = DOMAIN events.rows
      BY <1>1, <1>2, OpenTable, FlushedFits DEF WrittenOn
<1>4. InOrder(Without(f)) /\ Without(f).rows = f.rows
      BY <1>3, WithoutFits
<1>5. \A t \in HalfFlushed(events) : InOrder(t) /\ DOMAIN t.rows = DOMAIN events.rows
      BY <1>2, OpenTable, FlushedFits DEF WrittenOn
<1>6. InOrder(events') /\ DOMAIN events'.rows = DOMAIN events.rows
      BY <1>2, <1>3, <1>4, <1>5
<1>7. Cardinality(DOMAIN events'.rows) <= Cardinality(DOMAIN events.rows)
      BY <1>2, <1>6, OpenTable
<1> QED  BY <1>2, <1>6, <1>7, OpenStep

LEMMA ClockKeeps ==
  ASSUME EventsInv, NEW t, ClockMoves(t)
  PROVE  EventsInv'
<1>1. /\ events' = events /\ eventsOpen' = eventsOpen
      /\ eventFaults' = eventFaults \/ EventFault
      BY DEF ClockMoves, NoEventFault
<1>2. CASE eventsOpen
  <2>1. Cardinality(DOMAIN events'.rows) <= Cardinality(DOMAIN events.rows)
        BY <1>1, <1>2, OpenTable
  <2> QED  BY <1>1, <1>2, <2>1, OpenTable, OpenStep
<1>3. CASE ~eventsOpen
  <2>1. IsFiniteSet(DOMAIN events.rows)
        BY DEF EventsInv, EventsShape
  <2>2. Cardinality(DOMAIN events.rows) \in Nat
        BY <2>1, FS_CardinalityType
  <2> QED  BY <1>1, <1>3, <2>2, EventAssumption DEF EventsInv, EventFault
<1> QED  BY <1>2, <1>3

(* The table is opened, and the process ends.                              *)
LEMMA OpenKeeps ==
  ASSUME EventsInv, OpenEvents
  PROVE  EventsInv'
<1>1. /\ ~eventsOpen /\ eventsOpen' = TRUE /\ eventFaults' = eventFaults
      /\ events' = [events EXCEPT !.recordCount = Cardinality(DOMAIN events.rows)]
      BY DEF OpenEvents, NoEventFault
<1>2. EventsShape(events) /\ DOMAIN events.known = {}
      BY <1>1 DEF EventsInv
<1>3. PICK e : e = events'
      OBVIOUS
<1>4. e = [rows |-> events.rows, known |-> events.known, dirtyCount |-> events.dirtyCount,
           recordCount |-> Cardinality(DOMAIN events.rows)]
      BY <1>1, <1>2, <1>3 DEF EventsShape
<1>5. /\ e.rows = events.rows /\ e.known = events.known /\ e.dirtyCount = events.dirtyCount
      /\ e.recordCount = Cardinality(DOMAIN events.rows)
      BY <1>4
<1>6. EventsShape(e) /\ Fits(e)
      BY <1>2, <1>4, <1>5 DEF EventsShape, Fits
<1>7. InOrder(e)
      BY <1>5, <1>6 DEF InOrder
<1> QED  BY <1>1, <1>3, <1>5, <1>6, <1>7 DEF EventsInv

LEMMA CrashKeeps ==
  ASSUME EventsInv, CrashEvents
  PROVE  EventsInv'
<1>1. PICK w : w = Without(events)
      OBVIOUS
<1>2. /\ eventsOpen /\ eventsOpen' = FALSE /\ EventFault
      /\ events' = [w EXCEPT !.recordCount = 0]
      BY <1>1 DEF CrashEvents
<1>3. InOrder(w) /\ w.rows = events.rows /\ DOMAIN w.known = {}
      BY <1>1, <1>2, OpenTable, WithoutFits
<1>4. EventsShape(w)
      BY <1>3 DEF InOrder
<1>5. PICK e : e = events'
      OBVIOUS
<1>6. e = [rows |-> w.rows, known |-> w.known, dirtyCount |-> w.dirtyCount, recordCount |-> 0]
      BY <1>2, <1>4, <1>5 DEF EventsShape
<1>7. e.rows = w.rows /\ e.known = w.known /\ e.dirtyCount = w.dirtyCount /\ e.recordCount = 0
      BY <1>6
<1>8. EventsShape(e) /\ DOMAIN e.known = {}
      BY <1>3, <1>4, <1>6, <1>7 DEF EventsShape
<1>9. /\ eventFaults' \in 0..MaxEventFaults
      /\ Cardinality(DOMAIN e.rows) <= EventLimit + eventFaults'
  <2>1. /\ eventFaults \in 0..MaxEventFaults
        /\ Cardinality(DOMAIN events.rows) \in Nat
        /\ Cardinality(DOMAIN events.rows) <= EventLimit + eventFaults
        BY <1>2, OpenTable DEF EventsInv
  <2> QED  BY <1>2, <1>3, <1>7, <2>1, EventAssumption DEF EventFault
<1> QED  BY <1>2, <1>5, <1>8, <1>9 DEF EventsInv

-----------------------------------------------------------------------------
LEMMA EventsStart ==
  EventsInit => EventsInv
<1> SUFFICES ASSUME EventsInit
             PROVE  EventsInv
    OBVIOUS
<1>1. /\ events.rows = [i \in {} |-> 0] /\ events.known = [k \in {} |-> 0]
      /\ events = [rows |-> events.rows, known |-> events.known,
                   dirtyCount |-> events.dirtyCount, recordCount |-> events.recordCount]
      /\ ~eventsOpen /\ eventsOpen \in BOOLEAN /\ eventFaults = 0
      BY DEF EventsInit
<1>2. DOMAIN events.rows = {} /\ DOMAIN events.known = {}
      BY <1>1
<1>3. IsFiniteSet(DOMAIN events.rows) /\ Cardinality(DOMAIN events.rows) = 0
      BY <1>2, FS_EmptySet
<1>4. EventsShape(events)
      BY <1>1, <1>2, <1>3 DEF EventsShape
<1> QED  BY <1>1, <1>2, <1>3, <1>4, EventAssumption DEF EventsInv

LEMMA EventsStep ==
  EventsInv /\ [EventsNext]_eventVars => EventsInv'
<1> SUFFICES ASSUME EventsInv, [EventsNext]_eventVars
             PROVE  EventsInv'
    OBVIOUS
<1>1. ASSUME NEW k \in Kinds, AppendNew(k) \/ AppendRetries(k) \/ AppendCounts(k)
      PROVE  EventsInv'
      BY <1>1, AppendNewKeeps, AppendRetriesKeeps, AppendCountsKeeps
<1>2. ASSUME NEW i \in AlarmIds, NEW t \in 0..MaxClock, AppendAlarm(i, t)
      PROVE  EventsInv'
      BY <1>2, AppendAlarmKeeps
<1>3. CASE SaveEvents \/ CleanUpEvents \/ ClearEvents \/ ResetWindows
      BY <1>3, SaveKeeps, CleanUpKeeps, ClearKeeps, ResetKeeps
<1>4. CASE OpenEvents \/ CrashEvents
      BY <1>4, OpenKeeps, CrashKeeps
<1>5. ASSUME NEW t \in 0..MaxClock, ClockMoves(t)
      PROVE  EventsInv'
      BY <1>5, ClockKeeps
<1>6. CASE UNCHANGED eventVars
      BY <1>6 DEF eventVars, EventsInv
<1> QED  BY <1>1, <1>2, <1>3, <1>4, <1>5, <1>6 DEF EventsNext

LEMMA EventsHold ==
  EventsInv => CountsFitRows
<1> SUFFICES ASSUME EventsInv, eventsOpen
             PROVE  InOrder(events)
    BY DEF CountsFitRows, InOrder, Fits, FitsRow
<1> QED  BY DEF EventsInv

(* While the table of events is open, every window counts on a row that is *)
(* there and of its own kind, and lacks at most the last repetition: no    *)
(* statement that fails, no clean-up, clearing, restart or change of the   *)
(* clock leaves a count without its row, whatever the limit and retention. *)
THEOREM CountsStayOnRows == EventsSpec => []CountsFitRows
<1>1. EventsSpec => []EventsInv
      BY EventsStart, EventsStep, PTL DEF EventsSpec
<1> QED  BY <1>1, EventsHold, PTL

(***************************************************************************)
(* DeviceCommands, for any targets, requests and failures.                 *)
(***************************************************************************)
-----------------------------------------------------------------------------
(* What an answer under way says is what the device did: a write that was  *)
(* done, or for one without a record that none was handed out.             *)
OrderKinds == {"write", "event", "test"}
Sayings == {"done", "record", "empty", "refused", "noise"}

Replies == [ask : Nat, kind : OrderKinds, target : Targets \cup {"log"}, says : Sayings]

IsTrue(a, u, n) ==
  /\ a.ask \in 1..n
  /\ a.says = "done" => \E w \in u.wrote : w.ask = a.ask /\ w.target = a.target
  /\ a.says \in {"done", "empty"} => a.ask \notin u.handed
  /\ a.says \in IF a.kind = "write" THEN {"done", "refused", "noise"}
                ELSE {"record", "empty", "refused", "noise"}

(* The requests whose answer may still be read.                            *)
PendingOf(c) == {a.ask : a \in c.wire} \cup {c.inbox[i].ask : i \in DOMAIN c.inbox}

(* No request is answered twice.                                           *)
Single(c) ==
  /\ \A a, b \in c.wire : a.ask = b.ask => a = b
  /\ \A i, j \in DOMAIN c.inbox : c.inbox[i].ask = c.inbox[j].ask => i = j
  /\ \A a \in c.wire, i \in DOMAIN c.inbox : a.ask # c.inbox[i].ask

Tidy(c, u, n) ==
  /\ c = [open |-> c.open, wire |-> c.wire, inbox |-> c.inbox]
  /\ c.wire \subseteq Replies /\ c.inbox \in Seq(Replies)
  /\ \A a \in c.wire : IsTrue(a, u, n)
  /\ \A i \in DOMAIN c.inbox : IsTrue(c.inbox[i], u, n)
  /\ Single(c)

IsOrder(o) ==
  /\ o = [at |-> o.at, what |-> o.what]
  /\ o.at \in {"none", "begun", "opened", "sending", "waiting"}
  /\ o.what \in Writes \cup Records

IsUnit(u, n) ==
  /\ u = [wrote |-> u.wrote, handed |-> u.handed]
  /\ u.handed \subseteq 1..n
  /\ \A w \in u.wrote : w.ask \in 1..n

(* While an answer is awaited, the last write is that of the order.        *)
LastIsOwn(o, u, n) ==
  o.at = "waiting" => \A w \in u.wrote : w.ask = n => w.word = o.what.word

(* A write that was told to have succeeded has been done.                  *)
ToldTrue(r, u, n) ==
  /\ r.as \in 0..n
  /\ r.ok /\ r.order.kind = "write" =>
       \E w \in u.wrote :
         /\ w.target = r.order.target /\ w.ask <= r.as
         /\ transport = "tcp" => w.ask = r.as /\ w.word = r.order.word

ShownOnce(s, c, n) ==
  /\ s \in Seq(Nat)
  /\ \A i \in DOMAIN s : s[i] \in 1..n /\ s[i] \notin PendingOf(c)
  /\ \A i, j \in DOMAIN s : s[i] = s[j] => i = j

(* Of the requests that brought out a record, or may still be answered, as *)
(* many have been shown or told to have failed, but for the present one.   *)
Owed(c, u) == u.handed \cup PendingOf(c)
Settled(c, u, o, s, f) ==
  Cardinality(Owed(c, u)) <= Len(s) + f + IF o.at = "waiting" THEN 1 ELSE 0

CommandsInv ==
  /\ sent \in Nat /\ failures \in Nat /\ transport \in {"rtu", "tcp"}
  /\ IsOrder(order) /\ IsUnit(unit, sent)
  /\ Tidy(cable, unit, sent)
  /\ LastIsOwn(order, unit, sent)
  /\ ToldTrue(told, unit, sent)
  /\ ShownOnce(shown, cable, sent)
  /\ Settled(cable, unit, order, shown, failures)

-----------------------------------------------------------------------------
(* The answers of a cable, when some are thrown away.                      *)
LEMMA Emptied ==
  ASSUME NEW c, NEW u, NEW n, Tidy(c, u, n), NEW d,
         d = [open |-> d.open, wire |-> d.wire, inbox |-> <<>>], d.wire \subseteq c.wire
  PROVE  Tidy(d, u, n) /\ PendingOf(d) \subseteq PendingOf(c)
<1>1. d.inbox = <<>> /\ d.inbox \in Seq(Replies) /\ DOMAIN d.inbox = {}
  <2>1. PICK s : s = d.inbox
        OBVIOUS
  <2>2. s = <<>>
        BY <2>1
  <2>3. s \in Seq(Replies) /\ Len(s) = 0
        BY <2>2, EmptySeq
  <2>4. DOMAIN s = 1..0
        BY <2>3, LenProperties
  <2> QED  BY <2>1, <2>2, <2>3, <2>4
<1>2. Tidy(d, u, n)
      BY <1>1 DEF Tidy, Single
<1>3. PendingOf(d) \subseteq PendingOf(c)
      BY <1>1 DEF PendingOf
<1> QED  BY <1>2, <1>3

(* The first of those that have arrived is taken.                          *)
LEMMA HeadTaken ==
  ASSUME NEW c, NEW u, NEW n, Tidy(c, u, n), c.inbox # <<>>, NEW d,
         d = [c EXCEPT !.inbox = Tail(@)]
  PROVE  /\ Tidy(d, u, n)
         /\ Head(c.inbox) \in Replies /\ IsTrue(Head(c.inbox), u, n)
         /\ Head(c.inbox).ask \in PendingOf(c)
         /\ PendingOf(d) \subseteq PendingOf(c) \ {Head(c.inbox).ask}
<1> DEFINE s == c.inbox
<1>1. /\ s \in Seq(Replies) /\ s # <<>> /\ Single(c)
      /\ \A i \in DOMAIN s : IsTrue(s[i], u, n)
      /\ \A a \in c.wire : IsTrue(a, u, n)
      BY DEF Tidy
<1>2. PICK r : r = Tail(s)
      OBVIOUS
<1>3. /\ r \in Seq(Replies) /\ Len(r) = Len(s) - 1 /\ Len(s) \in Nat \ {0}
      /\ \A i \in 1..Len(r) : r[i] = s[i + 1]
      BY <1>1, <1>2, HeadTailProperties, EmptySeq
<1>4. DOMAIN r = 1..Len(r) /\ DOMAIN s = 1..Len(s) /\ Len(r) \in Nat
      BY <1>1, <1>3, LenProperties
<1>5. Head(s) = s[1] /\ 1 \in DOMAIN s
      BY <1>1, <1>3, <1>4
<1>6. \A i \in DOMAIN r : i + 1 \in DOMAIN s /\ i + 1 # 1 /\ r[i] = s[i + 1]
      BY <1>3, <1>4
<1>7. d = [open |-> c.open, wire |-> c.wire, inbox |-> r]
      BY <1>2 DEF Tidy
<1>8. d.wire = c.wire /\ d.inbox = r /\ d.open = c.open
      BY <1>7
<1>9. Single(d)
  <2>1. \A i, j \in DOMAIN r : r[i].ask = r[j].ask => i = j
        BY <1>1, <1>3, <1>4, <1>6 DEF Single
  <2> QED  BY <1>1, <1>6, <1>8, <2>1 DEF Single
<1>10. Tidy(d, u, n)
      BY <1>1, <1>3, <1>6, <1>7, <1>8, <1>9 DEF Tidy
<1>11. Head(s) \in Replies /\ IsTrue(Head(s), u, n) /\ Head(s).ask \in PendingOf(c)
      BY <1>1, <1>5, HeadTailProperties DEF PendingOf
<1>12. PendingOf(d) \subseteq PendingOf(c) \ {Head(s).ask}
  <2>1. ASSUME NEW a \in c.wire
        PROVE  a.ask \in PendingOf(c) \ {Head(s).ask}
        BY <1>1, <1>5 DEF Single, PendingOf
  <2>2. ASSUME NEW i \in DOMAIN r
        PROVE  r[i].ask \in PendingOf(c) \ {Head(s).ask}
        BY <1>1, <1>5, <1>6 DEF Single, PendingOf
  <2> QED  BY <1>8, <2>1, <2>2 DEF PendingOf
<1> QED  BY <1>10, <1>11, <1>12

(* One more arrives, as it is or spoilt.                                   *)
LEMMA Arrived ==
  ASSUME NEW c, NEW u, NEW n, Tidy(c, u, n), NEW a \in c.wire,
         NEW b, b = a \/ b = [a EXCEPT !.says = "noise"], NEW d,
         d = [c EXCEPT !.wire = @ \ {a}, !.inbox = Append(@, b)]
  PROVE  Tidy(d, u, n) /\ PendingOf(d) \subseteq PendingOf(c)
<1> DEFINE s == c.inbox
<1>1. /\ s \in Seq(Replies) /\ Single(c) /\ c.wire \subseteq Replies
      /\ \A i \in DOMAIN s : IsTrue(s[i], u, n)
      /\ \A e \in c.wire : IsTrue(e, u, n)
      BY DEF Tidy
<1>2. /\ b \in Replies /\ b.ask = a.ask /\ IsTrue(b, u, n)
  <2>1. a \in Replies /\ IsTrue(a, u, n)
        BY <1>1
  <2>2. CASE b = a
        BY <2>1, <2>2
  <2>3. CASE b = [a EXCEPT !.says = "noise"]
    <3>1. b = [ask |-> a.ask, kind |-> a.kind, target |-> a.target, says |-> "noise"]
          BY <2>1, <2>3 DEF Replies
    <3>2. b.ask = a.ask /\ b.kind = a.kind /\ b.target = a.target /\ b.says = "noise"
          BY <3>1
    <3>3. b \in Replies
          BY <2>1, <3>1, <3>2 DEF Replies, Sayings
    <3> QED  BY <2>1, <3>2, <3>3 DEF IsTrue
  <2> QED  BY <2>2, <2>3
<1>3. PICK r : r = Append(s, b)
      OBVIOUS
<1>4. /\ r \in Seq(Replies) /\ Len(r) = Len(s) + 1 /\ Len(s) \in Nat
      /\ r[Len(s) + 1] = b /\ \A i \in 1..Len(s) : r[i] = s[i]
      BY <1>1, <1>2, <1>3, LenProperties
<1>5. DOMAIN r = 1..(Len(s) + 1) /\ DOMAIN s = 1..Len(s)
      BY <1>1, <1>4, LenProperties
<1>6. \A i \in DOMAIN r : (i \in DOMAIN s /\ r[i] = s[i]) \/ (i = Len(s) + 1 /\ r[i] = b)
      BY <1>4, <1>5
<1>7. PICK left : left = c.wire \ {a}
      OBVIOUS
<1>8. /\ d = [open |-> d.open, wire |-> d.wire, inbox |-> d.inbox]
      /\ d.wire = left /\ d.inbox = r
  <2>1. d = [open |-> c.open, wire |-> left, inbox |-> r]
        BY <1>3, <1>7 DEF Tidy
  <2>2. PICK p : p = c.open
        OBVIOUS
  <2>3. PICK q : q = [open |-> p, wire |-> left, inbox |-> r]
        OBVIOUS
  <2>4. q.wire = left /\ q.inbox = r /\ q.open = p
        BY <2>3
  <2> QED  BY <2>1, <2>2, <2>3, <2>4
<1>9. Single(d)
  <2>1. \A i, j \in DOMAIN r : r[i].ask = r[j].ask => i = j
        BY <1>1, <1>2, <1>6 DEF Single
  <2>2. \A e \in c.wire \ {a}, i \in DOMAIN r : e.ask # r[i].ask
        BY <1>1, <1>2, <1>6 DEF Single
  <2>3. \A e, f \in c.wire \ {a} : e.ask = f.ask => e = f
        BY <1>1 DEF Single
  <2> QED  BY <1>7, <1>8, <2>1, <2>2, <2>3 DEF Single
<1>10. Tidy(d, u, n)
      BY <1>1, <1>2, <1>4, <1>6, <1>7, <1>8, <1>9 DEF Tidy
<1>11. PendingOf(d) \subseteq PendingOf(c)
  <2>1. \A i \in DOMAIN r : r[i].ask \in PendingOf(c)
        BY <1>2, <1>6 DEF PendingOf
  <2> QED  BY <1>7, <1>8, <2>1 DEF PendingOf
<1> QED  BY <1>10, <1>11

(* A request is sent: whatever the device does for it, what it said before *)
(* stays true.                                                             *)
LEMMA StaysTidy ==
  ASSUME NEW c, NEW u, NEW n \in Nat, Tidy(c, u, n), NEW v,
         u.wrote \subseteq v.wrote, v.handed \subseteq u.handed \cup {n + 1}
  PROVE  Tidy(c, v, n + 1)
<1>1. ASSUME NEW a, IsTrue(a, u, n)
      PROVE  IsTrue(a, v, n + 1)
      BY <1>1 DEF IsTrue
<1> QED  BY <1>1 DEF Tidy

LEMMA AnswerSent ==
  ASSUME NEW c, NEW u, NEW n \in Nat, Tidy(c, u, n), NEW v,
         u.wrote \subseteq v.wrote, v.handed \subseteq u.handed \cup {n + 1},
         NEW a \in Replies, a.ask = n + 1, IsTrue(a, v, n + 1), NEW d,
         d = [c EXCEPT !.wire = @ \cup {a}]
  PROVE  Tidy(d, v, n + 1) /\ PendingOf(d) = PendingOf(c) \cup {n + 1}
<1>1. Tidy(c, v, n + 1)
      BY StaysTidy
<1>2. /\ \A b \in c.wire : b.ask # n + 1
      /\ \A i \in DOMAIN c.inbox : c.inbox[i].ask # n + 1
      BY DEF Tidy, IsTrue
<1>3. d = [open |-> c.open, wire |-> c.wire \cup {a}, inbox |-> c.inbox]
      BY DEF Tidy
<1>4. d.open = c.open /\ d.wire = c.wire \cup {a} /\ d.inbox = c.inbox
      BY <1>3
<1>5. Single(d)
      BY <1>2, <1>4 DEF Tidy, Single
<1>6. Tidy(d, v, n + 1)
      BY <1>1, <1>3, <1>4, <1>5 DEF Tidy
<1>7. PendingOf(d) = PendingOf(c) \cup {n + 1}
      BY <1>4 DEF PendingOf
<1> QED  BY <1>6, <1>7

(* Every request that may be answered has been sent.                       *)
LEMMA PendingIsSent ==
  ASSUME NEW c, NEW u, NEW n, Tidy(c, u, n)
  PROVE  PendingOf(c) \subseteq 1..n
BY DEF Tidy, PendingOf, IsTrue

LEMMA OwedIsFinite ==
  ASSUME NEW c, NEW u, NEW n \in Nat, Tidy(c, u, n), u.handed \subseteq 1..n
  PROVE  IsFiniteSet(Owed(c, u)) /\ Cardinality(Owed(c, u)) \in Nat
<1>1. Owed(c, u) \subseteq 1..n
      BY PendingIsSent DEF Owed
<1>2. IsFiniteSet(1..n)
      BY FS_Interval
<1>3. IsFiniteSet(Owed(c, u))
      BY <1>1, <1>2, FS_Subset
<1> QED  BY <1>3, FS_CardinalityType

-----------------------------------------------------------------------------
(* The orders.                                                             *)
LEMMA OrderKind ==
  ASSUME NEW o, IsOrder(o)
  PROVE  /\ o.what.kind \in OrderKinds /\ o.what.target \in Targets \cup {"log"}
         /\ o.what.kind = "write" <=> o.what \in Writes
BY DEF IsOrder, Writes, Records, OrderKinds

LEMMA NoOrderIs ==
  IsOrder(NoOrder) /\ NoOrder.at = "none"
<1>1. [kind |-> "event", target |-> "log", word |-> "none"] \in Records
      BY DEF Records
<1>2. (CHOOSE o \in Records : TRUE) \in Records
      BY <1>1
<1> QED  BY <1>2 DEF IsOrder, NoOrder

(* An order goes on to another stage.                                      *)
LEMMA StagedIs ==
  ASSUME NEW o, IsOrder(o), NEW at \in {"begun", "opened", "sending", "waiting"},
         NEW p, p = [o EXCEPT !.at = at]
  PROVE  IsOrder(p) /\ p.at = at /\ p.what = o.what
<1>1. p = [at |-> at, what |-> o.what]
      BY DEF IsOrder
<1>2. p.at = at /\ p.what = o.what
      BY <1>1
<1> QED  BY <1>1, <1>2 DEF IsOrder

(* What the operator is told when an order has ended.                      *)
LEMMA EndedIs ==
  ASSUME NEW ok \in BOOLEAN, Ends(ok), sent \in Nat
  PROVE  /\ IsOrder(order') /\ order'.at = "none"
         /\ told'.order = order.what /\ told'.ok = ok /\ told'.as = sent
         /\ failures' = IF ok THEN failures ELSE failures + 1
<1>1. told' = [order |-> order.what, ok |-> ok, as |-> sent]
      BY DEF Ends
<1>2. told'.order = order.what /\ told'.ok = ok /\ told'.as = sent
      BY <1>1
<1> QED  BY <1>2, NoOrderIs DEF Ends

-----------------------------------------------------------------------------
(* A step by which nothing is sent and no order succeeds.                  *)
Fails == Ends(FALSE)
GoesOn ==
  /\ UNCHANGED <<told, failures>>
  /\ order'.at = "waiting" <=> order.at = "waiting"
  /\ order.at = "waiting" => order' = order

LEMMA QuietStep ==
  ASSUME CommandsInv, UNCHANGED <<transport, sent, unit, shown>>,
         Tidy(cable', unit, sent), PendingOf(cable') \subseteq PendingOf(cable),
         \/ IsOrder(order') /\ GoesOn
         \/ Fails
  PROVE  CommandsInv'
<1>1. /\ sent \in Nat /\ failures \in Nat /\ IsUnit(unit, sent) /\ Tidy(cable, unit, sent)
      BY DEF CommandsInv
<1>2. /\ IsOrder(order') /\ failures' \in Nat
      /\ \/ GoesOn /\ failures' = failures
         \/ /\ order'.at = "none" /\ failures' = failures + 1
            /\ told'.ok = FALSE /\ told'.as = sent
  <2>1. CASE IsOrder(order') /\ GoesOn
        BY <1>1, <2>1 DEF GoesOn
  <2>2. CASE Fails
    <3>1. PICK ok : ok = FALSE
          OBVIOUS
    <3>2. ok \in BOOLEAN /\ Ends(ok)
          BY <2>2, <3>1 DEF Fails
    <3>3. /\ IsOrder(order') /\ order'.at = "none"
          /\ told'.ok = ok /\ told'.as = sent
          /\ failures' = IF ok THEN failures ELSE failures + 1
          BY <1>1, <3>2, EndedIs
    <3> QED  BY <1>1, <3>1, <3>3
  <2> QED  BY <2>1, <2>2
<1>3. LastIsOwn(order', unit, sent)
      BY <1>2 DEF CommandsInv, LastIsOwn, GoesOn
<1>4. ToldTrue(told, unit, sent)'
  <2>1. CASE GoesOn
        BY <2>1 DEF CommandsInv, ToldTrue, GoesOn
  <2>2. CASE told'.ok = FALSE /\ told'.as = sent
        BY <1>1, <2>2 DEF ToldTrue
  <2> QED  BY <1>2, <2>1, <2>2
<1>5. ShownOnce(shown', cable', sent')
      BY DEF CommandsInv, ShownOnce
<1>6. Settled(cable', unit', order', shown', failures')
  <2>1. Owed(cable', unit) \subseteq Owed(cable, unit)
        BY DEF Owed
  <2>2. /\ IsFiniteSet(Owed(cable, unit)) /\ Cardinality(Owed(cable, unit)) \in Nat
        BY <1>1, OwedIsFinite DEF IsUnit
  <2>3. /\ Cardinality(Owed(cable', unit)) \in Nat
        BY <1>1, OwedIsFinite DEF IsUnit
  <2>4. PICK P : P = Owed(cable', unit)
        OBVIOUS
  <2>5. Cardinality(P) <= Cardinality(Owed(cable, unit))
        BY <2>1, <2>2, <2>4, FS_Subset
  <2>6. Len(shown) \in Nat
        BY LenProperties DEF CommandsInv, ShownOnce
  <2>7. Cardinality(Owed(cable, unit)) <= Len(shown) + failures + IF order.at = "waiting" THEN 1 ELSE 0
        BY DEF CommandsInv, Settled
  <2>8. Cardinality(P) <= Len(shown) + failures' + IF order'.at = "waiting" THEN 1 ELSE 0
        BY <1>1, <1>2, <2>2, <2>3, <2>4, <2>5, <2>6, <2>7 DEF GoesOn
  <2> QED  BY <2>4, <2>8 DEF Settled
<1> QED  BY <1>1, <1>2, <1>3, <1>4, <1>5, <1>6 DEF CommandsInv

-----------------------------------------------------------------------------
(* An order succeeds: the request it is answered for was not settled.      *)
Success(a) ==
  /\ order.at = "waiting" /\ cable.inbox # <<>> /\ a = Head(cable.inbox)
  /\ cable' = [cable EXCEPT !.inbox = Tail(@)]
  /\ FitsOrder(a) /\ a.says # "refused" /\ (transport = "tcp" => a.ask = sent)
  /\ Ends(TRUE) /\ shown' = IF a.says = "record" THEN Append(shown, a.ask) ELSE shown
  /\ UNCHANGED <<transport, sent, unit>>

LEMMA SuccessKeeps ==
  ASSUME CommandsInv, NEW a, Success(a)
  PROVE  CommandsInv'
<1>1. /\ sent \in Nat /\ failures \in Nat /\ IsUnit(unit, sent) /\ Tidy(cable, unit, sent)
      /\ IsOrder(order) /\ LastIsOwn(order, unit, sent) /\ ShownOnce(shown, cable, sent)
      BY DEF CommandsInv
<1>2. /\ Tidy(cable', unit, sent) /\ a \in Replies /\ IsTrue(a, unit, sent)
      /\ a.ask \in PendingOf(cable) /\ PendingOf(cable') \subseteq PendingOf(cable) \ {a.ask}
      BY <1>1, HeadTaken DEF Success
<1>3. /\ IsOrder(order') /\ order'.at = "none" /\ failures' = failures
      /\ told'.order = order.what /\ told'.ok = TRUE /\ told'.as = sent
      BY <1>1, EndedIs DEF Success
<1>4. LastIsOwn(order', unit', sent')
      BY <1>3 DEF LastIsOwn
<1>5. ToldTrue(told, unit, sent)'
  <2>1. ASSUME order.what.kind = "write"
        PROVE  \E w \in unit.wrote :
                 /\ w.target = order.what.target /\ w.ask <= sent
                 /\ transport = "tcp" => w.ask = sent /\ w.word = order.what.word
    <3>1. a.kind = "write" /\ a.says # "noise" /\ a.says # "refused"
          BY <2>1 DEF Success, FitsOrder
    <3>2. a.says = "done" /\ a.target = order.what.target
          BY <1>2, <3>1 DEF IsTrue, Success, FitsOrder
    <3>3. PICK w \in unit.wrote : w.ask = a.ask /\ w.target = a.target
          BY <1>2, <3>2 DEF IsTrue
    <3>4. w.ask <= sent
          BY <1>1, <3>3 DEF IsUnit
    <3>5. transport = "tcp" => w.ask = sent /\ w.word = order.what.word
          BY <1>1, <3>3 DEF Success, LastIsOwn
    <3> QED  BY <3>2, <3>3, <3>4, <3>5
  <2> QED  BY <1>1, <1>3, <2>1 DEF ToldTrue, Success
<1>6. a.ask \in 1..sent /\ a.ask \in Nat
      BY <1>1, <1>2 DEF IsTrue
<1>7. CASE a.says = "record"
  <2>1. shown' = Append(shown, a.ask) /\ shown \in Seq(Nat)
        BY <1>1, <1>7 DEF Success, ShownOnce
  <2>2. PICK s : s = shown'
        OBVIOUS
  <2>3. /\ s \in Seq(Nat) /\ Len(s) = Len(shown) + 1 /\ Len(shown) \in Nat
        /\ s[Len(shown) + 1] = a.ask /\ \A i \in 1..Len(shown) : s[i] = shown[i]
        BY <1>6, <2>1, <2>2, LenProperties
  <2>4. DOMAIN s = 1..(Len(shown) + 1) /\ DOMAIN shown = 1..Len(shown)
        BY <2>1, <2>3, LenProperties
  <2>5. \A i \in DOMAIN s : \/ i \in DOMAIN shown /\ s[i] = shown[i]
                            \/ i = Len(shown) + 1 /\ s[i] = a.ask
        BY <2>3, <2>4
  <2>6. \A i \in DOMAIN shown : shown[i] # a.ask
        BY <1>1, <1>2 DEF ShownOnce
  <2>7. ShownOnce(s, cable', sent)
    <3>1. \A i \in DOMAIN s : s[i] \in 1..sent /\ s[i] \notin PendingOf(cable')
          BY <1>1, <1>2, <1>6, <2>5 DEF ShownOnce
    <3>2. \A i, j \in DOMAIN s : s[i] = s[j] => i = j
          BY <1>1, <2>5, <2>6 DEF ShownOnce
    <3> QED  BY <2>3, <3>1, <3>2 DEF ShownOnce
  <2>8. Settled(cable', unit', order', shown', failures')
    <3>1. Owed(cable', unit) \subseteq Owed(cable, unit)
          BY <1>2 DEF Owed
    <3>2. /\ IsFiniteSet(Owed(cable, unit)) /\ Cardinality(Owed(cable, unit)) \in Nat
          /\ Cardinality(Owed(cable', unit)) \in Nat
          BY <1>1, <1>2, OwedIsFinite DEF IsUnit
    <3>3. PICK P : P = Owed(cable', unit)
          OBVIOUS
    <3>4. Cardinality(P) <= Cardinality(Owed(cable, unit))
          BY <3>1, <3>2, <3>3, FS_Subset
    <3>5. Cardinality(Owed(cable, unit)) <= Len(shown) + failures + 1
          BY DEF CommandsInv, Settled, Success
    <3>6. Cardinality(P) <= Len(s) + failures' + 0
          BY <1>1, <1>3, <2>3, <3>2, <3>3, <3>4, <3>5
    <3> QED  BY <1>3, <2>2, <3>3, <3>6 DEF Settled, Success
  <2> QED  BY <1>1, <1>2, <1>3, <1>4, <1>5, <2>2, <2>7, <2>8 DEF CommandsInv, Success
<1>8. CASE a.says # "record"
  <2>1. shown' = shown /\ a.says \in {"done", "empty"} /\ a.ask \notin unit.handed
        BY <1>2, <1>8 DEF Success, FitsOrder, IsTrue
  <2>2. ShownOnce(shown', cable', sent)
        BY <1>1, <1>2, <2>1 DEF ShownOnce
  <2>3. Settled(cable', unit', order', shown', failures')
    <3>1. a.ask \in Owed(cable, unit)
          BY <1>2 DEF Owed
    <3>2. Owed(cable', unit) \subseteq Owed(cable, unit) \ {a.ask}
          BY <1>2, <2>1 DEF Owed
    <3>3. /\ IsFiniteSet(Owed(cable, unit)) /\ Cardinality(Owed(cable, unit)) \in Nat
          /\ Cardinality(Owed(cable', unit)) \in Nat
          BY <1>1, <1>2, OwedIsFinite DEF IsUnit
    <3>4. PICK P : P = Owed(cable', unit)
          OBVIOUS
    <3>5. PICK R : R = Owed(cable, unit) \ {a.ask}
          OBVIOUS
    <3>6. IsFiniteSet(R) /\ Cardinality(R) = Cardinality(Owed(cable, unit)) - 1
          BY <3>1, <3>3, <3>5, FS_RemoveElement
    <3>7. Cardinality(P) <= Cardinality(R)
          BY <3>2, <3>4, <3>5, <3>6, FS_Subset
    <3>8. Cardinality(Owed(cable, unit)) <= Len(shown) + failures + 1
          BY DEF CommandsInv, Settled, Success
    <3>9. Len(shown) \in Nat
          BY <1>1, LenProperties DEF ShownOnce
    <3>10. Cardinality(P) <= Len(shown) + failures' + 0
          BY <1>1, <1>3, <3>3, <3>4, <3>6, <3>7, <3>8, <3>9
    <3> QED  BY <1>3, <2>1, <3>4, <3>10 DEF Settled, Success
  <2> QED  BY <1>1, <1>2, <1>3, <1>4, <1>5, <2>2, <2>3 DEF CommandsInv, Success
<1> QED  BY <1>7, <1>8

-----------------------------------------------------------------------------
(* A request is sent.                                                      *)
LEMMA DoesIs ==
  ASSUME IsUnit(unit, sent), sent \in Nat, IsOrder(order), NEW says \in Says, Does(says)
  PROVE  /\ IsUnit(unit', sent + 1)
         /\ unit.wrote \subseteq unit'.wrote /\ unit'.handed \subseteq unit.handed \cup {sent + 1}
         /\ \A w \in unit'.wrote : w.ask = sent + 1 => w.word = order.what.word
         /\ says # "record" => unit'.handed = unit.handed
         /\ says = "done" =>
              \E w \in unit'.wrote : w.ask = sent + 1 /\ w.target = order.what.target
<1>1. /\ unit = [wrote |-> unit.wrote, handed |-> unit.handed]
      /\ unit.handed \subseteq 1..sent /\ \A w \in unit.wrote : w.ask \in 1..sent
      BY DEF IsUnit
<1>2. PICK v : v = unit'
      OBVIOUS
<1>3. CASE says = "done"
  <2>1. PICK w : w = [ask |-> sent + 1, target |-> order.what.target, word |-> order.what.word]
        OBVIOUS
  <2>2. w.ask = sent + 1 /\ w.target = order.what.target /\ w.word = order.what.word
        BY <2>1
  <2>3. v = [wrote |-> unit.wrote \cup {w}, handed |-> unit.handed]
        BY <1>1, <1>2, <1>3, <2>1 DEF Does
  <2>4. v.wrote = unit.wrote \cup {w} /\ v.handed = unit.handed
        BY <2>3
  <2>5. IsUnit(v, sent + 1)
        BY <1>1, <2>2, <2>3, <2>4 DEF IsUnit
  <2>6. \A x \in v.wrote : x.ask = sent + 1 => x.word = order.what.word
        BY <1>1, <2>2, <2>4
  <2> QED  BY <1>2, <1>3, <2>2, <2>4, <2>5, <2>6
<1>4. CASE says = "record"
  <2>1. v = [wrote |-> unit.wrote, handed |-> unit.handed \cup {sent + 1}]
        BY <1>1, <1>2, <1>4 DEF Does
  <2>2. v.wrote = unit.wrote /\ v.handed = unit.handed \cup {sent + 1}
        BY <2>1
  <2>3. IsUnit(v, sent + 1)
        BY <1>1, <2>1, <2>2 DEF IsUnit
  <2> QED  BY <1>1, <1>2, <1>4, <2>2, <2>3
<1>5. CASE says # "done" /\ says # "record"
  <2>1. v = unit
        BY <1>2, <1>5 DEF Does
  <2> QED  BY <1>1, <1>2, <1>5, <2>1 DEF IsUnit
<1> QED  BY <1>3, <1>4, <1>5

LEMMA ReplyIs ==
  ASSUME IsUnit(unit, sent), sent \in Nat, IsOrder(order), NEW says \in Says, Does(says)
  PROVE  /\ Reply(says) \in Replies /\ Reply(says).ask = sent + 1
         /\ IsTrue(Reply(says), unit', sent + 1)
<1>1. PICK a : a = Reply(says)
      OBVIOUS
<1>2. /\ a = [ask |-> sent + 1, kind |-> order.what.kind, target |-> order.what.target,
              says |-> says]
      BY <1>1 DEF Reply
<1>3. /\ a.ask = sent + 1 /\ a.kind = order.what.kind /\ a.target = order.what.target
      /\ a.says = says
      BY <1>2
<1>4. a \in Replies
      BY <1>2, <1>3, OrderKind DEF Replies, Sayings, Says
<1>5. sent + 1 \in 1..(sent + 1) /\ sent + 1 \notin unit.handed
      BY DEF IsUnit
<1>6. /\ says # "record" => sent + 1 \notin unit'.handed
      /\ says = "done" => \E w \in unit'.wrote : w.ask = sent + 1 /\ w.target = order.what.target
      BY <1>5, DoesIs
<1>7. IsTrue(a, unit', sent + 1)
      BY <1>3, <1>5, <1>6 DEF IsTrue, Says
<1> QED  BY <1>1, <1>3, <1>4, <1>7

LEMMA SendKeeps ==
  ASSUME CommandsInv, SendOrder
  PROVE  CommandsInv'
<1>1. /\ sent \in Nat /\ failures \in Nat /\ IsUnit(unit, sent) /\ Tidy(cable, unit, sent)
      /\ IsOrder(order) /\ ShownOnce(shown, cable, sent) /\ ToldTrue(told, unit, sent)
      BY DEF CommandsInv
<1>2. /\ order.at = "sending" /\ sent' = sent + 1 /\ order' = [order EXCEPT !.at = "waiting"]
      /\ UNCHANGED <<told, failures, transport, shown>>
      /\ \/ UNCHANGED <<cable, unit>>
         \/ \E says \in Says :
              Does(says) /\ cable' = [cable EXCEPT !.wire = @ \cup {Reply(says)}]
      BY DEF SendOrder, OnTheWay
<1>3. IsOrder(order') /\ order'.at = "waiting" /\ order'.what = order.what
      BY <1>1, <1>2, StagedIs
<1>4. /\ IsUnit(unit', sent + 1)
      /\ unit.wrote \subseteq unit'.wrote /\ unit'.handed \subseteq unit.handed \cup {sent + 1}
      /\ \A w \in unit'.wrote : w.ask = sent + 1 => w.word = order.what.word
      /\ Tidy(cable', unit', sent + 1)
      /\ PendingOf(cable') \subseteq PendingOf(cable) \cup {sent + 1}
  <2>1. CASE UNCHANGED <<cable, unit>>
    <3>1. /\ IsUnit(unit', sent + 1) /\ \A w \in unit.wrote : w.ask # sent + 1
          BY <1>1, <2>1 DEF IsUnit
    <3>2. Tidy(cable, unit, sent + 1)
          BY <1>1, StaysTidy
    <3> QED  BY <2>1, <3>1, <3>2
  <2>2. CASE ~UNCHANGED <<cable, unit>>
    <3>1. PICK says \in Says :
            Does(says) /\ cable' = [cable EXCEPT !.wire = @ \cup {Reply(says)}]
          BY <1>2, <2>2
    <3>2. PICK a : a = Reply(says)
          OBVIOUS
    <3>3. a \in Replies /\ a.ask = sent + 1 /\ IsTrue(a, unit', sent + 1)
          BY <1>1, <3>1, <3>2, ReplyIs
    <3>4. /\ IsUnit(unit', sent + 1)
          /\ unit.wrote \subseteq unit'.wrote
          /\ unit'.handed \subseteq unit.handed \cup {sent + 1}
          /\ \A w \in unit'.wrote : w.ask = sent + 1 => w.word = order.what.word
          BY <1>1, <3>1, DoesIs
    <3>5. cable' = [cable EXCEPT !.wire = @ \cup {a}]
          BY <3>1, <3>2
    <3>6. Tidy(cable', unit', sent + 1) /\ PendingOf(cable') = PendingOf(cable) \cup {sent + 1}
          BY <1>1, <3>3, <3>4, <3>5, AnswerSent
    <3> QED  BY <3>4, <3>6
  <2> QED  BY <2>1, <2>2
<1>5. LastIsOwn(order', unit', sent')
      BY <1>2, <1>3, <1>4 DEF LastIsOwn
<1>6. ToldTrue(told, unit, sent)'
      BY <1>1, <1>2, <1>4 DEF ToldTrue
<1>7. ShownOnce(shown', cable', sent')
      BY <1>1, <1>2, <1>4 DEF ShownOnce
<1>8. Settled(cable', unit', order', shown', failures')
  <2>1. /\ IsFiniteSet(Owed(cable, unit)) /\ Cardinality(Owed(cable, unit)) \in Nat
        BY <1>1, OwedIsFinite DEF IsUnit
  <2>2. PICK R : R = Owed(cable, unit) \cup {sent + 1}
        OBVIOUS
  <2>3. PICK P : P = Owed(cable', unit')
        OBVIOUS
  <2>4. P \subseteq R
        BY <1>4, <2>2, <2>3 DEF Owed
  <2>5. IsFiniteSet(R) /\ Cardinality(R) <= Cardinality(Owed(cable, unit)) + 1
        BY <2>1, <2>2, FS_AddElement
  <2>6. IsFiniteSet(P) /\ Cardinality(P) <= Cardinality(R)
        BY <2>4, <2>5, FS_Subset
  <2>7. Cardinality(P) \in Nat /\ Cardinality(R) \in Nat /\ Len(shown) \in Nat
        BY <1>1, <2>5, <2>6, FS_CardinalityType, LenProperties DEF ShownOnce
  <2>8. Cardinality(Owed(cable, unit)) <= Len(shown) + failures + 0
        BY <1>2 DEF CommandsInv, Settled
  <2>9. Cardinality(P) <= Len(shown) + failures + 1
        BY <1>1, <2>1, <2>5, <2>6, <2>7, <2>8
  <2> QED  BY <1>2, <1>3, <2>3, <2>9 DEF Settled
<1> QED  BY <1>1, <1>2, <1>3, <1>4, <1>5, <1>6, <1>7, <1>8 DEF CommandsInv

-----------------------------------------------------------------------------
(* A cable that is closed, or opened, and what it forgets.                 *)
LEMMA CutIs ==
  ASSUME NEW c, c = Cut
  PROVE  /\ c = [open |-> c.open, wire |-> c.wire, inbox |-> <<>>]
         /\ c.wire \subseteq cable.wire
<1>1. PICK w : w = IF transport = "tcp" THEN {} ELSE cable.wire
      OBVIOUS
<1>2. c = [open |-> FALSE, wire |-> w, inbox |-> <<>>]
      BY <1>1 DEF Cut
<1>3. c.wire = w /\ c.open = FALSE
      BY <1>2
<1> QED  BY <1>1, <1>2, <1>3

LEMMA CutKeeps ==
  ASSUME Tidy(cable, unit, sent), NEW c, c = Cut
  PROVE  Tidy(c, unit, sent) /\ PendingOf(c) \subseteq PendingOf(cable)
BY CutIs, Emptied

LEMMA JoinedKeeps ==
  ASSUME Tidy(cable, unit, sent), NEW c, c = Joined
  PROVE  /\ Tidy(c, unit, sent) /\ PendingOf(c) \subseteq PendingOf(cable)
         /\ c = [open |-> c.open, wire |-> c.wire, inbox |-> c.inbox]
         /\ c.wire \subseteq cable.wire
<1>1. CASE cable.open
  <2>1. c = cable
        BY <1>1 DEF Joined
  <2> QED  BY <2>1 DEF Tidy
<1>2. CASE ~cable.open
  <2>1. PICK d : d = Cut
        OBVIOUS
  <2>2. /\ d = [open |-> d.open, wire |-> d.wire, inbox |-> <<>>]
        /\ d.wire \subseteq cable.wire
        BY <2>1, CutIs
  <2>3. PICK o, w, s : o = d.open /\ w = d.wire /\ s = <<>>
        OBVIOUS
  <2>4. c = [d EXCEPT !.open = TRUE]
        BY <1>2, <2>1 DEF Joined
  <2>5. c = [open |-> TRUE, wire |-> w, inbox |-> s]
    <3>1. d = [open |-> o, wire |-> w, inbox |-> s]
          BY <2>2, <2>3
    <3> QED  BY <2>4, <3>1
  <2>6. c.open = TRUE /\ c.wire = w /\ c.inbox = s
        BY <2>5
  <2>7. c = [open |-> c.open, wire |-> c.wire, inbox |-> <<>>] /\ c.wire \subseteq cable.wire
        BY <2>2, <2>3, <2>5, <2>6
  <2> QED  BY <2>3, <2>5, <2>6, <2>7, Emptied
<1> QED  BY <1>1, <1>2

LEMMA SameCable ==
  ASSUME UNCHANGED cable, CommandsInv
  PROVE  Tidy(cable', unit, sent) /\ PendingOf(cable') \subseteq PendingOf(cable)
BY DEF CommandsInv

-----------------------------------------------------------------------------
(* The steps of an order.                                                  *)
LEMMA BeginKeeps ==
  ASSUME CommandsInv, NEW o \in Writes \cup Records, BeginOrder(o)
  PROVE  CommandsInv'
<1>1. /\ order.at = "none" /\ order' = [at |-> "begun", what |-> o]
      /\ UNCHANGED <<told, failures, transport, cable, sent, unit, shown>>
      BY DEF BeginOrder, OnTheWay
<1>2. PICK p : p = order'
      OBVIOUS
<1>3. p = [at |-> "begun", what |-> o]
      BY <1>1, <1>2
<1>4. p.at = "begun" /\ p.what = o
      BY <1>3
<1>5. IsOrder(p)
      BY <1>3, <1>4 DEF IsOrder
<1>6. GoesOn
      BY <1>1, <1>2, <1>4 DEF GoesOn
<1> QED  BY <1>1, <1>2, <1>5, <1>6, SameCable, QuietStep

LEMMA RefuseKeeps ==
  ASSUME CommandsInv, RefuseOrder
  PROVE  CommandsInv'
<1>1. Fails /\ UNCHANGED <<transport, cable, sent, unit, shown>>
      BY DEF RefuseOrder, Fails
<1> QED  BY <1>1, SameCable, QuietStep

(* An order that is not yet sent goes on to its next stage.                *)
LEMMA NextStage ==
  ASSUME CommandsInv, order.at \in {"begun", "opened"}, NEW at \in {"opened", "sending"},
         order' = [order EXCEPT !.at = at], UNCHANGED <<told, failures>>
  PROVE  IsOrder(order') /\ GoesOn
<1>1. IsOrder(order)
      BY DEF CommandsInv
<1>2. IsOrder(order') /\ order'.at = at
      BY <1>1, StagedIs
<1> QED  BY <1>2 DEF GoesOn

LEMMA PrepareKeeps ==
  ASSUME CommandsInv, PrepareOrder
  PROVE  CommandsInv'
<1>1. /\ order.at = "begun" /\ UNCHANGED <<transport, sent, unit, shown>>
      /\ \/ /\ cable' = Joined \/ cable' = cable
            /\ order' = [order EXCEPT !.at = "opened"] /\ UNCHANGED <<told, failures>>
         \/ Fails /\ cable' = cable
      BY DEF PrepareOrder, OnTheWay, Fails
<1>2. Tidy(cable, unit, sent)
      BY DEF CommandsInv
<1>3. Tidy(cable', unit, sent) /\ PendingOf(cable') \subseteq PendingOf(cable)
  <2>1. CASE cable' = Joined
        BY <1>2, <2>1, JoinedKeeps
  <2>2. CASE cable' = cable
        BY <2>2, SameCable
  <2> QED  BY <1>1, <2>1, <2>2
<1>4. Fails \/ (IsOrder(order') /\ GoesOn)
      BY <1>1, NextStage
<1> QED  BY <1>1, <1>3, <1>4, QuietStep

LEMMA OpenKeepsCable ==
  ASSUME CommandsInv, NEW late, late \subseteq cable.wire, NEW c,
         c = [Joined EXCEPT !.wire = late, !.inbox = <<>>]
  PROVE  Tidy(c, unit, sent) /\ PendingOf(c) \subseteq PendingOf(cable)
<1>1. Tidy(cable, unit, sent)
      BY DEF CommandsInv
<1>2. PICK j : j = Joined
      OBVIOUS
<1>3. j = [open |-> j.open, wire |-> j.wire, inbox |-> j.inbox]
      BY <1>1, <1>2, JoinedKeeps
<1>4. PICK s : s = <<>>
      OBVIOUS
<1>5. c = [j EXCEPT !.wire = late, !.inbox = s]
      BY <1>2, <1>4
<1>6. PICK o, w : o = j.open /\ w = late
      OBVIOUS
<1>7. PICK q : q = [open |-> o, wire |-> w, inbox |-> s]
      OBVIOUS
<1>8. q.open = o /\ q.wire = w /\ q.inbox = s
      BY <1>7
<1>9. c = q
      BY <1>3, <1>5, <1>6, <1>7
<1>10. c = [open |-> c.open, wire |-> c.wire, inbox |-> <<>>] /\ c.wire \subseteq cable.wire
      BY <1>4, <1>6, <1>7, <1>8, <1>9
<1> QED  BY <1>1, <1>10, Emptied

LEMMA OpenCableKeeps ==
  ASSUME CommandsInv, OpenCable
  PROVE  CommandsInv'
<1>1. /\ order.at = "opened" /\ UNCHANGED <<transport, sent, unit, shown>>
      /\ \/ /\ \/ \E late \in SUBSET cable.wire :
                    cable' = [Joined EXCEPT !.wire = late, !.inbox = <<>>]
               \/ cable' = Joined
            /\ order' = [order EXCEPT !.at = "sending"] /\ UNCHANGED <<told, failures>>
         \/ Fails /\ cable' = cable
      BY DEF OpenCable, OnTheWay, Fails
<1>2. Tidy(cable, unit, sent)
      BY DEF CommandsInv
<1>3. Tidy(cable', unit, sent) /\ PendingOf(cable') \subseteq PendingOf(cable)
  <2>1. CASE cable' = Joined
        BY <1>2, <2>1, JoinedKeeps
  <2>2. CASE cable' = cable
        BY <2>2, SameCable
  <2>3. ASSUME NEW late \in SUBSET cable.wire,
               cable' = [Joined EXCEPT !.wire = late, !.inbox = <<>>]
        PROVE  Tidy(cable', unit, sent) /\ PendingOf(cable') \subseteq PendingOf(cable)
        BY <2>3, OpenKeepsCable
  <2> QED  BY <1>1, <2>1, <2>2, <2>3
<1>4. Fails \/ (IsOrder(order') /\ GoesOn)
      BY <1>1, NextStage
<1> QED  BY <1>1, <1>3, <1>4, QuietStep

LEMMA CableFailsKeeps ==
  ASSUME CommandsInv, CableFails
  PROVE  CommandsInv'
<1>1. /\ cable' = Cut /\ Fails /\ UNCHANGED <<transport, sent, unit, shown>>
      BY DEF CableFails, NotAnswered, Fails
<1>2. Tidy(cable, unit, sent)
      BY DEF CommandsInv
<1>3. Tidy(cable', unit, sent) /\ PendingOf(cable') \subseteq PendingOf(cable)
      BY <1>1, <1>2, CutKeeps
<1> QED  BY <1>1, <1>3, QuietStep

LEMMA ArrivesKeeps ==
  ASSUME CommandsInv, NEW a \in cable.wire, ReplyArrives(a)
  PROVE  CommandsInv'
<1>1. /\ UNCHANGED <<told, failures, transport, sent, order, unit, shown>>
      /\ \E b : /\ b = a \/ b = [a EXCEPT !.says = "noise"]
                /\ cable' = [cable EXCEPT !.wire = @ \ {a}, !.inbox = Append(@, b)]
      BY DEF ReplyArrives, OnTheWay
<1>2. Tidy(cable, unit, sent) /\ IsOrder(order)
      BY DEF CommandsInv
<1>3. Tidy(cable', unit, sent) /\ PendingOf(cable') \subseteq PendingOf(cable)
      BY <1>1, <1>2, Arrived
<1>4. IsOrder(order') /\ GoesOn
      BY <1>1, <1>2 DEF GoesOn
<1> QED  BY <1>1, <1>3, <1>4, QuietStep

LEMMA TimesOutKeeps ==
  ASSUME CommandsInv, OrderTimesOut
  PROVE  CommandsInv'
<1>1. /\ cable' = Cut \/ cable' = cable
      /\ Fails /\ UNCHANGED <<transport, sent, unit, shown>>
      BY DEF OrderTimesOut, NotAnswered, Fails
<1>2. Tidy(cable, unit, sent)
      BY DEF CommandsInv
<1>3. Tidy(cable', unit, sent) /\ PendingOf(cable') \subseteq PendingOf(cable)
      BY <1>1, <1>2, CutKeeps
<1> QED  BY <1>1, <1>3, QuietStep

(* An answer is received: it succeeds, or the order fails.                 *)
LEMMA TakenFails ==
  ASSUME CommandsInv, cable.inbox # <<>>, cable' = [cable EXCEPT !.inbox = Tail(@)], Fails,
         UNCHANGED <<transport, sent, unit, shown>>
  PROVE  CommandsInv'
<1>1. Tidy(cable, unit, sent)
      BY DEF CommandsInv
<1>2. Tidy(cable', unit, sent) /\ PendingOf(cable') \subseteq PendingOf(cable)
      BY <1>1, HeadTaken
<1> QED  BY <1>2, QuietStep

LEMMA ReceiveSerialKeeps ==
  ASSUME CommandsInv, ReceiveSerial
  PROVE  CommandsInv'
<1>1. PICK a : a = Head(cable.inbox)
      OBVIOUS
<1>2. /\ order.at = "waiting" /\ transport = "rtu" /\ cable.inbox # <<>>
      /\ UNCHANGED <<transport, sent, unit>>
      /\ \/ /\ cable' = [cable EXCEPT !.inbox = Tail(@)]
            /\ FitsOrder(a) /\ Succeeds(a)
         \/ /\ cable' = [cable EXCEPT !.inbox = Tail(@)]
            /\ Fails /\ UNCHANGED shown
         \/ cable' = [cable EXCEPT !.inbox = <<>>] /\ Fails /\ UNCHANGED shown
      BY <1>1 DEF ReceiveSerial, Fails
<1>3. CASE /\ cable' = [cable EXCEPT !.inbox = Tail(@)]
           /\ FitsOrder(a) /\ Succeeds(a)
  <2>1. CASE a.says = "refused"
        BY <1>2, <1>3, <2>1, TakenFails DEF Succeeds, Fails
  <2>2. CASE a.says # "refused"
    <3>1. Success(a)
          BY <1>1, <1>2, <1>3, <2>2 DEF Succeeds, Success
    <3> QED  BY <3>1, SuccessKeeps
  <2> QED  BY <2>1, <2>2
<1>4. CASE cable' = [cable EXCEPT !.inbox = Tail(@)] /\ Fails /\ UNCHANGED shown
      BY <1>2, <1>4, TakenFails
<1>5. CASE cable' = [cable EXCEPT !.inbox = <<>>] /\ Fails /\ UNCHANGED shown
  <2>1. Tidy(cable, unit, sent)
        BY DEF CommandsInv
  <2>2. PICK s : s = <<>>
        OBVIOUS
  <2>3. cable' = [open |-> cable.open, wire |-> cable.wire, inbox |-> s]
        BY <1>5, <2>1, <2>2 DEF Tidy
  <2>4. cable'.open = cable.open /\ cable'.wire = cable.wire
        BY <2>3
  <2>5. Tidy(cable', unit, sent) /\ PendingOf(cable') \subseteq PendingOf(cable)
        BY <2>1, <2>2, <2>3, <2>4, Emptied
  <2> QED  BY <1>2, <1>5, <2>5, QuietStep
<1> QED  BY <1>2, <1>3, <1>4, <1>5

LEMMA ReceiveTransactionKeeps ==
  ASSUME CommandsInv, ReceiveTransaction
  PROVE  CommandsInv'
<1>1. PICK a : a = Head(cable.inbox)
      OBVIOUS
<1>2. /\ order.at = "waiting" /\ cable.inbox # <<>> /\ UNCHANGED <<transport, sent, unit>>
      /\ \/ /\ FitsTransaction(a) /\ cable' = [cable EXCEPT !.inbox = Tail(@)] /\ Succeeds(a)
         \/ cable' = Cut /\ Fails /\ UNCHANGED shown
      BY <1>1 DEF ReceiveTransaction, Fails
<1>3. CASE FitsTransaction(a) /\ cable' = [cable EXCEPT !.inbox = Tail(@)] /\ Succeeds(a)
  <2>1. CASE a.says = "refused"
        BY <1>2, <1>3, <2>1, TakenFails DEF Succeeds, Fails
  <2>2. CASE a.says # "refused"
    <3>1. Success(a)
          BY <1>1, <1>2, <1>3, <2>2 DEF Succeeds, Success, FitsTransaction
    <3> QED  BY <3>1, SuccessKeeps
  <2> QED  BY <2>1, <2>2
<1>4. CASE cable' = Cut /\ Fails /\ UNCHANGED shown
  <2>1. Tidy(cable, unit, sent)
        BY DEF CommandsInv
  <2>2. Tidy(cable', unit, sent) /\ PendingOf(cable') \subseteq PendingOf(cable)
        BY <1>4, <2>1, CutKeeps
  <2> QED  BY <1>2, <1>4, <2>2, QuietStep
<1> QED  BY <1>2, <1>3, <1>4

-----------------------------------------------------------------------------
LEMMA CommandsStart ==
  CommandsInit => CommandsInv
<1> SUFFICES ASSUME CommandsInit
             PROVE  CommandsInv
    OBVIOUS
<1>1. /\ transport \in {"rtu", "tcp"} /\ sent = 0 /\ failures = 0 /\ order = NoOrder
      /\ cable = [open |-> FALSE, wire |-> {}, inbox |-> <<>>]
      /\ unit = [wrote |-> {}, handed |-> {}] /\ shown = <<>>
      /\ told = [order |-> NoOrder.what, ok |-> FALSE, as |-> 0]
      BY DEF CommandsInit
<1>2. IsOrder(order) /\ order.at = "none"
      BY <1>1, NoOrderIs
<1>3. PICK s : s = <<>>
      OBVIOUS
<1>4. /\ s \in Seq(Replies) /\ s \in Seq(Nat) /\ Len(s) = 0
      BY <1>3, EmptySeq
<1>5. DOMAIN s = {}
  <2>1. DOMAIN s = 1..0
        BY <1>4, LenProperties
  <2> QED  BY <2>1
<1>6. cable = [open |-> FALSE, wire |-> {}, inbox |-> s] /\ shown = s
      BY <1>1, <1>3
<1>7. cable.wire = {} /\ cable.inbox = s /\ cable.open = FALSE
      BY <1>6
<1>8. unit.wrote = {} /\ unit.handed = {} /\ told.ok = FALSE /\ told.as = 0
      BY <1>1
<1>9. IsUnit(unit, sent)
      BY <1>1, <1>8 DEF IsUnit
<1>10. Tidy(cable, unit, sent)
      BY <1>4, <1>5, <1>6, <1>7 DEF Tidy, Single
<1>11. PendingOf(cable) = {}
      BY <1>5, <1>7 DEF PendingOf
<1>12. LastIsOwn(order, unit, sent) /\ ToldTrue(told, unit, sent)
      BY <1>1, <1>2, <1>8 DEF LastIsOwn, ToldTrue
<1>13. ShownOnce(shown, cable, sent)
      BY <1>4, <1>5, <1>6 DEF ShownOnce
<1>14. Settled(cable, unit, order, shown, failures)
  <2>1. PICK P : P = Owed(cable, unit)
        OBVIOUS
  <2>2. P = {}
        BY <1>8, <1>11, <2>1 DEF Owed
  <2>3. Cardinality(P) = 0
        BY <2>2, FS_EmptySet
  <2> QED  BY <1>1, <1>2, <1>4, <1>6, <2>1, <2>3 DEF Settled
<1> QED  BY <1>1, <1>2, <1>9, <1>10, <1>12, <1>13, <1>14 DEF CommandsInv

LEMMA CommandsStep ==
  CommandsInv /\ [CommandsNext]_commandVars => CommandsInv'
<1> SUFFICES ASSUME CommandsInv, [CommandsNext]_commandVars
             PROVE  CommandsInv'
    OBVIOUS
<1>1. CASE BeginWrite \/ BeginRecord
      BY <1>1, BeginKeeps DEF BeginWrite, BeginRecord
<1>2. CASE RefuseOrder \/ PrepareOrder \/ OpenCable \/ SendOrder \/ CableFails
      BY <1>2, RefuseKeeps, PrepareKeeps, OpenCableKeeps, SendKeeps, CableFailsKeeps
<1>3. ASSUME NEW a \in cable.wire, ReplyArrives(a)
      PROVE  CommandsInv'
      BY <1>3, ArrivesKeeps
<1>4. CASE ReceiveSerial \/ ReceiveTransaction \/ OrderTimesOut
      BY <1>4, ReceiveSerialKeeps, ReceiveTransactionKeeps, TimesOutKeeps
<1>5. CASE UNCHANGED commandVars
      BY <1>5 DEF commandVars, CommandsInv, ToldTrue
<1> QED  BY <1>1, <1>2, <1>3, <1>4, <1>5 DEF CommandsNext

LEMMA CommandsHold ==
  CommandsInv => ResponsesAreTrue
<1> SUFFICES ASSUME CommandsInv
             PROVE  ResponsesAreTrue
    OBVIOUS
<1>1. /\ told.ok /\ told.order.kind = "write" =>
           \E w \in unit.wrote :
             /\ w.target = told.order.target /\ w.ask <= told.as
             /\ transport = "tcp" => w.ask = told.as /\ w.word = told.order.word
      /\ \A i, j \in DOMAIN shown : shown[i] = shown[j] => i = j
      BY DEF CommandsInv, ToldTrue, ShownOnce
<1>2. ASSUME order.at = "none"
      PROVE  Cardinality(unit.handed) <= Len(shown) + failures
  <2>1. /\ sent \in Nat /\ Tidy(cable, unit, sent) /\ unit.handed \subseteq 1..sent
        /\ failures \in Nat /\ shown \in Seq(Nat)
        BY DEF CommandsInv, IsUnit, ShownOnce
  <2>2. IsFiniteSet(Owed(cable, unit)) /\ Cardinality(Owed(cable, unit)) \in Nat
        BY <2>1, OwedIsFinite
  <2>3. PICK h : h = unit.handed
        OBVIOUS
  <2>4. h \subseteq Owed(cable, unit)
        BY <2>3 DEF Owed
  <2>5. IsFiniteSet(h) /\ Cardinality(h) <= Cardinality(Owed(cable, unit))
        BY <2>2, <2>4, FS_Subset
  <2>6. Cardinality(h) \in Nat /\ Len(shown) \in Nat
        BY <2>1, <2>5, FS_CardinalityType, LenProperties
  <2>7. Cardinality(Owed(cable, unit)) <= Len(shown) + failures + 0
        BY <1>2 DEF CommandsInv, Settled
  <2> QED  BY <2>1, <2>2, <2>3, <2>5, <2>6, <2>7
<1> QED  BY <1>1, <1>2 DEF ResponsesAreTrue

(* What the operator is told of an order is what the device did, for any   *)
(* registers and values and any number of orders, lost, late and spoilt    *)
(* answers: a write told to have succeeded was done, over TCP that very    *)
(* one, no record is shown twice, and none is lost but with an order that  *)
(* was told to have failed.                                                *)
THEOREM ResponsesStayTrue == CommandsSpec => []ResponsesAreTrue
<1>1. CommandsSpec => []CommandsInv
      BY CommandsStart, CommandsStep, PTL DEF CommandsSpec
<1> QED  BY <1>1, CommandsHold, PTL

=============================================================================
