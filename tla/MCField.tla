------------------------------ MODULE MCField ------------------------------
(***************************************************************************)
(* The way of a value from the port of a device to the tables, part by     *)
(* part.  The parts share no state, so only the part in focus moves: a run *)
(* has the states of each part alone and not of all of them together.      *)
(***************************************************************************)
EXTENDS ChannelExchange, Collection, HistoryStore, EventStore,
        DeviceCommands, TLC

VARIABLE focus

fieldVars == <<focus, exchangeVars, collectionVars, historyVars, eventVars,
               commandVars>>

(* Two devices, the first of two blocks; one block of each has the same    *)
(* shape.                                                                  *)
TwoDevices == <<"x", "x", "y">>
TwoShapes == <<"s", "t", "s">>

(* Two lines share a port.                                                 *)
TwoPorts == ("p1" :> "p") @@ ("p2" :> "p") @@ ("q1" :> "q")

Parts == {"exchange", "collection", "history", "events", "commands"}

(* A part out of focus stands at one of its initial states.                *)
AtRest ==
  /\ focus # "exchange" => \A c \in Channels : line[c] = "p1"
  /\ focus # "collection" => medium = "rtu"
  /\ focus # "commands" => transport = "rtu"

(* When all orders that may be sent have been, the part may stop.          *)
CommandsRest == order.at = "none" /\ UNCHANGED commandVars

FieldInit ==
  /\ focus \in Parts
  /\ ExchangeInit /\ CollectionInit /\ HistoryInit /\ EventsInit /\ CommandsInit
  /\ AtRest

FieldNext ==
  /\ UNCHANGED focus
  /\ \/ /\ focus = "exchange" /\ ExchangeNext
        /\ UNCHANGED <<collectionVars, historyVars, eventVars, commandVars>>
     \/ /\ focus = "collection" /\ CollectionNext
        /\ UNCHANGED <<exchangeVars, historyVars, eventVars, commandVars>>
     \/ /\ focus = "history" /\ HistoryNext
        /\ UNCHANGED <<exchangeVars, collectionVars, eventVars, commandVars>>
     \/ /\ focus = "events" /\ EventsNext
        /\ UNCHANGED <<exchangeVars, collectionVars, historyVars, commandVars>>
     \/ /\ focus = "commands" /\ (CommandsNext \/ CommandsRest)
        /\ UNCHANGED <<exchangeVars, collectionVars, historyVars, eventVars>>

FieldSpec == FieldInit /\ [][FieldNext]_fieldVars
=============================================================================
