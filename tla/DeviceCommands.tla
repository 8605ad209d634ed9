--------------------------- MODULE DeviceCommands ---------------------------
(***************************************************************************)
(* Orders of the operator to a device: to write registers, or to read the  *)
(* next record of its log, which the device hands out once.  They go over  *)
(* the line the device is polled by, one at a time (ChannelExchange), and  *)
(* are sent once: what they did is known from the answer only.             *)
(*                                                                         *)
(* backend_device_command.cpp, modbus_write_executor.cpp, the writes of    *)
(* modbus_tcp_client.cpp and of the protocols.  External: the device, which*)
(* does what a request says when it arrives, or never, and whose answer    *)
(* comes at once, late or never.                                           *)
(***************************************************************************)
EXTENDS Naturals, Sequences, FiniteSets

CONSTANTS
  Targets,         (* registers commands write                              *)
  Words,           (* what can be written to them                           *)
  MaxOrders,       (* bound: orders that are sent                           *)
  MaxOrderFaults   (* bound: failures of lines, requests and answers         *)

ASSUME CommandsAssumption == MaxOrders \in Nat /\ MaxOrderFaults \in Nat

VARIABLES
  transport,   (* "rtu" or "tcp"                                            *)
  cable,       (* [open, wire, inbox]: answers under way and arrived        *)
  sent,        (* requests sent, which number the transactions              *)
  order,       (* the one that is carried out                               *)
  unit,        (* [wrote, handed]: the writes done and records handed out    *)
  told,        (* [order, ok, as]: the last response                        *)
  shown,       (* the records shown, one after the other                    *)
  failures,    (* orders the operator was told had failed                   *)
  orderFaults

commandVars == <<transport, cable, sent, order, unit, told, shown, failures, orderFaults>>

(* The two kinds of records are read by the same function and length.      *)
Writes == [kind : {"write"}, target : Targets, word : Words]
Records == [kind : {"event", "test"}, target : {"log"}, word : {"none"}]

NoOrder == [at |-> "none", what |-> CHOOSE o \in Records : TRUE]

OrderFault == orderFaults < MaxOrderFaults /\ orderFaults' = orderFaults + 1
NoOrderFault == UNCHANGED orderFaults

Cut == [open |-> FALSE, wire |-> IF transport = "tcp" THEN {} ELSE cable.wire, inbox |-> <<>>]
Joined == IF cable.open THEN cable ELSE [Cut EXCEPT !.open = TRUE]

Ends(ok) ==
  /\ order' = NoOrder
  /\ told' = [order |-> order.what, ok |-> ok, as |-> sent]
  /\ failures' = IF ok THEN failures ELSE failures + 1

(* Mutation: an order that is not answered is sent once more.              *)
SendAgain ==
  IF sent < MaxOrders THEN order' = [order EXCEPT !.at = "opened"] /\ UNCHANGED <<told, failures>>
  ELSE Ends(FALSE)

NotAnswered == Ends(FALSE)

OnTheWay == UNCHANGED <<told, failures>>

(***************************************************************************)
(* execute_device_command and read_em100_holding_register_range_once.      *)
(***************************************************************************)
BeginOrder(o) ==
  /\ order.at = "none" /\ sent < MaxOrders
  /\ order' = [at |-> "begun", what |-> o]
  /\ OnTheWay /\ NoOrderFault /\ UNCHANGED <<transport, cable, sent, unit, shown>>

BeginWrite == \E o \in Writes : BeginOrder(o)
BeginRecord == \E o \in Records : BeginOrder(o)

(* The device, its master, channel or type does not know the order, or the *)
(* value or the range is not allowed.                                      *)
RefuseOrder ==
  /\ order.at = "begun" /\ OrderFault
  /\ Ends(FALSE)
  /\ UNCHANGED <<transport, cable, sent, unit, shown>>

(* Under the lease, a serial port is opened first.                         *)
PrepareOrder ==
  /\ order.at = "begun"
  /\ \/ /\ cable' = IF transport = "rtu" THEN Joined ELSE cable
        /\ order' = [order EXCEPT !.at = "opened"] /\ OnTheWay /\ NoOrderFault
     \/ /\ transport = "rtu" /\ ~cable.open /\ OrderFault
        /\ Ends(FALSE) /\ UNCHANGED cable
  /\ UNCHANGED <<transport, sent, unit, shown>>

(***************************************************************************)
(* transceive: late answers that have come by now are thrown away on a     *)
(* serial line, others may still come.                                     *)
(***************************************************************************)
OpenCable ==
  /\ order.at = "opened"
  /\ \/ /\ IF transport = "rtu"
           THEN \E late \in SUBSET cable.wire : cable' = [Joined EXCEPT !.wire = late, !.inbox = <<>>]
           ELSE cable' = Joined
        /\ order' = [order EXCEPT !.at = "sending"] /\ OnTheWay /\ NoOrderFault
     \/ /\ ~cable.open /\ OrderFault
        /\ Ends(FALSE) /\ UNCHANGED cable
  /\ UNCHANGED <<transport, sent, unit, shown>>

Reply(says) == [ask |-> sent + 1, kind |-> order.what.kind, target |-> order.what.target, says |-> says]

(* What the device does with a request, if it gets it.                     *)
Does(says) ==
  unit' = IF says = "done"
          THEN [unit EXCEPT !.wrote = @ \cup {[ask |-> sent + 1, target |-> order.what.target,
                                               word |-> order.what.word]}]
          ELSE IF says = "record" THEN [unit EXCEPT !.handed = @ \cup {sent + 1}]
          ELSE unit

Says == IF order.what.kind = "write" THEN {"done", "refused"} ELSE {"record", "empty", "refused"}

SendOrder ==
  /\ order.at = "sending"
  /\ sent' = sent + 1
  /\ order' = [order EXCEPT !.at = "waiting"]
  /\ \/ UNCHANGED <<cable, unit>> /\ OrderFault
     \/ \E says \in Says :
          /\ Does(says)
          /\ cable' = [cable EXCEPT !.wire = @ \cup {Reply(says)}]
          /\ IF says = "refused" THEN OrderFault ELSE NoOrderFault
  /\ OnTheWay /\ UNCHANGED <<transport, shown>>

CableFails ==
  /\ order.at \in {"sending", "waiting"} /\ OrderFault
  /\ cable' = Cut /\ NotAnswered
  /\ UNCHANGED <<transport, sent, unit, shown>>

ReplyArrives(a) ==
  /\ a \in cable.wire /\ order.at \in {"sending", "waiting"}
  /\ \/ cable' = [cable EXCEPT !.wire = @ \ {a}, !.inbox = Append(@, a)] /\ NoOrderFault
     \/ /\ transport = "rtu" /\ OrderFault
        /\ cable' = [cable EXCEPT !.wire = @ \ {a}, !.inbox = Append(@, [a EXCEPT !.says = "noise"])]
  /\ OnTheWay /\ UNCHANGED <<transport, sent, order, unit, shown>>

(* The answer to a write repeats where and how much was written, not what; *)
(* that to a read how much was read.                                       *)
FitsOrder(a) ==
  /\ a.says # "noise"
  /\ order.what.kind = "write" <=> a.kind = "write"
  /\ a.says = "done" => a.target = order.what.target

FitsTransaction(a) == a.ask = sent /\ FitsOrder(a)

Succeeds(a) ==
  IF a.says = "refused" THEN Ends(FALSE) /\ UNCHANGED shown
  ELSE Ends(TRUE) /\ shown' = IF a.says = "record" THEN Append(shown, a.ask) ELSE shown

ReceiveSerial ==
  /\ order.at = "waiting" /\ transport = "rtu" /\ cable.inbox # <<>>
  /\ LET a == Head(cable.inbox) IN
     \/ /\ cable' = [cable EXCEPT !.inbox = Tail(@)]
        /\ IF FitsOrder(a) THEN Succeeds(a) ELSE Ends(FALSE) /\ UNCHANGED shown
     \/ /\ Len(cable.inbox) > 1
        /\ cable' = [cable EXCEPT !.inbox = <<>>] /\ Ends(FALSE) /\ UNCHANGED shown
  /\ NoOrderFault /\ UNCHANGED <<transport, sent, unit>>

ReceiveTransaction ==
  /\ order.at = "waiting" /\ transport = "tcp" /\ cable.inbox # <<>>
  /\ LET a == Head(cable.inbox) IN
     IF FitsTransaction(a) THEN cable' = [cable EXCEPT !.inbox = Tail(@)] /\ Succeeds(a)
     ELSE cable' = Cut /\ Ends(FALSE) /\ UNCHANGED shown
  /\ NoOrderFault /\ UNCHANGED <<transport, sent, unit>>

OrderTimesOut ==
  /\ order.at = "waiting" /\ cable.inbox = <<>>
  /\ IF \E a \in cable.wire : a.ask = sent THEN OrderFault ELSE NoOrderFault
  /\ cable' = IF transport = "tcp" THEN Cut ELSE cable
  /\ NotAnswered
  /\ UNCHANGED <<transport, sent, unit, shown>>

CommandsInit ==
  /\ transport \in {"rtu", "tcp"}
  /\ cable = [open |-> FALSE, wire |-> {}, inbox |-> <<>>]
  /\ sent = 0 /\ order = NoOrder /\ unit = [wrote |-> {}, handed |-> {}]
  /\ told = [order |-> NoOrder.what, ok |-> FALSE, as |-> 0]
  /\ shown = <<>> /\ failures = 0 /\ orderFaults = 0

CommandsNext ==
  \/ BeginWrite \/ BeginRecord \/ RefuseOrder \/ PrepareOrder \/ OpenCable \/ SendOrder \/ CableFails
  \/ \E a \in cable.wire : ReplyArrives(a)
  \/ ReceiveSerial \/ ReceiveTransaction \/ OrderTimesOut

CommandsSpec == CommandsInit /\ [][CommandsNext]_commandVars

(***************************************************************************)
(* What is promised.                                                       *)
(***************************************************************************)
(* A write the operator was told succeeded has been done: over TCP this    *)
(* very one; over a serial line possibly only an earlier one to the same   *)
(* registers, whose answer was late.  And no record is lost in silence or  *)
(* shown twice: of those the device handed out, at most as many are missing*)
(* as orders were told to have failed.                                     *)
ResponsesAreTrue ==
  /\ told.ok /\ told.order.kind = "write" =>
       \E w \in unit.wrote :
         /\ w.target = told.order.target /\ w.ask <= told.as
         /\ transport = "tcp" => w.ask = told.as /\ w.word = told.order.word
  /\ \A i, j \in DOMAIN shown : shown[i] = shown[j] => i = j
  /\ order.at = "none" => Cardinality(unit.handed) <= Len(shown) + failures
=============================================================================
