--------------------------- MODULE ModbusSessions ---------------------------
(***************************************************************************)
(* The clients of the Modbus TCP server.  One thread polls the sockets:    *)
(* it accepts, and then, client by client, reads what has come, answers    *)
(* every request in it, sends what the socket takes and closes a client    *)
(* that has ended its side when it has all its answers.  What an answer    *)
(* holds is in ModbusServing.                                              *)
(*                                                                         *)
(* modbus_tcp_server.cpp.  External: the clients.                          *)
(***************************************************************************)
EXTENDS Naturals, Sequences, FiniteSets

CONSTANTS
  Readers,        (* clients, each of which connects once                   *)
  MaxReaders,     (* max_clients                                            *)
  SendLimit,      (* answers the send buffer of a session takes             *)
  MaxAsked,       (* bound: requests of a client                            *)
  MaxIoFaults     (* bound: failures, changes of the settings               *)

ASSUME SessionsAssumption ==
  /\ MaxReaders \in Nat \ {0} /\ SendLimit \in Nat \ {0}
  /\ MaxAsked \in Nat /\ MaxIoFaults \in Nat

VARIABLES
  io,        (* the I/O thread: "none", "polling" or "serving"              *)
  reader,    (* the sessions, of each client: where it is, whether it has    *)
             (* ended its side, its requests not read yet, its answers not   *)
             (* sent yet and those it has                                   *)
  round,     (* the client that is served, if io is "serving"               *)
  stopAsked, (* stop_requested_                                             *)
  ioFaults

sessionVars == <<io, reader, round, stopAsked, ioFaults>>

IoFault == ioFaults < MaxIoFaults /\ ioFaults' = ioFaults + 1

Connected == {c \in Readers : reader[c].at = "open"}

(* A client is gone: with all its answers, or dropped with what it has.    *)
Gone(r, how) == [r EXCEPT !.at = how, !.requests = 0, !.unsent = <<>>]
CloseReader(c, how) == reader' = [reader EXCEPT ![c] = Gone(@, how)]

CloseReaders ==
  reader' = [c \in Readers |-> IF c \in Connected THEN Gone(reader[c], "dropped") ELSE reader[c]]

(***************************************************************************)
(* start and stop.                                                         *)
(***************************************************************************)
(* Without a thread, also after one that failed, start makes one anew.     *)
StartIo ==
  /\ io = "none" /\ ioFaults < MaxIoFaults
  /\ \/ io' = "polling" /\ UNCHANGED ioFaults
     \/ IoFault /\ UNCHANGED io
  /\ stopAsked' = FALSE
  /\ UNCHANGED <<reader, round>>

StopIo ==
  /\ io # "none" /\ ~stopAsked /\ IoFault
  /\ stopAsked' = TRUE
  /\ UNCHANGED <<io, reader, round>>

(* The thread sees it between two rounds.                                  *)
IoStops ==
  /\ io = "polling" /\ stopAsked
  /\ io' = "none" /\ CloseReaders
  /\ UNCHANGED <<round, stopAsked, ioFaults>>

(* Poll fails, or the socket that listens, or there is no memory.          *)
IoDies ==
  /\ io # "none" /\ IoFault
  /\ io' = "none" /\ CloseReaders
  /\ UNCHANGED <<round, stopAsked>>

(***************************************************************************)
(* The clients.                                                            *)
(***************************************************************************)
AskReader(c) ==
  /\ reader[c].at = "open" /\ ~reader[c].ended /\ reader[c].asked < MaxAsked
  /\ reader' = [reader EXCEPT ![c].asked = @ + 1, ![c].requests = @ + 1]
  /\ UNCHANGED <<io, round, stopAsked, ioFaults>>

EndReader(c) ==
  /\ reader[c].at = "open" /\ ~reader[c].ended
  /\ reader' = [reader EXCEPT ![c].ended = TRUE]
  /\ UNCHANGED <<io, round, stopAsked, ioFaults>>

(***************************************************************************)
(* A round.                                                                *)
(***************************************************************************)
AcceptReader(c) ==
  /\ io = "polling" /\ reader[c].at = "out"
  /\ IF Cardinality(Connected) < MaxReaders
     THEN reader' = [reader EXCEPT ![c].at = "open"]
     ELSE reader' = [reader EXCEPT ![c].at = "refused"]
  /\ UNCHANGED <<io, round, stopAsked, ioFaults>>

(* Reads what has come: requests, or that no more will.                    *)
ServeReader(c) ==
  /\ io = "polling" /\ reader[c].at = "open"
  /\ reader[c].requests > 0 \/ reader[c].unsent # <<>> \/ (reader[c].ended /\ ~reader[c].eof)
  /\ io' = "serving"
  /\ round' = [reader |-> c, left |-> reader[c].requests]
  /\ reader' = [reader EXCEPT ![c].requests = 0, ![c].eof = reader[c].ended]
  /\ UNCHANGED <<stopAsked, ioFaults>>

(* process_adu; an answer too many for the send buffer ends the session.   *)
AnswerReader ==
  /\ io = "serving" /\ round.left > 0
  /\ LET c == round.reader
         number == Len(reader[c].got) + Len(reader[c].unsent) + 1
     IN IF Len(reader[c].unsent) < SendLimit
        THEN /\ reader' = [reader EXCEPT ![c].unsent = Append(@, number)]
             /\ round' = [round EXCEPT !.left = @ - 1] /\ UNCHANGED io
        ELSE CloseReader(c, "dropped") /\ io' = "polling" /\ round' = [round EXCEPT !.left = 0]
  /\ UNCHANGED <<stopAsked, ioFaults>>

(* Mutation: the end of its side ends the session.                         *)
SendAndClose ==
  /\ io = "serving" /\ round.left = 0
  /\ LET c == round.reader IN
     \E n \in 0 .. Len(reader[c].unsent) :
       LET sent == [reader[c] EXCEPT !.got = @ \o SubSeq(reader[c].unsent, 1, n),
                                     !.unsent = SubSeq(@, n + 1, Len(@))]
       IN reader' = [reader EXCEPT ![c] = IF sent.eof THEN Gone(sent, "done") ELSE sent]
  /\ io' = "polling"
  /\ UNCHANGED <<round, stopAsked, ioFaults>>

SendReader ==
  /\ io = "serving" /\ round.left = 0
  /\ LET c == round.reader IN
     \E n \in 0 .. Len(reader[c].unsent) :
       LET sent == [reader[c] EXCEPT !.got = @ \o SubSeq(reader[c].unsent, 1, n),
                                     !.unsent = SubSeq(@, n + 1, Len(@))]
       IN reader' = [reader EXCEPT ![c] = IF sent.eof /\ sent.unsent = <<>> THEN Gone(sent, "done")
                                          ELSE sent]
  /\ io' = "polling"
  /\ UNCHANGED <<round, stopAsked, ioFaults>>

(* Idle for too long, a frame that is none, too much of it, or an error of *)
(* the socket.                                                             *)
DropReader(c) ==
  /\ io = "polling" /\ reader[c].at = "open" /\ IoFault
  /\ CloseReader(c, "dropped")
  /\ UNCHANGED <<io, round, stopAsked>>

(***************************************************************************)
(* The specification.                                                      *)
(***************************************************************************)
SessionsInit ==
  /\ io = "none" /\ stopAsked = FALSE /\ ioFaults = 0
  /\ reader = [c \in Readers |-> [at |-> "out", ended |-> FALSE, eof |-> FALSE, asked |-> 0,
                                  requests |-> 0, unsent |-> <<>>, got |-> <<>>]]
  /\ round \in [reader : Readers, left : {0}]

SessionsNext ==
  \/ StartIo \/ StopIo \/ IoStops \/ IoDies
  \/ \E c \in Readers : AskReader(c) \/ EndReader(c) \/ AcceptReader(c) \/ ServeReader(c) \/ DropReader(c)
  \/ AnswerReader \/ SendReader

SessionsSpec == SessionsInit /\ [][SessionsNext]_sessionVars

(***************************************************************************)
(* What is promised.                                                       *)
(***************************************************************************)
(* A client gets the answers to its requests in their order, and all of    *)
(* them when it has only ended its side; there are never more clients than *)
(* allowed, and none is left when the thread has ended.                    *)
ReadersAreAnswered ==
  /\ \A c \in Readers :
       /\ reader[c].got = [n \in 1 .. Len(reader[c].got) |-> n]
       /\ Len(reader[c].got) <= reader[c].asked
       /\ reader[c].at = "done" => Len(reader[c].got) = reader[c].asked
  /\ Cardinality(Connected) <= MaxReaders
  /\ io = "none" => Connected = {}
=============================================================================
