----------------------------- MODULE IpcClients -----------------------------
(***************************************************************************)
(* The connections of a running BackendIpcServer.  server_loop accepts     *)
(* them, gives each a slot and queues it for one of a few workers; stop()  *)
(* and the terminal failure of the listener end all of them.  A worker     *)
(* that finds nothing to do goes to sleep under the mutex of the queue;    *)
(* whoever wakes it without that mutex may come too early.                 *)
(*                                                                         *)
(* External: the clients.                                                  *)
(***************************************************************************)
EXTENDS Naturals, FiniteSets, Sequences, SequencesExt

CONSTANTS
  Connections,   (* connections of clients                                  *)
  Workers,       (* the threads of client_workers_                          *)
  Slots          (* kMaxConcurrentIpcClients                                *)

ASSUME ClientsAssumption == Slots \in Nat \ {0}

VARIABLES
  conn,       (* where each connection is, and whether it was shut down     *)
  queue,      (* client_queue_                                              *)
  slots,      (* active_client_tasks_                                       *)
  worker,     (* what each worker does                                      *)
  accepting,  (* server_loop: the connection in hand, or how it ends        *)
  halt        (* stop_requested_, and whether stop() has passed             *)

clientVars == <<conn, queue, slots, worker, accepting, halt>>

Put(c, at) == conn' = [conn EXCEPT ![c].at = at]
Open == {c \in Connections : conn[c].at \in {"tracked", "queued", "served"}}
QueueMutexFree == \A w \in Workers : worker[w].at # "dozing"
Close(C) == [c \in Connections |-> IF c \in C THEN [conn[c] EXCEPT !.at = "closed"] ELSE conn[c]]
ShutAll == [c \in Connections |-> [conn[c] EXCEPT !.shut = @ \/ c \in Open]]

Working(w) == worker' = [worker EXCEPT ![w] = [at |-> "looking", on |-> {}]]
Wake(W) == [w \in Workers |-> IF w \in W /\ worker[w].at = "asleep"
                              THEN [worker[w] EXCEPT !.at = "looking"] ELSE worker[w]]

Polling == [at |-> "polling", on |-> {}]

(***************************************************************************)
(* start_client_workers.                                                   *)
(***************************************************************************)
CreateWorker(w) ==
  /\ accepting.at = "starting" /\ worker[w].at = "none"
  /\ Working(w)
  /\ UNCHANGED <<conn, queue, slots, accepting, halt>>

WorkersCreated ==
  /\ accepting.at = "starting" /\ \A w \in Workers : worker[w].at # "none"
  /\ accepting' = Polling
  /\ UNCHANGED <<conn, queue, slots, worker, halt>>

(* The next thread cannot be made: those there are get told, here without  *)
(* the mutex, and are waited for.                                          *)
CreateFails ==
  /\ accepting.at = "starting" /\ \E w \in Workers : worker[w].at = "none"
  /\ halt' = [asked |-> TRUE, passed |-> TRUE]
  /\ worker' = Wake(Workers)
  /\ accepting' = [accepting EXCEPT !.at = "aborting"]
  /\ UNCHANGED <<conn, queue, slots>>

StartAborted ==
  /\ accepting.at = "aborting" /\ \A w \in Workers : worker[w].at \in {"none", "ended"}
  /\ accepting' = [accepting EXCEPT !.at = "joined"]
  /\ UNCHANGED <<conn, queue, slots, worker, halt>>

(***************************************************************************)
(* server_loop: a new connection.                                          *)
(***************************************************************************)

Accept(c) ==
  /\ accepting = Polling /\ conn[c].at = "away" /\ ~halt.asked
  /\ accepting' = [at |-> "accepted", on |-> {c}]
  /\ UNCHANGED <<conn, queue, slots, worker, halt>>

Leave(c) == Put(c, "closed") /\ accepting' = [at |-> "leaving", on |-> {}]

Track ==
  /\ accepting.at = "accepted"
  /\ \E c \in accepting.on :
       IF halt.asked THEN Leave(c)
       ELSE Put(c, "tracked") /\ accepting' = [accepting EXCEPT !.at = "tracked"]
  /\ UNCHANGED <<queue, slots, worker, halt>>

(* Without a slot the client is told that the server is busy.              *)
TakeSlot ==
  /\ accepting.at = "tracked"
  /\ IF slots < Slots
     THEN /\ slots' = slots + 1
          /\ accepting' = [accepting EXCEPT !.at = "slotted"]
          /\ UNCHANGED conn
     ELSE conn' = Close(accepting.on) /\ accepting' = Polling /\ UNCHANGED slots
  /\ UNCHANGED <<queue, worker, halt>>

(* After the push one worker is notified.                                  *)
Enqueue ==
  /\ accepting.at = "slotted" /\ QueueMutexFree
  /\ \E c \in accepting.on :
       IF halt.asked
       THEN Leave(c) /\ slots' = slots - 1 /\ UNCHANGED queue
       ELSE /\ Put(c, "queued") /\ queue' = Append(queue, c)
            /\ accepting' = [accepting EXCEPT !.at = "notify"]
            /\ UNCHANGED slots
  /\ UNCHANGED <<worker, halt>>

NotifyOne ==
  /\ accepting.at = "notify"
  /\ LET sleepers == {w \in Workers : worker[w].at = "asleep"}
     IN  IF sleepers = {} THEN UNCHANGED worker
         ELSE \E w \in sleepers : worker' = Wake({w})
  /\ accepting' = Polling
  /\ UNCHANGED <<conn, queue, slots, halt>>

(***************************************************************************)
(* client_worker_loop.                                                     *)
(***************************************************************************)
Look(w) ==
  /\ worker[w].at = "looking" /\ QueueMutexFree
  /\ IF queue # <<>>
     THEN /\ worker' = [worker EXCEPT ![w] = [at |-> "serving", on |-> {Head(queue)}]]
          /\ queue' = Tail(queue)
          /\ Put(Head(queue), "served")
     ELSE /\ worker' = [worker EXCEPT ![w].at = IF halt.asked THEN "ended" ELSE "dozing"]
          /\ UNCHANGED <<queue, conn>>
  /\ UNCHANGED <<slots, accepting, halt>>

(* The wait gives the mutex back.                                          *)
FallAsleep(w) ==
  /\ worker[w].at = "dozing"
  /\ worker' = [worker EXCEPT ![w].at = "asleep"]
  /\ UNCHANGED <<conn, queue, slots, accepting, halt>>

(* The request is answered, or could not be read in time or at all.        *)
Serve(w) ==
  /\ worker[w].at = "serving"
  /\ conn' = Close(worker[w].on)
  /\ worker' = [worker EXCEPT ![w].at = "releasing"]
  /\ UNCHANGED <<queue, slots, accepting, halt>>

ReleaseSlot(w) ==
  /\ worker[w].at = "releasing"
  /\ slots' = IF slots > 0 THEN slots - 1 ELSE 0
  /\ Working(w)
  /\ UNCHANGED <<conn, queue, accepting, halt>>

(***************************************************************************)
(* The end.                                                                *)
(***************************************************************************)
AskToHalt ==
  /\ ~halt.asked /\ accepting.at # "starting"
  /\ halt' = [asked |-> TRUE, passed |-> FALSE]
  /\ UNCHANGED <<conn, queue, slots, worker, accepting>>

(* stop() shuts the connections it finds; track_client_socket takes no     *)
(* more.                                                                   *)
ShutDown ==
  /\ halt = [asked |-> TRUE, passed |-> FALSE]
  /\ conn' = ShutAll
  /\ halt' = [halt EXCEPT !.passed = TRUE]
  /\ UNCHANGED <<queue, slots, worker, accepting>>

(* The listener is given up: report_terminal_failure.                      *)
ListenerGivesUp ==
  /\ accepting = Polling
  /\ halt' = IF halt.asked THEN halt ELSE [asked |-> TRUE, passed |-> TRUE]
  /\ accepting' = [at |-> "leaving", on |-> {}]
  /\ UNCHANGED <<conn, queue, slots, worker>>

(* Mutation: only stop() shuts the connections down.                       *)
EndWithoutPass ==
  /\ accepting.at = "leaving"
  /\ accepting' = [accepting EXCEPT !.at = "telling"]
  /\ UNCHANGED <<conn, queue, slots, worker, halt>>

(* server_loop ends with a pass of its own, for nobody else may make one.  *)
EndLoop ==
  /\ accepting.at = "leaving"
  /\ conn' = ShutAll
  /\ accepting' = [accepting EXCEPT !.at = "telling"]
  /\ UNCHANGED <<queue, slots, worker, halt>>

(* stop_client_workers: what waits in the queue is closed, and the workers *)
(* are told under the mutex and once more after it.                        *)
TellWorkers ==
  /\ accepting.at = "telling" /\ QueueMutexFree
  /\ worker' = Wake(Workers)
  /\ conn' = Close(ToSet(queue)) /\ queue' = <<>>
  /\ accepting' = [accepting EXCEPT !.at = "joining"]
  /\ UNCHANGED <<slots, halt>>

JoinWorkers ==
  /\ accepting.at = "joining" /\ \A w \in Workers : worker[w].at = "ended"
  /\ slots' = 0
  /\ accepting' = [accepting EXCEPT !.at = "joined"]
  /\ UNCHANGED <<conn, queue, worker, halt>>

ClientsInit ==
  /\ conn = [c \in Connections |-> [at |-> "away", shut |-> FALSE]]
  /\ queue = <<>> /\ slots = 0
  /\ worker = [w \in Workers |-> [at |-> "none", on |-> {}]]
  /\ accepting = [at |-> "starting", on |-> {}]
  /\ halt = [asked |-> FALSE, passed |-> FALSE]

ClientsNext ==
  \/ WorkersCreated \/ CreateFails \/ StartAborted
  \/ Track \/ TakeSlot \/ Enqueue \/ NotifyOne
  \/ AskToHalt \/ ShutDown \/ ListenerGivesUp \/ EndLoop \/ TellWorkers \/ JoinWorkers
  \/ \E c \in Connections : Accept(c)
  \/ \E w \in Workers : CreateWorker(w) \/ Look(w) \/ FallAsleep(w) \/ Serve(w) \/ ReleaseSlot(w)

ClientsSpec == ClientsInit /\ [][ClientsNext]_clientVars

(***************************************************************************)
(* Properties.                                                             *)
(***************************************************************************)
(* When the workers are waited for, none of them sleeps, nothing is left   *)
(* for them to begin, and no request is read without end: every connection *)
(* still open has been shut down.                                          *)
StopReachesEveryone ==
  accepting.at = "joining" =>
    /\ \A w \in Workers : worker[w].at \notin {"dozing", "asleep"}
    /\ queue = <<>> /\ \A c \in Open : conn[c].shut
=============================================================================
