---------------------------- MODULE IpcListener ----------------------------
(***************************************************************************)
(* The listening socket of BackendIpcServer: how it is made, rebuilt after *)
(* an error and given up, while a second process of the program does the   *)
(* same on the same path.  An flock beside the path keeps the two apart.   *)
(*                                                                         *)
(* External: the kernel, which drops the lock and the listener of a        *)
(* process that dies but leaves its socket file behind.                    *)
(***************************************************************************)
EXTENDS Naturals

CONSTANTS
  Backends,            (* processes that share the socket path              *)
  MaxListenFailures,   (* max_consecutive_listener_failures_                *)
  MaxSocketFaults      (* bound: system calls that fail, and crashes        *)

ASSUME ListenerAssumption ==
  MaxListenFailures \in Nat \ {0} /\ MaxSocketFaults \in Nat

VARIABLES
  socketFile,    (* the backend whose socket is at the path                 *)
  server,        (* server_loop of each backend                             *)
  caller,        (* start() and stop() of each backend                      *)
  socketFaults

listenerVars == <<socketFile, server, caller, socketFaults>>

NoFile == "nofile"

Down == [at |-> "down", lock |-> FALSE, owned |-> FALSE, listening |-> FALSE,
         stop |-> FALSE, failures |-> 0]

SetServer(b, s) == server' = [server EXCEPT ![b] = s]
SocketMayFail == socketFaults < MaxSocketFaults /\ socketFaults' = socketFaults + 1

(***************************************************************************)
(* open_listen_socket, at the start and for every recovery.                *)
(***************************************************************************)
(* Mutation: whatever file is at the path is removed.                      *)
ResetAnyFile(b, s) ==
  /\ SetServer(b, [s EXCEPT !.listening = FALSE, !.owned = FALSE])
  /\ socketFile' = NoFile

(* reset_listen_socket: the file goes if this server has bound it.         *)
Reset(b, s) ==
  /\ SetServer(b, [s EXCEPT !.listening = FALSE, !.owned = FALSE])
  /\ socketFile' = IF s.owned THEN NoFile ELSE socketFile

(* A failed attempt ends the start or is another failure to count.         *)
OpenFails(b) ==
  LET s == server[b] IN
  IF s.failures = 0 THEN Reset(b, [s EXCEPT !.at = "failed"])
  ELSE Reset(b, [s EXCEPT !.at = "failing", !.failures = @ + 1])

AcquireLock(b) ==
  /\ server[b].at = "opening"
  /\ IF \A o \in Backends \ {b} : ~server[o].lock
     THEN /\ SetServer(b, [server[b] EXCEPT !.at = "probing", !.lock = TRUE])
          /\ UNCHANGED socketFile
     ELSE OpenFails(b)
  /\ UNCHANGED <<caller, socketFaults>>

(* A file that answers is left alone; one whose listener is gone is        *)
(* removed.                                                                *)
ProbeAndClear(b) ==
  /\ server[b].at = "probing"
  /\ IF socketFile # NoFile /\ server[socketFile].listening
     THEN OpenFails(b)
     ELSE /\ socketFile' = NoFile
          /\ SetServer(b, [server[b] EXCEPT !.at = "binding"])
  /\ UNCHANGED <<caller, socketFaults>>

Bind(b) ==
  /\ server[b].at = "binding"
  /\ IF socketFile # NoFile THEN OpenFails(b)
     ELSE /\ socketFile' = b
          /\ SetServer(b, [server[b] EXCEPT !.at = "publishing", !.owned = TRUE])
  /\ UNCHANGED <<caller, socketFaults>>

(* listen; the listener is not published after a stop.                     *)
Publish(b) ==
  /\ server[b].at = "publishing"
  /\ IF server[b].stop THEN OpenFails(b)
     ELSE /\ SetServer(b, [server[b] EXCEPT !.at = "serving", !.listening = TRUE])
          /\ UNCHANGED socketFile
  /\ UNCHANGED <<caller, socketFaults>>

OpenCallFails(b) ==
  /\ server[b].at \in {"opening", "probing", "binding", "publishing"}
  /\ SocketMayFail /\ OpenFails(b)
  /\ UNCHANGED caller

(***************************************************************************)
(* server_loop after the start.                                            *)
(***************************************************************************)
(* poll or accept fails, also because stop() has shut the socket down.     *)
ListenerBreaks(b) ==
  /\ server[b].at = "serving" /\ ~server[b].stop
  /\ SocketMayFail
  /\ Reset(b, [server[b] EXCEPT !.at = "failing", !.failures = @ + 1])
  /\ UNCHANGED caller

(* The failures are consecutive only until poll returns without an error.  *)
PollSucceeds(b) ==
  /\ server[b].at = "serving" /\ ~server[b].stop /\ server[b].failures > 0
  /\ SetServer(b, [server[b] EXCEPT !.failures = 0])
  /\ UNCHANGED <<socketFile, caller, socketFaults>>

(* After the back-off another attempt; report_terminal_failure at the      *)
(* limit.                                                                  *)
Recover(b) ==
  /\ server[b].at = "failing" /\ ~server[b].stop
  /\ SetServer(b, IF server[b].failures >= MaxListenFailures
                  THEN [server[b] EXCEPT !.at = "leaving", !.stop = TRUE]
                  ELSE [server[b] EXCEPT !.at = "opening"])
  /\ UNCHANGED <<socketFile, caller, socketFaults>>

HonourStop(b) ==
  /\ server[b].at \in {"serving", "failing"} /\ server[b].stop
  /\ SetServer(b, [server[b] EXCEPT !.at = "leaving"])
  /\ UNCHANGED <<socketFile, caller, socketFaults>>

LeaveLoop(b) ==
  /\ server[b].at = "leaving"
  /\ Reset(b, [server[b] EXCEPT !.at = "ended"])
  /\ UNCHANGED <<caller, socketFaults>>

(***************************************************************************)
(* start() and stop(), which exclude each other.                           *)
(***************************************************************************)
(* start() joins the thread of a server that has failed and makes another; *)
(* the lock it still holds is kept.                                        *)
StartListener(b) ==
  /\ caller[b] = "idle" /\ server[b].at \in {"down", "ended"}
  /\ caller' = [caller EXCEPT ![b] = "starting"]
  /\ SetServer(b, [Down EXCEPT !.at = "opening", !.lock = server[b].lock])
  /\ UNCHANGED <<socketFile, socketFaults>>

StartReturns(b) ==
  /\ caller[b] = "starting" /\ server[b].at \in {"serving", "failing", "leaving", "ended"}
  /\ caller' = [caller EXCEPT ![b] = "idle"]
  /\ UNCHANGED <<socketFile, server, socketFaults>>

(* A start that failed cleans up like a stop.                              *)
StartFailed(b) ==
  /\ caller[b] = "starting" /\ server[b].at = "failed"
  /\ caller' = [caller EXCEPT ![b] = "removing"]
  /\ SetServer(b, [server[b] EXCEPT !.stop = TRUE])
  /\ UNCHANGED <<socketFile, socketFaults>>

AskToStop(b) ==
  /\ caller[b] = "idle" /\ server[b].at # "down"
  /\ caller' = [caller EXCEPT ![b] = "stopping"]
  /\ SetServer(b, [server[b] EXCEPT !.stop = TRUE])
  /\ UNCHANGED <<socketFile, socketFaults>>

JoinServer(b) ==
  /\ caller[b] = "stopping" /\ server[b].at \in {"ended", "failed"}
  /\ caller' = [caller EXCEPT ![b] = "removing"]
  /\ UNCHANGED <<socketFile, server, socketFaults>>

(* remove_socket_file, of a file the server still owns.                    *)
RemoveFile(b) ==
  /\ caller[b] = "removing"
  /\ Reset(b, server[b])
  /\ caller' = [caller EXCEPT ![b] = "releasing"]
  /\ UNCHANGED socketFaults

ReleaseLock(b) ==
  /\ caller[b] = "releasing"
  /\ SetServer(b, Down)
  /\ caller' = [caller EXCEPT ![b] = "idle"]
  /\ UNCHANGED <<socketFile, socketFaults>>

BackendDies(b) ==
  /\ server[b].at # "down"
  /\ SocketMayFail
  /\ SetServer(b, Down)
  /\ caller' = [caller EXCEPT ![b] = "idle"]
  /\ UNCHANGED socketFile

ListenerInit ==
  /\ socketFile \in Backends \cup {NoFile}
  /\ server = [b \in Backends |-> Down]
  /\ caller = [b \in Backends |-> "idle"]
  /\ socketFaults = 0

ListenerNext ==
  \E b \in Backends :
    \/ AcquireLock(b) \/ ProbeAndClear(b) \/ Bind(b) \/ Publish(b) \/ OpenCallFails(b)
    \/ ListenerBreaks(b) \/ PollSucceeds(b) \/ Recover(b) \/ HonourStop(b) \/ LeaveLoop(b)
    \/ StartListener(b) \/ StartReturns(b) \/ StartFailed(b) \/ AskToStop(b)
    \/ JoinServer(b) \/ RemoveFile(b) \/ ReleaseLock(b) \/ BackendDies(b)

ListenerSpec == ListenerInit /\ [][ListenerNext]_listenerVars

(***************************************************************************)
(* Properties.                                                             *)
(***************************************************************************)
(* A server that serves is the one clients find at the path, whatever the  *)
(* other process starts, rebuilds, removes or leaves behind meanwhile.     *)
ServingIsReachable ==
  \A b \in Backends : server[b].at = "serving" => socketFile = b
=============================================================================
