----------------------------- MODULE MCPlatform -----------------------------
(***************************************************************************)
(* The parts of the backend that look after the board and its sockets, side*)
(* by side.  They share no state, so only the part in focus moves: a run   *)
(* has the states of each part alone and not of all of them together.      *)
(***************************************************************************)
EXTENDS NetworkApply, ChildProcess, TimeService, IpcListener, IpcClients,
        ModbusServing, ModbusSessions

VARIABLE focus

platformVars == <<focus, netVars, processVars, timeVars, listenerVars, clientVars, servingVars,
                  sessionVars>>

Parts == {"network", "process", "time", "listener", "clients", "serving", "sessions"}

(* A part out of focus stands at one of its initial states.                *)
AtRest ==
  /\ focus # "network" => kernel = CHOOSE k \in Booted : TRUE
  /\ focus # "network" => stored.set = CHOOSE s \in Settings : TRUE
  /\ focus # "process" => starter.at = "waiting"
  /\ focus # "time" => zone = (CHOOSE z \in Zones : TRUE) /\ foreign
  /\ focus # "time" => timeStored = CHOOSE s \in TimeSettings : TRUE
  /\ focus # "listener" => socketFile = NoFile
  /\ round.reader = CHOOSE c \in Readers : TRUE

(* Conversions are interchangeable.                                        *)
OneOfAKind == \A m \in Mappings : table[m].conv = CHOOSE c \in Conversions : TRUE

PlatformInit ==
  /\ focus \in Parts
  /\ NetworkInit /\ ProcessInit /\ TimeInit /\ ListenerInit /\ ClientsInit
  /\ ServingInit /\ SessionsInit
  /\ AtRest /\ OneOfAKind

PlatformNext ==
  /\ UNCHANGED focus
  /\ \/ focus = "network" /\ NetworkNext
        /\ UNCHANGED <<processVars, timeVars, listenerVars, clientVars, servingVars, sessionVars>>
     \/ focus = "process" /\ ProcessNext
        /\ UNCHANGED <<netVars, timeVars, listenerVars, clientVars, servingVars, sessionVars>>
     \/ focus = "time" /\ TimeNext
        /\ UNCHANGED <<netVars, processVars, listenerVars, clientVars, servingVars, sessionVars>>
     \/ focus = "listener" /\ ListenerNext
        /\ UNCHANGED <<netVars, processVars, timeVars, clientVars, servingVars, sessionVars>>
     \/ focus = "clients" /\ ClientsNext
        /\ UNCHANGED <<netVars, processVars, timeVars, listenerVars, servingVars, sessionVars>>
     \/ focus = "serving" /\ ServingNext
        /\ UNCHANGED <<netVars, processVars, timeVars, listenerVars, clientVars, sessionVars>>
     \/ focus = "sessions" /\ SessionsNext
        /\ UNCHANGED <<netVars, processVars, timeVars, listenerVars, clientVars, servingVars>>

PlatformSpec == PlatformInit /\ [][PlatformNext]_platformVars
=============================================================================
