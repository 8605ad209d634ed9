---------------------------- MODULE ChildProcess ----------------------------
(***************************************************************************)
(* The three ways the backend starts a program: two of                     *)
(* backend_network_runtime.cpp and that of bounded_address_resolver.cpp.   *)
(*                                                                         *)
(* start_detached_process forks a launcher, which forks the process that   *)
(* is to stay.  That process writes its identity into a pipe, leaves the   *)
(* launcher's process group and becomes the program, which closes the      *)
(* pipe.  run_command forks a child, waits until it has ended and nobody   *)
(* holds the pipe of its output, and clears its process group when time is *)
(* up.  resolve_addresses_until has a helper look up a host name and reads *)
(* its answer from a pipe, until time is up or nobody wants it any more.   *)
(* External: the kernel, and what the programs do.                         *)
(***************************************************************************)
EXTENDS Sequences

VARIABLES
  starter,    (* start_detached_process                                     *)
  launcher,   (* its first child                                            *)
  detached,   (* the process that is to stay                                *)
  wire,       (* what they wrote into the startup pipe                      *)
  command,    (* run_command                                                *)
  lookup,     (* resolve_addresses_until                                    *)
  child,      (* the child of either                                        *)
  helper,     (* a process the child started                                *)
  said        (* what the child has written, if it resolves a name          *)

detachVars  == <<starter, launcher, detached, wire>>
commandVars == <<command, lookup, child, helper, said>>
processVars == <<detachVars, commandVars>>

(***************************************************************************)
(* start_detached_process: the children.                                   *)
(***************************************************************************)
Dies(message) == detached' = "dead" /\ wire' = wire \o message

LauncherStarts ==
  /\ launcher = "running" /\ detached = "none"
  /\ \/ detached' = "born" /\ UNCHANGED <<launcher, wire>>
     \/ launcher' = "failed" /\ wire' = Append(wire, "error") /\ UNCHANGED detached
  /\ UNCHANGED <<starter, commandVars>>

LauncherEnds ==
  /\ launcher = "running" /\ detached # "none"
  /\ launcher' = "ended"
  /\ UNCHANGED <<starter, detached, wire, commandVars>>

(* The identity is written while the process is still in the group.        *)
TellIdentity ==
  /\ detached = "born"
  /\ \/ detached' = "told" /\ wire' = Append(wire, "identity")
     \/ Dies(<<"error">>)
     \/ Dies(<<>>)
  /\ UNCHANGED <<starter, launcher, commandVars>>

LeaveGroup ==
  /\ detached = "told"
  /\ \/ detached' = "away" /\ UNCHANGED wire
     \/ Dies(<<"error">>)
  /\ UNCHANGED <<starter, launcher, commandVars>>

Execute ==
  /\ detached = "away"
  /\ \/ detached' = "program" /\ UNCHANGED wire
     \/ Dies(<<"error">>)
  /\ UNCHANGED <<starter, launcher, commandVars>>

(***************************************************************************)
(* start_detached_process: the parent.                                     *)
(***************************************************************************)
WireOpen == launcher = "running" \/ detached \in {"born", "told", "away"}

Received(message) == \E i \in DOMAIN wire : wire[i] = message

(* Draining the pipe.                                                      *)
Read(s) ==
  [s EXCEPT !.known = @ \/ Received("identity"), !.error = @ \/ Received("error")]

NotTheChildren == UNCHANGED <<launcher, detached, commandVars>>

ReadWire ==
  /\ starter.at = "waiting" /\ wire # <<>>
  /\ starter' = Read(starter)
  /\ wire' = <<>>
  /\ NotTheChildren

(* At the end of the pipe everything has been said.                        *)
EndOfWire ==
  /\ starter.at = "waiting" /\ wire = <<>> /\ ~WireOpen
  /\ starter' = [starter EXCEPT !.at = IF starter.error THEN "clearing" ELSE "reaping"]
  /\ NotTheChildren /\ UNCHANGED wire

(* Time is up; the pipe is drained once more.                              *)
StartTimesOut ==
  /\ starter.at = "waiting"
  /\ starter' = [Read(starter) EXCEPT !.at = "clearing", !.late = TRUE]
  /\ wire' = <<>>
  /\ NotTheChildren

(* The pipe cannot be polled; nothing more is read.                        *)
PollFails ==
  /\ starter.at = "waiting"
  /\ starter' = [starter EXCEPT !.at = "clearing", !.blind = TRUE]
  /\ NotTheChildren /\ UNCHANGED wire

KillLauncherGroup ==
  /\ starter.at = "clearing"
  /\ launcher' = IF launcher = "running" THEN "failed" ELSE launcher
  /\ detached' = IF detached \in {"born", "told"} THEN "dead" ELSE detached
  /\ starter' = [starter EXCEPT !.at = "identifying"]
  /\ UNCHANGED <<wire, commandVars>>

(* Mutation: the pipe is not read again after the group was killed.        *)
KillWhatWasKnown ==
  /\ starter.at = "identifying"
  /\ starter' = [starter EXCEPT !.at = "reaping", !.error = TRUE]
  /\ detached' = IF starter.known /\ detached # "none" THEN "dead" ELSE detached
  /\ UNCHANGED <<launcher, wire, commandVars>>

(* Whoever has left the group has told its identity before: after a        *)
(* timeout the pipe is read again and the process killed by its identity.  *)
KillIdentified ==
  /\ starter.at = "identifying"
  /\ LET s == IF starter.late THEN Read(starter) ELSE starter
     IN  /\ starter' = [s EXCEPT !.at = "reaping", !.error = TRUE]
         /\ detached' = IF s.known /\ detached # "none" THEN "dead" ELSE detached
  /\ wire' = IF starter.late THEN <<>> ELSE wire
  /\ UNCHANGED <<launcher, commandVars>>

ReapLauncher ==
  /\ starter.at = "reaping" /\ launcher # "running"
  /\ LET ok == ~starter.error /\ launcher = "ended" /\ starter.known
     IN  /\ starter' = [starter EXCEPT !.at = IF ok THEN "started" ELSE "refused"]
         /\ detached' = IF ~ok /\ starter.known THEN "dead" ELSE detached
  /\ UNCHANGED <<launcher, wire, commandVars>>

(***************************************************************************)
(* run_command.                                                            *)
(***************************************************************************)
OutputOpen == child = "running" \/ helper.pipe
Ended == child \in {"zero", "nonzero", "signalled"}

(* The child may start a helper, in its group or away from it, that keeps  *)
(* the pipe or not; both end when they like.  One that resolves a name     *)
(* writes its answer bit by bit, and ends well only when it is all written.*)
Resolving == lookup.at # "none"

ChildSpeaks ==
  /\ Resolving /\ child = "running" /\ said \in {"nothing", "part"}
  /\ said' \in {"part", "answer", "refusal"}
  /\ UNCHANGED <<command, lookup, child, helper, detachVars>>

(* write_all failed, the process died, or it has closed the pipe and exits.*)
ChildEnds ==
  /\ \/ /\ child = "running" /\ ~Resolving
        /\ child' \in {"zero", "nonzero"}
     \/ /\ child = "running" /\ Resolving
        /\ child' \in {"nonzero"} \cup (IF said \in {"answer", "refusal"} THEN {"closed"} ELSE {})
     \/ /\ child = "closed"
        /\ child' \in {"zero", "nonzero"}
  /\ UNCHANGED <<command, lookup, helper, said, detachVars>>

HelperActs ==
  /\ \/ /\ child = "running" /\ helper.at = "none"
        /\ \E at \in {"group", "away"}, p \in BOOLEAN : helper' = [at |-> at, pipe |-> p]
     \/ /\ helper.at \in {"group", "away"}
        /\ helper' = [at |-> "dead", pipe |-> FALSE]
  /\ UNCHANGED <<command, lookup, child, said, detachVars>>

(* A pass of the loop: output is read and the child waited for.            *)
Collect(c) ==
  [c EXCEPT !.reaped = @ \/ Ended, !.eof = @ \/ ~OutputOpen]

CollectCommand ==
  /\ command.at \in {"waiting", "terminated", "killed"}
  /\ command' = Collect(command)
  /\ UNCHANGED <<lookup, child, helper, said, detachVars>>

CommandEnds ==
  /\ command.at = "waiting" /\ command.reaped /\ command.eof
  /\ command' = [command EXCEPT !.at = "returned"]
  /\ UNCHANGED <<lookup, child, helper, said, detachVars>>

(* Time is up, or the pipe cannot be polled: SIGTERM, which may be         *)
(* ignored ...                                                             *)
TerminateGroup ==
  /\ command.at = "waiting" /\ ~(command.reaped /\ command.eof)
  /\ command' = [command EXCEPT !.at = "terminated", !.forced = TRUE]
  /\ child' \in {child} \cup (IF child = "running" THEN {"signalled"} ELSE {})
  /\ helper' \in {helper} \cup
       (IF helper.at = "group" THEN {[at |-> "dead", pipe |-> FALSE]} ELSE {})
  /\ UNCHANGED <<lookup, said, detachVars>>

(* ... and after 200 ms or less SIGKILL, also when the child is gone.      *)
KillGroup ==
  /\ command.at = "terminated"
  /\ command' = [command EXCEPT !.at = "killed"]
  /\ child' = IF child = "running" THEN "signalled" ELSE child
  /\ helper' = IF helper.at = "group" THEN [at |-> "dead", pipe |-> FALSE] ELSE helper
  /\ UNCHANGED <<lookup, said, detachVars>>

(* What is not reaped within 500 ms is left to be.                         *)
CommandForced ==
  /\ command.at = "killed"
  /\ command' = [Collect(command) EXCEPT !.at = "returned"]
  /\ UNCHANGED <<lookup, child, helper, said, detachVars>>

(***************************************************************************)
(* resolve_addresses_until.                                                *)
(***************************************************************************)
Lookup == [at |-> "none", got |-> "nothing", eof |-> FALSE, reaped |-> FALSE, cut |-> FALSE,
           result |-> "none"]
LookupReturns(l, result) == lookup' = [l EXCEPT !.at = "returned", !.result = result]

(* Given up before or too late, resolved without a helper because the host *)
(* is an address, or the pipe or the helper cannot be made.                *)
LookupAlone ==
  /\ lookup.at = "asked"
  /\ \E result \in {"cancelled", "late", "resolved", "failed"} : LookupReturns(lookup, result)
  /\ UNCHANGED <<command, child, helper, said, detachVars>>

SpawnResolver ==
  /\ lookup.at = "asked"
  /\ lookup' = [lookup EXCEPT !.at = "waiting"]
  /\ child' = "running"
  /\ UNCHANGED <<command, helper, said, detachVars>>

(* A pass of the loop reads what there is, and then looks at the helper.   *)
ReadAnswer ==
  /\ lookup.at = "waiting"
  /\ lookup' = [lookup EXCEPT !.at = "reaping", !.got = IF lookup.eof THEN @ ELSE said,
                              !.eof = @ \/ ~OutputOpen]
  /\ UNCHANGED <<command, child, helper, said, detachVars>>

(* parse_payload: only a whole answer is one.                              *)
Parsed(l) == IF child = "zero" /\ l.got = "answer" THEN "resolved" ELSE "failed"

ReapResolver ==
  /\ lookup.at = "reaping"
  /\ LET l == [lookup EXCEPT !.at = "waiting", !.reaped = @ \/ Ended]
     IN  IF l.eof /\ l.reaped THEN LookupReturns(l, Parsed(l)) ELSE lookup' = l
  /\ UNCHANGED <<command, child, helper, said, detachVars>>

(* terminate_and_reap, when it was cancelled, time is up, the pipe fails or*)
(* holds too much: nothing is killed once the helper has been reaped.      *)
CutLookup ==
  /\ lookup.at = "waiting" \/ (lookup.at = "reaping" /\ ~lookup.eof)
  /\ \E result \in {"cancelled", "late", "failed"} :
       LookupReturns([lookup EXCEPT !.cut = ~lookup.reaped, !.reaped = TRUE], result)
  /\ IF lookup.reaped THEN UNCHANGED <<child, helper>>
     ELSE /\ child' = IF Ended THEN child ELSE "signalled"
          /\ helper' = IF helper.at = "group" THEN [at |-> "dead", pipe |-> FALSE] ELSE helper
  /\ UNCHANGED <<command, said, detachVars>>

(***************************************************************************)
(* One of the three is called.                                             *)
(***************************************************************************)
NoStarter == [at |-> "none", known |-> FALSE, error |-> FALSE, late |-> FALSE, blind |-> FALSE]
NoCommand == [at |-> "none", reaped |-> FALSE, eof |-> FALSE, forced |-> FALSE]

ProcessInit ==
  /\ detached = "none" /\ wire = <<>> /\ said = "nothing"
  /\ helper = [at |-> "none", pipe |-> FALSE]
  /\ \/ /\ starter = [NoStarter EXCEPT !.at = "waiting"] /\ launcher = "running"
        /\ command = NoCommand /\ lookup = Lookup /\ child = "none"
     \/ /\ starter = NoStarter /\ launcher = "none"
        /\ command = [NoCommand EXCEPT !.at = "waiting"] /\ lookup = Lookup /\ child = "running"
     \/ /\ starter = NoStarter /\ launcher = "none"
        /\ command = NoCommand /\ lookup = [Lookup EXCEPT !.at = "asked"] /\ child = "none"

ProcessNext ==
  \/ LauncherStarts \/ LauncherEnds \/ TellIdentity \/ LeaveGroup \/ Execute
  \/ ReadWire \/ EndOfWire \/ StartTimesOut \/ PollFails
  \/ KillLauncherGroup \/ KillIdentified \/ ReapLauncher
  \/ ChildSpeaks \/ ChildEnds \/ HelperActs
  \/ CollectCommand \/ CommandEnds \/ TerminateGroup \/ KillGroup \/ CommandForced
  \/ LookupAlone \/ SpawnResolver \/ ReadAnswer \/ ReapResolver \/ CutLookup

ProcessSpec == ProcessInit /\ [][ProcessNext]_processVars

(***************************************************************************)
(* Properties.                                                             *)
(***************************************************************************)
(* A start that is reported as failed leaves nothing behind, whenever in   *)
(* the life of the children time ran out (unless the pipe itself failed,   *)
(* after which an unknown process cannot be found).                        *)
StartLeavesNothing ==
  starter.at = "refused" /\ ~starter.blind => detached \in {"none", "dead"}

(* A command cut short leaves nothing in its group; one that returned by   *)
(* itself had ended and nobody held its output.                            *)
CommandLeavesNothing ==
  command.at = "returned" =>
    /\ child # "running"
    /\ IF command.forced THEN helper.at # "group" ELSE ~helper.pipe

(* A lookup that has returned leaves no helper, not even a dead one that   *)
(* nobody has waited for, and, when it was cut short, nothing in its group;*)
(* and what it resolved is the whole answer of a helper that ended well.   *)
LookupLeavesNothing ==
  lookup.at = "returned" /\ child # "none" =>
    /\ Ended /\ lookup.reaped
    /\ lookup.cut => helper.at # "group"
    /\ lookup.result = "resolved" => child = "zero" /\ said = "answer"

NothingIsLeft == StartLeavesNothing /\ CommandLeavesNothing /\ LookupLeavesNothing
=============================================================================
