---------------------------- MODULE NetworkApply ----------------------------
(***************************************************************************)
(* The settings of the network interface: in the database, in memory and   *)
(* in the kernel.  backend_network_config.cpp stores them,                 *)
(* backend_network_runtime.cpp applies them with a series of commands each *)
(* of which may fail, and rolls back from a snapshot of the kernel.  The   *)
(* network mutex lets one operation run at a time.                         *)
(*                                                                         *)
(* External: the kernel, udhcpc, the system that configures the interface  *)
(* at boot.                                                                *)
(***************************************************************************)
EXTENDS Naturals, Sequences

CONSTANTS
  Static,           (* settings with an address of their own                *)
  Dynamic,          (* settings that leave the address to DHCP              *)
  RequireExplicit,  (* only settings a user confirmed are applied           *)
  MaxClients,       (* bound: DHCP clients on the interface                 *)
  MaxNetFaults      (* bound: commands and writes that fail                 *)

None == "none"

ASSUME NetworkAssumption ==
  /\ Static \cap Dynamic = {} /\ Static \cup Dynamic # {} /\ None \notin Static \cup Dynamic
  /\ RequireExplicit \in BOOLEAN
  /\ MaxClients \in Nat \ {0} /\ MaxNetFaults \in Nat

VARIABLES
  kernel,     (* link, addresses, gateway, resolv.conf and DHCP clients     *)
  stored,     (* the settings in the database, and whether confirmed        *)
  settings,   (* system_config_: the settings in memory                     *)
  net,        (* the operation that holds the network mutex                 *)
  netFaults

netVars == <<kernel, stored, settings, net, netFaults>>

Settings == Static \cup Dynamic

(* What a rollback goes back to.  Only the first address is read, and what *)
(* cannot be read passes for absent, or, the flags of the link, unknown.   *)
Snapshots(k) ==
  {[up |-> u, addr |-> a, gw |-> g, dns |-> d, clients |-> k.clients] :
     u \in {{k.up}, {}}, a \in k.addr \cup {None}, g \in {k.gw, None}, d \in {k.dns, None}}

(* What an application of s is to bring about.                             *)
Wanted(s) ==
  [up |-> {TRUE}, addr |-> s, gw |-> s, dns |-> s,
   clients |-> IF s \in Static THEN 0 ELSE 1]

(* The commands of an application ...                                      *)
Forward(s) ==
  <<"up", "stop", "flush", "routes">> \o
  (IF s \in Static THEN <<"address", "gateway", "dns">> ELSE <<"client", "lease">>) \o
  <<"count">>

If(c, step) == IF c THEN <<step>> ELSE <<>>

(* Mutation: the link is left up.                                          *)
UndoAndStayUp(snap) ==
  <<"halt", "flush">> \o
  If(TRUE \in snap.up \/ snap.addr # None \/ snap.gw # None, "up") \o
  If(snap.addr # None, "address") \o
  If(snap.addr # None /\ snap.gw # None, "gateway") \o
  <<"dns", "restart", "count">>

(* ... and of its rollback, whose failures are noted and passed over.      *)
Undo(snap) ==
  <<"halt", "flush">> \o
  If(TRUE \in snap.up \/ snap.addr # None \/ snap.gw # None, "up") \o
  If(snap.addr # None, "address") \o
  If(snap.addr # None /\ snap.gw # None, "gateway") \o
  If(FALSE \in snap.up, "down") \o
  <<"dns", "restart", "count">>

(***************************************************************************)
(* The operation in hand.                                                  *)
(***************************************************************************)
NoSnapshot == [up |-> {}, addr |-> None, gw |-> None, dns |-> None, clients |-> 0]

Resting(last) ==
  [stage |-> "idle", kind |-> "none", target |-> last, prev |-> last,
   snap |-> NoSnapshot, want |-> NoSnapshot, todo |-> <<>>, undoing |-> FALSE, notes |-> FALSE]

AtStep(c) == net.stage = "applying" /\ net.todo # <<>> /\ Head(net.todo) = c

Proceed == net' = [net EXCEPT !.todo = Tail(@)]

Rollback ==
  [net EXCEPT !.undoing = TRUE, !.todo = Undo(net.snap), !.want = net.snap]

(* A failure starts the rollback, or is noted by it.                       *)
Fails ==
  net' = IF net.undoing THEN [net EXCEPT !.todo = Tail(@), !.notes = TRUE] ELSE Rollback

MayFail ==
  /\ netFaults < MaxNetFaults
  /\ netFaults' = netFaults + 1

NotTheKernel == UNCHANGED <<stored, settings>>

(* A command that changes the kernel to k, or fails and leaves it.         *)
Runs(k) ==
  /\ \/ kernel' = k /\ Proceed /\ UNCHANGED netFaults
     \/ kernel' = kernel /\ Fails /\ MayFail
  /\ NotTheKernel

LinkUp   == AtStep("up") /\ Runs([kernel EXCEPT !.up = TRUE])
LinkDown == AtStep("down") /\ Runs([kernel EXCEPT !.up = FALSE, !.gw = None])
Flush    == AtStep("flush") /\ Runs([kernel EXCEPT !.addr = {}, !.gw = None])
Routes   == AtStep("routes") /\ Runs([kernel EXCEPT !.gw = None])
Address  == AtStep("address") /\ Runs([kernel EXCEPT !.addr = @ \cup {net.want.addr}])

(* A gateway is refused while it cannot be reached.                        *)
Gateway ==
  /\ AtStep("gateway")
  /\ \/ /\ kernel.up /\ kernel.addr # {}
        /\ Runs([kernel EXCEPT !.gw = net.want.gw])
     \/ /\ ~(kernel.up /\ kernel.addr # {})
        /\ Fails
        /\ UNCHANGED <<kernel, netFaults>> /\ NotTheKernel

(* resolv.conf is truncated before it is written.                          *)
Resolver ==
  /\ AtStep("dns")
  /\ \/ Runs([kernel EXCEPT !.dns = net.want.dns])
     \/ kernel' = [kernel EXCEPT !.dns = None] /\ Fails /\ MayFail /\ NotTheKernel

(* Clients are signalled, killed and looked for again; one may survive or  *)
(* have been started meanwhile.  The rollback does not mind.               *)
StopClients ==
  /\ AtStep("stop") \/ AtStep("halt")
  /\ \/ /\ kernel' = [kernel EXCEPT !.clients = 0]
        /\ Proceed
        /\ UNCHANGED netFaults
     \/ /\ \E n \in 0..kernel.clients : kernel' = [kernel EXCEPT !.clients = n]
        /\ IF AtStep("halt") THEN Proceed ELSE Fails
        /\ MayFail
  /\ NotTheKernel

StartClient ==
  /\ \/ AtStep("client")
     \/ AtStep("restart") /\ net.want.clients > 0 /\ kernel.clients = 0
  /\ kernel.clients < MaxClients
  /\ Runs([kernel EXCEPT !.clients = @ + 1])

SkipRestart ==
  /\ AtStep("restart")
  /\ net.want.clients = 0 \/ kernel.clients > 0
  /\ Proceed
  /\ UNCHANGED <<kernel, netFaults>> /\ NotTheKernel

(* The address is awaited for ten seconds.                                 *)
LeaseArrived ==
  /\ AtStep("lease") /\ kernel.addr # {}
  /\ IF kernel.clients = 1 THEN Proceed ELSE Fails
  /\ UNCHANGED <<kernel, netFaults>> /\ NotTheKernel

(* At the start a client that still asks for its address is left alone.    *)
LeaseTimesOut ==
  /\ AtStep("lease") /\ kernel.addr = {}
  /\ IF net.kind = "startup" /\ kernel.clients = 1
     THEN net' = Resting(net.target)
     ELSE Fails
  /\ MayFail
  /\ UNCHANGED kernel /\ NotTheKernel

CountClients ==
  /\ AtStep("count")
  /\ IF kernel.clients = (IF net.want.clients > 0 THEN 1 ELSE 0) THEN Proceed ELSE Fails
  /\ UNCHANGED <<kernel, netFaults>> /\ NotTheKernel

(***************************************************************************)
(* The operations around an application.                                   *)
(***************************************************************************)
Unconfirmed(s) == RequireExplicit /\ ~s.explicit

(* Applying the settings in memory, or giving up because there is no such  *)
(* interface or no privilege.                                              *)
Begin(kind, target, prev) ==
  \/ \E snap \in Snapshots(kernel) :
       net' = [stage |-> "applying", kind |-> kind, target |-> target, prev |-> prev,
               snap |-> snap, want |-> Wanted(target.set), todo |-> Forward(target.set),
               undoing |-> FALSE, notes |-> FALSE]
  \/ net' = IF kind = "save"
            THEN [Resting(target) EXCEPT !.stage = "restoring", !.prev = prev]
            ELSE Resting(target)

ApplySettings ==
  /\ net.stage = "idle"
  /\ ~Unconfirmed(settings)
  /\ Begin("apply", settings, settings)
  /\ UNCHANGED <<kernel, stored, settings, netFaults>>

ApplyOnStartup ==
  /\ net.stage = "starting"
  /\ IF Unconfirmed(settings) THEN net' = Resting(settings)
     ELSE Begin("startup", settings, settings)
  /\ UNCHANGED <<kernel, stored, settings, netFaults>>

(* update_network_settings: stored, not applied and not confirmed.         *)
UpdateSettings ==
  /\ net.stage = "idle"
  /\ \E s \in Settings : stored' = [set |-> s, explicit |-> FALSE]
  /\ settings' = stored'
  /\ net' = Resting(settings')
  /\ UNCHANGED <<kernel, netFaults>>

(* save_and_apply_network_settings; a failed write ends it there.          *)
SaveAndApply ==
  /\ net.stage = "idle"
  /\ \E s \in Settings :
       /\ stored' = [set |-> s, explicit |-> TRUE]
       /\ settings' = stored'
       /\ Begin("save", stored', settings)
  /\ UNCHANGED <<kernel, netFaults>>

FinishApply ==
  /\ net.stage = "applying" /\ net.todo = <<>>
  /\ net' = IF net.kind = "save" /\ net.undoing
            THEN [Resting(net.target) EXCEPT !.stage = "restoring", !.prev = net.prev]
            ELSE Resting(net.target)
  /\ UNCHANGED <<kernel, stored, settings, netFaults>>

(* Mutation: the former settings are applied again in any case.            *)
ApplyAgain == Begin("again", net.prev, net.prev)

(* The former settings are applied again, unless nobody had confirmed      *)
(* them.                                                                   *)
ApplyFormer ==
  IF Unconfirmed(net.prev) THEN net' = Resting(net.prev) ELSE Begin("again", net.prev, net.prev)

(* After a failed application the former settings are stored again.        *)
RestoreStored ==
  /\ net.stage = "restoring"
  /\ \/ /\ stored' = net.prev /\ settings' = net.prev
        /\ ApplyFormer
        /\ UNCHANGED netFaults
     \/ /\ net' = Resting(net.target)
        /\ MayFail
        /\ UNCHANGED <<stored, settings>>
  /\ UNCHANGED kernel

(***************************************************************************)
(* The surroundings.  Nothing happens between the last check of an         *)
(* application and its report.                                             *)
(***************************************************************************)
Quiet == net.stage = "applying" /\ net.todo = <<>>

Lease ==
  /\ ~Quiet
  /\ kernel.clients > 0 /\ kernel.up
  /\ kernel' = [kernel EXCEPT !.addr = {"leased"}, !.gw = "leased", !.dns = "leased"]
  /\ UNCHANGED <<stored, settings, net, netFaults>>

(* Somebody else starts a client.                                          *)
AnotherClient ==
  /\ ~Quiet
  /\ kernel.clients < MaxClients
  /\ kernel' = [kernel EXCEPT !.clients = @ + 1]
  /\ MayFail
  /\ UNCHANGED <<stored, settings, net>>

Booted ==
  {[up |-> TRUE, addr |-> {"own"}, gw |-> "own", dns |-> "own", clients |-> 0],
   [up |-> FALSE, addr |-> {}, gw |-> None, dns |-> "own", clients |-> 0],
   [up |-> TRUE, addr |-> {}, gw |-> None, dns |-> "own", clients |-> 1]}

(* The process ends, alone or with the whole system, and starts again.     *)
RestartNetwork ==
  /\ \/ UNCHANGED kernel
     \/ kernel' \in Booted
  /\ settings' = stored
  /\ net' = [Resting(stored) EXCEPT !.stage = "starting"]
  /\ UNCHANGED <<stored, netFaults>>

NetworkInit ==
  /\ kernel \in Booted
  /\ \E s \in Settings : stored = [set |-> s, explicit |-> FALSE]
  /\ settings = stored
  /\ net = [Resting(stored) EXCEPT !.stage = "starting"]
  /\ netFaults = 0

NetworkCommand ==
  \/ LinkUp \/ LinkDown \/ Flush \/ Routes \/ Address \/ Gateway \/ Resolver
  \/ StopClients \/ StartClient \/ SkipRestart
  \/ LeaseArrived \/ LeaseTimesOut \/ CountClients

NetworkNext ==
  \/ NetworkCommand
  \/ ApplySettings \/ ApplyOnStartup \/ UpdateSettings \/ SaveAndApply
  \/ FinishApply \/ RestoreStored
  \/ Lease \/ AnotherClient \/ RestartNetwork

NetworkSpec == NetworkInit /\ [][NetworkNext]_netVars

(***************************************************************************)
(* Properties.                                                             *)
(***************************************************************************)
InForce(w) ==
  /\ kernel.up \in w.up \/ w.up = {}
  /\ kernel.clients = IF w.clients > 0 THEN 1 ELSE 0
  /\ w.clients = 0 =>
       /\ kernel.addr = {w.addr} \ {None}
       /\ kernel.gw = (IF w.addr = None THEN None ELSE w.gw)
       /\ kernel.dns = w.dns

(* What an application reports is so: after a success the link, address,   *)
(* gateway, resolver and DHCP clients are those of the settings, after a   *)
(* failure without notes they are those read at its start, a gateway only  *)
(* with an address, although any command may fail and other clients may    *)
(* appear and change them.                                                 *)
ReportIsTrue ==
  net.stage = "applying" /\ net.todo = <<>> /\ ~net.notes => InForce(net.want)

(* Nothing is done to the interface in the name of settings that nobody    *)
(* confirmed, at the start, on request or when a failed change is undone.  *)
UnconfirmedIsUntouched ==
  [][NetworkCommand => ~Unconfirmed(settings)]_netVars
=============================================================================
