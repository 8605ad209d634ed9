--------------------------- MODULE Platform_proofs --------------------------
(***************************************************************************)
(* Proofs about the parts of the backend that look after the board and its *)
(* sockets, one after the other, for any settings, clients and failures.   *)
(***************************************************************************)
EXTENDS Integers, NetworkApply, ChildProcess, TimeService, IpcListener, IpcClients,
        SequenceTheorems, TLAPS

-----------------------------------------------------------------------------
(* NetworkApply.                                                           *)

(* An operation in hand, as far as its kind of record goes.                *)
IsOperation(o) ==
  o = [stage |-> o.stage, kind |-> o.kind, target |-> o.target, prev |-> o.prev, snap |-> o.snap,
       want |-> o.want, todo |-> o.todo, undoing |-> o.undoing, notes |-> o.notes]

(* An application only goes on while the settings in memory are confirmed, *)
(* and nobody but the operation in hand changes them.                      *)
AppliesConfirmed ==
  /\ IsOperation(net)
  /\ net.stage \in {"idle", "starting", "applying", "restoring"}
  /\ net.stage = "applying" => ~Unconfirmed(settings)

LEMMA RestingIsOperation ==
  ASSUME NEW last
  PROVE  /\ IsOperation(Resting(last)) /\ Resting(last).stage = "idle"
         /\ IsOperation([Resting(last) EXCEPT !.stage = "starting"])
         /\ [Resting(last) EXCEPT !.stage = "starting"].stage = "starting"
<1>1. IsOperation(Resting(last)) /\ Resting(last).stage = "idle"
  BY DEF Resting, IsOperation
<1>2. ASSUME NEW o, IsOperation(o), NEW s
      PROVE  IsOperation([o EXCEPT !.stage = s]) /\ [o EXCEPT !.stage = s].stage = s
  BY <1>2 DEF IsOperation
<1> QED BY <1>1, <1>2

LEMMA BeginIsOperation ==
  ASSUME NEW kind, NEW target, NEW prev, Begin(kind, target, prev)
  PROVE  IsOperation(net') /\ net'.stage \in {"idle", "applying", "restoring"}
<1>1. CASE \E snap \in Snapshots(kernel) :
             net' = [stage |-> "applying", kind |-> kind, target |-> target, prev |-> prev,
                     snap |-> snap, want |-> Wanted(target.set), todo |-> Forward(target.set),
                     undoing |-> FALSE, notes |-> FALSE]
  BY <1>1 DEF IsOperation
<1>2. CASE net' = Resting(target)
  BY <1>2, RestingIsOperation
<1>3. CASE net' = [Resting(target) EXCEPT !.stage = "restoring", !.prev = prev]
  BY <1>3 DEF Resting, IsOperation
<1> QED BY <1>1, <1>2, <1>3 DEF Begin

LEMMA FailsIsOperation ==
  ASSUME IsOperation(net), Fails \/ Proceed
  PROVE  IsOperation(net') /\ net'.stage = net.stage
BY DEF Fails, Proceed, Rollback, IsOperation

LEMMA CommandsGoOn ==
  ASSUME AppliesConfirmed, NetworkCommand
  PROVE  /\ net.stage = "applying"
         /\ AppliesConfirmed'
<1>1. net.stage = "applying"
  BY DEF NetworkCommand, LinkUp, LinkDown, Flush, Routes, Address, Gateway, Resolver, StopClients,
         StartClient, SkipRestart, LeaseArrived, LeaseTimesOut, CountClients, AtStep
<1>2. settings' = settings
  BY DEF NetworkCommand, LinkUp, LinkDown, Flush, Routes, Address, Gateway, Resolver, StopClients,
         StartClient, SkipRestart, LeaseArrived, LeaseTimesOut, CountClients, Runs, NotTheKernel
<1>3. Fails \/ Proceed \/ net' = Resting(net.target)
  <2>1. \A k : Runs(k) => Fails \/ Proceed BY DEF Runs
  <2>2. CASE LinkUp \/ LinkDown \/ Flush \/ Routes \/ Address \/ Gateway \/ Resolver
    BY <2>1, <2>2 DEF LinkUp, LinkDown, Flush, Routes, Address, Gateway, Resolver
  <2>3. CASE StopClients \/ StartClient \/ SkipRestart \/ LeaseArrived \/ LeaseTimesOut
             \/ CountClients
    BY <2>1, <2>3
       DEF StopClients, StartClient, SkipRestart, LeaseArrived, LeaseTimesOut, CountClients
  <2> QED BY <2>2, <2>3 DEF NetworkCommand
<1>4. CASE Fails \/ Proceed
  BY <1>1, <1>2, <1>4, FailsIsOperation DEF AppliesConfirmed, Unconfirmed
<1>5. CASE net' = Resting(net.target)
  BY <1>1, <1>5, RestingIsOperation DEF AppliesConfirmed
<1> QED BY <1>1, <1>3, <1>4, <1>5

LEMMA OperationsCheck ==
  ASSUME AppliesConfirmed,
         \/ ApplySettings \/ ApplyOnStartup \/ UpdateSettings \/ SaveAndApply
         \/ FinishApply \/ RestoreStored
         \/ Lease \/ AnotherClient \/ RestartNetwork
  PROVE  AppliesConfirmed'
<1> USE DEF AppliesConfirmed
<1>1. CASE ApplySettings
  BY <1>1, BeginIsOperation DEF ApplySettings, Unconfirmed
<1>2. CASE ApplyOnStartup
  BY <1>2, BeginIsOperation, RestingIsOperation DEF ApplyOnStartup, Unconfirmed
<1>3. CASE UpdateSettings
  BY <1>3, RestingIsOperation DEF UpdateSettings
<1>4. CASE SaveAndApply
  <2>1. PICK s \in Settings : stored' = [set |-> s, explicit |-> TRUE] /\ settings' = stored'
                              /\ Begin("save", stored', settings)
    BY <1>4 DEF SaveAndApply
  <2>2. ~Unconfirmed(settings)' BY <2>1 DEF Unconfirmed
  <2> QED BY <2>1, <2>2, BeginIsOperation
<1>5. CASE FinishApply
  BY <1>5, RestingIsOperation DEF FinishApply, Resting, IsOperation
<1>6. CASE RestoreStored
  <2>1. CASE settings' = net.prev /\ ApplyFormer
    <3>1. CASE Unconfirmed(net.prev)
      BY <2>1, <3>1, RestingIsOperation DEF ApplyFormer
    <3>2. CASE ~Unconfirmed(net.prev)
      BY <2>1, <3>2, BeginIsOperation DEF ApplyFormer, Unconfirmed
    <3> QED BY <3>1, <3>2
  <2>2. CASE net' = Resting(net.target)
    BY <2>2, RestingIsOperation
  <2> QED BY <1>6, <2>1, <2>2 DEF RestoreStored
<1>7. CASE Lease \/ AnotherClient
  BY <1>7 DEF Lease, AnotherClient, Unconfirmed, IsOperation
<1>8. CASE RestartNetwork
  BY <1>8, RestingIsOperation DEF RestartNetwork
<1> QED BY <1>1, <1>2, <1>3, <1>4, <1>5, <1>6, <1>7, <1>8

LEMMA AppliesConfirmedHolds == NetworkSpec => []AppliesConfirmed
<1>1. NetworkInit => AppliesConfirmed
  BY RestingIsOperation DEF NetworkInit, AppliesConfirmed
<1>2. AppliesConfirmed /\ [NetworkNext]_netVars => AppliesConfirmed'
  <2>1. AppliesConfirmed /\ NetworkNext => AppliesConfirmed'
    BY CommandsGoOn, OperationsCheck DEF NetworkNext
  <2>2. AppliesConfirmed /\ UNCHANGED netVars => AppliesConfirmed'
    BY DEF AppliesConfirmed, netVars, Unconfirmed, IsOperation
  <2> QED BY <2>1, <2>2
<1> QED BY <1>1, <1>2, PTL DEF NetworkSpec

(* No command ever touches the interface in the name of settings nobody    *)
(* confirmed, for any settings and however applications, rollbacks,        *)
(* restarts and changes of the settings follow each other                  *)
(* (backend_network_runtime.cpp, backend_network_config.cpp).              *)
THEOREM UnconfirmedStaysUntouched == NetworkSpec => UnconfirmedIsUntouched
<1>1. AppliesConfirmed /\ [NetworkNext]_netVars =>
        [NetworkCommand => ~Unconfirmed(settings)]_netVars
  BY CommandsGoOn DEF AppliesConfirmed
<1> QED BY <1>1, AppliesConfirmedHolds, PTL DEF NetworkSpec, UnconfirmedIsUntouched

-----------------------------------------------------------------------------
(* What NetworkApply reports.                                              *)

Commands ==
  {"halt", "stop", "flush", "routes", "up", "down", "address", "gateway", "dns", "client", "lease",
   "restart", "count"}

(* The part of a rollback that is left after each of its commands.         *)
AfterDown(w)    == <<"dns", "restart", "count">>
AfterGateway(w) == If(FALSE \in w.up, "down") \o AfterDown(w)
AfterAddress(w) == If(w.addr # None /\ w.gw # None, "gateway") \o AfterGateway(w)
AfterUp(w)      == If(w.addr # None, "address") \o AfterAddress(w)
AfterFlush(w)   == If(TRUE \in w.up \/ w.addr # None \/ w.gw # None, "up") \o AfterUp(w)

(* What the commands so far have made of the kernel, unless a client has   *)
(* been at it that the last of them, the count, will find.                 *)
Unleased(k, w)  == w.clients = 0 /\ k.clients = 0
Bare(k, w)      == Unleased(k, w) => k.addr = {} /\ k.gw = None
Addressed(k, w) == Unleased(k, w) => k.addr = {w.addr} \ {None} /\ k.gw = None
Routed(k, w)    == Unleased(k, w) => /\ k.addr = {w.addr} \ {None}
                                     /\ k.gw = IF w.addr = None THEN None ELSE w.gw
Named(k, w)     == Routed(k, w) /\ (Unleased(k, w) => k.dns = w.dns)
Raised(k, w)    == TRUE \in w.up \/ w.addr # None \/ w.gw # None => k.up
LinkSet(k, w)   == k.up \in w.up \/ w.up = {}

AsWanted(k, w) ==
  /\ LinkSet(k, w) /\ Named(k, w)
  /\ k.clients = IF w.clients > 0 THEN 1 ELSE 0

(* How far a rollback has come ...                                         *)
Undone(k, w, todo) ==
  \/ todo = <<"halt">> \o (<<"flush">> \o AfterFlush(w))
  \/ todo = <<"flush">> \o AfterFlush(w)
  \/ todo = <<"up">> \o AfterUp(w) /\ Bare(k, w)
  \/ todo = <<"address">> \o AfterAddress(w) /\ w.addr # None /\ Bare(k, w) /\ Raised(k, w)
  \/ todo = <<"gateway">> \o AfterGateway(w) /\ Addressed(k, w) /\ Raised(k, w)
  \/ todo = <<"down">> \o AfterDown(w) /\ FALSE \in w.up /\ Routed(k, w)
  \/ todo = <<"dns", "restart", "count">> /\ Routed(k, w) /\ LinkSet(k, w)
  \/ todo = <<"restart", "count">> /\ Named(k, w) /\ LinkSet(k, w)
  \/ todo = <<"count">> /\ Named(k, w) /\ LinkSet(k, w)
  \/ todo = <<>> /\ AsWanted(k, w)

(* ... and an application, of an address of its own or with a client.      *)
AfterRoutes(w) ==
  IF w.clients = 0 THEN <<"address", "gateway", "dns", "count">> ELSE <<"client", "lease", "count">>

Done(k, w, todo) ==
  \/ todo = <<"up">> \o (<<"stop">> \o (<<"flush">> \o (<<"routes">> \o AfterRoutes(w))))
  \/ /\ Raised(k, w)
     /\ \/ todo = <<"stop">> \o (<<"flush">> \o (<<"routes">> \o AfterRoutes(w)))
        \/ todo = <<"flush">> \o (<<"routes">> \o AfterRoutes(w))
        \/ todo = <<"routes">> \o AfterRoutes(w) /\ Bare(k, w)
        \/ todo = AfterRoutes(w) /\ Bare(k, w)
        \/ todo = <<"gateway", "dns", "count">> /\ w.clients = 0 /\ Addressed(k, w)
        \/ todo = <<"dns", "count">> /\ w.clients = 0 /\ Routed(k, w)
        \/ todo = <<"lease", "count">> /\ w.clients = 1
        \/ todo = <<"count">> /\ Named(k, w)
        \/ todo = <<>> /\ AsWanted(k, w)

(* Without an address or with the link down there is no gateway, neither   *)
(* in the kernel nor in a snapshot of it.                                  *)
IsKernel(k) ==
  /\ k = [up |-> k.up, addr |-> k.addr, gw |-> k.gw, dns |-> k.dns, clients |-> k.clients]
  /\ k.up \in BOOLEAN /\ k.clients \in Nat /\ None \notin k.addr
  /\ k.addr = {} \/ k.up = FALSE => k.gw = None

IsSnapshot(w) ==
  /\ w.clients \in Nat
  /\ w.up = {FALSE} => w.gw = None
  /\ w.up \in {{TRUE}, {FALSE}, {}}

IsWish(w) == w.up = {TRUE} /\ w.addr # None /\ w.gw = w.addr /\ w.clients \in {0, 1}

(* Without an address there is none to be set.                             *)
NoAddressSet(o) == o.want.addr = None => o.todo \in Seq(Commands \ {"address"})

Underway(k, o) ==
  /\ IsSnapshot(o.snap) /\ NoAddressSet(o)
  /\ o.undoing \in BOOLEAN /\ o.notes \in BOOLEAN
  /\ o.undoing = FALSE => o.notes = FALSE /\ IsWish(o.want) /\ Done(k, o.want, o.todo)
  /\ o.undoing = TRUE => o.want = o.snap
  /\ o.undoing = TRUE /\ o.notes = FALSE => Undone(k, o.want, o.todo)

ReportInv ==
  /\ IsKernel(kernel)
  /\ IsOperation(net)
  /\ {stored.set, settings.set, net.target.set, net.prev.set} \subseteq Settings
  /\ net.stage = "applying" => Underway(kernel, net)

(***************************************************************************)
(* The lists of commands.                                                  *)
(***************************************************************************)
LEMMA ConcatSteps ==
  ASSUME NEW s \in Seq(Commands), NEW t \in Seq(Commands), NEW u \in Seq(Commands)
  PROVE  (s \o t) \o u = s \o (t \o u)
BY ConcatAssociative

LEMMA ConcatIsSeq ==
  ASSUME NEW s \in Seq(Commands), NEW t \in Seq(Commands)
  PROVE  s \o t \in Seq(Commands)
BY ConcatProperties

LEMMA IfIsSeq == ASSUME NEW c, NEW step \in Commands PROVE If(c, step) \in Seq(Commands)
BY DEF If

LEMMA AftersAreSeqs ==
  ASSUME NEW w
  PROVE  /\ AfterDown(w) \in Seq(Commands)
         /\ AfterGateway(w) \in Seq(Commands) /\ AfterAddress(w) \in Seq(Commands)
         /\ AfterUp(w) \in Seq(Commands) /\ AfterFlush(w) \in Seq(Commands)
         /\ <<"flush">> \o AfterFlush(w) \in Seq(Commands)
         /\ AfterRoutes(w) \in Seq(Commands)
         /\ <<"routes">> \o AfterRoutes(w) \in Seq(Commands)
         /\ <<"flush">> \o (<<"routes">> \o AfterRoutes(w)) \in Seq(Commands)
         /\ <<"stop">> \o (<<"flush">> \o (<<"routes">> \o AfterRoutes(w))) \in Seq(Commands)
<1>1. ASSUME NEW s \in Seq(Commands), NEW t \in Seq(Commands) PROVE s \o t \in Seq(Commands)
  BY ConcatProperties
<1>2. AfterDown(w) \in Seq(Commands)
  BY DEF AfterDown, Commands
<1>3. AfterGateway(w) \in Seq(Commands)
  BY <1>1, <1>2, IfIsSeq DEF AfterGateway, Commands
<1>4. AfterAddress(w) \in Seq(Commands)
  BY <1>1, <1>3, IfIsSeq DEF AfterAddress, Commands
<1>5. AfterUp(w) \in Seq(Commands)
  BY <1>1, <1>4, IfIsSeq DEF AfterUp, Commands
<1>6. AfterFlush(w) \in Seq(Commands)
  BY <1>1, <1>5, IfIsSeq DEF AfterFlush, Commands
<1>7. AfterRoutes(w) \in Seq(Commands)
  <2>1. <<"address", "gateway", "dns", "count">> \in Seq(Commands)
    BY DEF Commands
  <2>2. <<"client", "lease", "count">> \in Seq(Commands)
    BY DEF Commands
  <2> QED BY <2>1, <2>2 DEF AfterRoutes
<1>8. <<"flush">> \in Seq(Commands) /\ <<"routes">> \in Seq(Commands) /\ <<"stop">> \in Seq(Commands)
  BY DEF Commands
<1> QED BY <1>1, <1>2, <1>3, <1>4, <1>5, <1>6, <1>7, <1>8

LEMMA FirstOf ==
  ASSUME NEW c \in Commands, NEW rest \in Seq(Commands)
  PROVE  /\ <<c>> \o rest # <<>>
         /\ Head(<<c>> \o rest) = c
         /\ Tail(<<c>> \o rest) = rest
<1>1. Len(<<c>> \o rest) = 1 + Len(rest) /\ Len(rest) \in Nat
  OBVIOUS
<1>2. <<c>> \o rest \in Seq(Commands) /\ (<<c>> \o rest)[1] = c
  OBVIOUS
<1>3. Tail(<<c>> \o rest) = rest
  OBVIOUS
<1> QED BY <1>1, <1>2, <1>3

LEMMA UndoInSteps ==
  ASSUME NEW w
  PROVE  Undo(w) = <<"halt">> \o (<<"flush">> \o AfterFlush(w))
<1> DEFINE a == If(TRUE \in w.up \/ w.addr # None \/ w.gw # None, "up")
           b == If(w.addr # None, "address")
           c == If(w.addr # None /\ w.gw # None, "gateway")
           d == If(FALSE \in w.up, "down")
           e == <<"dns", "restart", "count">>
           h == <<"halt">>
           f == <<"flush">>
<1>1. Undo(w) = (((((<<"halt", "flush">> \o a) \o b) \o c) \o d) \o e)
  BY DEF Undo
<1>2. /\ a \in Seq(Commands) /\ b \in Seq(Commands) /\ c \in Seq(Commands)
      /\ d \in Seq(Commands) /\ e \in Seq(Commands) /\ h \in Seq(Commands) /\ f \in Seq(Commands)
  <2>1. {"up", "down", "address", "gateway", "dns", "restart", "count", "halt", "flush"} \subseteq Commands
    BY DEF Commands
  <2>2. e \in Seq(Commands) /\ h \in Seq(Commands) /\ f \in Seq(Commands)
    BY <2>1
  <2>3. a \in Seq(Commands) /\ b \in Seq(Commands) /\ c \in Seq(Commands) /\ d \in Seq(Commands)
    BY <2>1, IfIsSeq
  <2> QED BY <2>2, <2>3
<1>3. <<"halt", "flush">> = h \o f
  OBVIOUS
<1>4. AfterFlush(w) = a \o (b \o (c \o (d \o e)))
  BY DEF AfterFlush, AfterUp, AfterAddress, AfterGateway, AfterDown
<1> HIDE DEF a, b, c, d, e, h, f
<1> DEFINE x  == h \o f
           y  == (x \o a) \o b
           cd == c \o (d \o e)
           ab == a \o (b \o cd)
<1>5. x \in Seq(Commands) /\ x \o a \in Seq(Commands) /\ d \o e \in Seq(Commands)
  BY <1>2, ConcatIsSeq
<1>6. y \in Seq(Commands) /\ cd \in Seq(Commands)
  BY <1>2, <1>5, ConcatIsSeq
<1>7. b \o cd \in Seq(Commands)
  BY <1>2, <1>6, ConcatIsSeq
<1>8. ab \in Seq(Commands)
  BY <1>2, <1>7, ConcatIsSeq
<1>9. (h \o f) \o ab = h \o (f \o ab)
  <2> HIDE DEF ab
  <2>1. h \in Seq(Commands) BY <1>2
  <2>2. f \in Seq(Commands) BY <1>2
  <2>3. ab \in Seq(Commands) BY <1>8
  <2> QED BY <2>1, <2>2, <2>3, ConcatSteps, Zenon
<1>10. ((x \o a) \o b) \o cd = x \o (a \o (b \o cd))
  <2> HIDE DEF x, cd
  <2>1. x \in Seq(Commands) BY <1>5
  <2>2. a \in Seq(Commands) BY <1>2
  <2>3. b \in Seq(Commands) BY <1>2
  <2>4. cd \in Seq(Commands) BY <1>6
  <2> DEFINE left  == x \o a
             right == b \o cd
  <2>5. left \in Seq(Commands) BY <2>1, <2>2, ConcatIsSeq, Zenon
  <2>6. right \in Seq(Commands) BY <2>3, <2>4, ConcatIsSeq, Zenon
  <2>7. (x \o a) \o right = x \o (a \o right)
    <3> HIDE DEF right
    <3> QED BY <2>1, <2>2, <2>6, ConcatSteps, Zenon
  <2>8. (left \o b) \o cd = left \o (b \o cd)
    <3> HIDE DEF left
    <3> QED BY <2>3, <2>4, <2>5, ConcatSteps, Zenon
  <2> QED BY <2>7, <2>8
<1>11. ((y \o c) \o d) \o e = y \o (c \o (d \o e))
  <2> HIDE DEF y
  <2>1. y \in Seq(Commands) BY <1>6
  <2>2. c \in Seq(Commands) BY <1>2
  <2>3. d \in Seq(Commands) BY <1>2
  <2>4. e \in Seq(Commands) BY <1>2
  <2> DEFINE left  == y \o c
             right == d \o e
  <2>5. left \in Seq(Commands) BY <2>1, <2>2, ConcatIsSeq, Zenon
  <2>6. right \in Seq(Commands) BY <2>3, <2>4, ConcatIsSeq, Zenon
  <2>7. (y \o c) \o right = y \o (c \o right)
    <3> HIDE DEF right
    <3> QED BY <2>1, <2>2, <2>6, ConcatSteps, Zenon
  <2>8. (left \o d) \o e = left \o (d \o e)
    <3> HIDE DEF left
    <3> QED BY <2>3, <2>4, <2>5, ConcatSteps, Zenon
  <2> QED BY <2>7, <2>8
<1> QED BY <1>1, <1>3, <1>4, <1>9, <1>10, <1>11 DEF h, f

LEMMA ForwardInSteps ==
  ASSUME NEW s \in Settings
  PROVE  Forward(s) =
           <<"up">> \o (<<"stop">> \o (<<"flush">> \o (<<"routes">> \o AfterRoutes(Wanted(s)))))
<1> DEFINE r == AfterRoutes(Wanted(s))
           x == IF s \in Static THEN <<"address", "gateway", "dns">> ELSE <<"client", "lease">>
           y == <<"count">>
           f == <<"up", "stop", "flush", "routes">>
           u == <<"up">>
           p == <<"stop">>
           l == <<"flush">>
           o == <<"routes">>
<1>1. /\ f \in Seq(Commands) /\ x \in Seq(Commands) /\ y \in Seq(Commands) /\ r \in Seq(Commands)
      /\ u \in Seq(Commands) /\ p \in Seq(Commands) /\ l \in Seq(Commands) /\ o \in Seq(Commands)
  <2>1. Commands = Commands \cup {"up", "stop", "flush", "routes", "address", "gateway", "dns",
                                  "client", "lease", "count"}
    BY DEF Commands
  <2>2. x \in Seq(Commands) /\ y \in Seq(Commands)
    BY <2>1
  <2>3. f \in Seq(Commands)
    BY <2>1
  <2>4. /\ u \in Seq(Commands) /\ p \in Seq(Commands) /\ l \in Seq(Commands)
        /\ o \in Seq(Commands) /\ r \in Seq(Commands)
    BY <2>1, AftersAreSeqs
  <2> QED BY <2>2, <2>3, <2>4
<1>2. x \o y = r
  <2>1. CASE s \in Static
    <3>1. r = <<"address", "gateway", "dns", "count">> /\ x = <<"address", "gateway", "dns">>
      BY <2>1 DEF AfterRoutes, Wanted
    <3>2. Len(x \o y) = 4 /\ Len(r) = 4
      BY <3>1, <1>1, ConcatProperties
    <3>3. \A i \in 1 .. 4 : (x \o y)[i] = r[i]
      BY <3>1, <1>1, ConcatProperties
    <3> QED BY <1>1, <3>2, <3>3, ConcatIsSeq, SeqEqual
  <2>2. CASE s \notin Static
    <3>1. r = <<"client", "lease", "count">> /\ x = <<"client", "lease">>
      BY <2>2 DEF AfterRoutes, Wanted
    <3>2. Len(x \o y) = 3 /\ Len(r) = 3
      BY <3>1, <1>1, ConcatProperties
    <3>3. \A i \in 1 .. 3 : (x \o y)[i] = r[i]
      BY <3>1, <1>1, ConcatProperties
    <3> QED BY <1>1, <3>2, <3>3, ConcatIsSeq, SeqEqual
  <2> QED BY <2>1, <2>2
<1>3. f = ((u \o p) \o l) \o o
  OBVIOUS
<1>4. Forward(s) = (f \o x) \o y
  BY DEF Forward
<1> HIDE DEF r, x, y, f, u, p, l, o
<1>5. (f \o x) \o y = f \o (x \o y)
  <2>1. f \in Seq(Commands) BY <1>1
  <2>2. x \in Seq(Commands) BY <1>1
  <2>3. y \in Seq(Commands) BY <1>1
  <2> QED BY <2>1, <2>2, <2>3, ConcatSteps, Zenon
<1> DEFINE up == u \o p
           or == o \o r
           lr == l \o or
<1>6. up \in Seq(Commands) /\ or \in Seq(Commands)
  BY <1>1, ConcatIsSeq
<1>7. lr \in Seq(Commands)
  BY <1>1, <1>6, ConcatIsSeq
<1>8. ((up \o l) \o o) \o r = up \o (l \o (o \o r))
  <2> HIDE DEF up
  <2>1. up \in Seq(Commands) BY <1>6
  <2>2. l \in Seq(Commands) BY <1>1
  <2>3. o \in Seq(Commands) BY <1>1
  <2>4. r \in Seq(Commands) BY <1>1
  <2> DEFINE left  == up \o l
             right == o \o r
  <2>5. left \in Seq(Commands) BY <2>1, <2>2, ConcatIsSeq, Zenon
  <2>6. right \in Seq(Commands) BY <2>3, <2>4, ConcatIsSeq, Zenon
  <2>7. (up \o l) \o right = up \o (l \o right)
    <3> HIDE DEF right
    <3> QED BY <2>1, <2>2, <2>6, ConcatSteps, Zenon
  <2>8. (left \o o) \o r = left \o (o \o r)
    <3> HIDE DEF left
    <3> QED BY <2>3, <2>4, <2>5, ConcatSteps, Zenon
  <2> QED BY <2>7, <2>8
<1>9. (u \o p) \o lr = u \o (p \o lr)
  <2> HIDE DEF lr
  <2>1. u \in Seq(Commands) BY <1>1
  <2>2. p \in Seq(Commands) BY <1>1
  <2>3. lr \in Seq(Commands) BY <1>7
  <2> QED BY <2>1, <2>2, <2>3, ConcatSteps, Zenon
<1> QED BY <1>2, <1>3, <1>4, <1>5, <1>8, <1>9 DEF r, u, p, l, o

LEMMA UndoSetsNoAddress ==
  ASSUME NEW w, w.addr = None
  PROVE  Undo(w) \in Seq(Commands \ {"address"})
<1> DEFINE C == Commands \ {"address"}
<1>1. /\ <<"halt", "flush">> \in Seq(C) /\ <<"dns", "restart", "count">> \in Seq(C)
      /\ <<"up">> \in Seq(C) /\ <<"down">> \in Seq(C) /\ <<>> \in Seq(C)
  BY DEF Commands
<1>2. ASSUME NEW s \in Seq(C), NEW t \in Seq(C) PROVE s \o t \in Seq(C)
  BY ConcatProperties
<1>3. ASSUME NEW c PROVE If(c, "up") \in Seq(C) /\ If(c, "down") \in Seq(C)
  BY <1>1 DEF If
<1>4. If(w.addr # None, "address") = <<>> /\ If(w.addr # None /\ w.gw # None, "gateway") = <<>>
  BY DEF If
<1> DEFINE a == If(TRUE \in w.up \/ w.addr # None \/ w.gw # None, "up")
           d == If(FALSE \in w.up, "down")
<1>5. Undo(w) = (((((<<"halt", "flush">> \o a) \o <<>>) \o <<>>) \o d) \o <<"dns", "restart", "count">>)
  BY <1>4 DEF Undo
<1>6. a \in Seq(C) /\ d \in Seq(C)
  BY <1>3
<1> HIDE DEF a, d, C
<1>7. (<<"halt", "flush">> \o a) \o <<>> \in Seq(C)
  BY <1>1, <1>2, <1>6
<1>8. (((<<"halt", "flush">> \o a) \o <<>>) \o <<>>) \o d \in Seq(C)
  BY <1>1, <1>2, <1>6, <1>7
<1> QED BY <1>1, <1>2, <1>5, <1>8 DEF C

(***************************************************************************)
(* Where a command leads.                                                  *)
(***************************************************************************)
LEMMA UndoneAt ==
  ASSUME NEW k, NEW w, NEW todo, Undone(k, w, todo), todo # <<>>
  PROVE  /\ Head(todo) \in {"halt", "flush", "up", "address", "gateway", "down", "dns", "restart",
                            "count"}
         /\ Head(todo) = "halt" => Tail(todo) = <<"flush">> \o AfterFlush(w)
         /\ Head(todo) = "flush" => Tail(todo) = AfterFlush(w)
         /\ Head(todo) = "up" => Tail(todo) = AfterUp(w) /\ Bare(k, w)
         /\ Head(todo) = "address" =>
              Tail(todo) = AfterAddress(w) /\ w.addr # None /\ Bare(k, w) /\ Raised(k, w)
         /\ Head(todo) = "gateway" =>
              Tail(todo) = AfterGateway(w) /\ Addressed(k, w) /\ Raised(k, w)
         /\ Head(todo) = "down" => Tail(todo) = AfterDown(w) /\ FALSE \in w.up /\ Routed(k, w)
         /\ Head(todo) = "dns" =>
              Tail(todo) = <<"restart", "count">> /\ Routed(k, w) /\ LinkSet(k, w)
         /\ Head(todo) = "restart" => Tail(todo) = <<"count">> /\ Named(k, w) /\ LinkSet(k, w)
         /\ Head(todo) = "count" => Tail(todo) = <<>> /\ Named(k, w) /\ LinkSet(k, w)
<1>1. ASSUME NEW c \in {"halt", "flush", "up", "address", "gateway", "down"},
             NEW rest \in Seq(Commands)
      PROVE  Head(<<c>> \o rest) = c /\ Tail(<<c>> \o rest) = rest
  BY FirstOf DEF Commands
<1>2. CASE todo = <<"halt">> \o (<<"flush">> \o AfterFlush(w))
  BY <1>1, <1>2, AftersAreSeqs
<1>3. CASE todo = <<"flush">> \o AfterFlush(w)
  BY <1>1, <1>3, AftersAreSeqs
<1>4. CASE todo = <<"up">> \o AfterUp(w) /\ Bare(k, w)
  BY <1>1, <1>4, AftersAreSeqs
<1>5. CASE todo = <<"address">> \o AfterAddress(w) /\ w.addr # None /\ Bare(k, w) /\ Raised(k, w)
  BY <1>1, <1>5, AftersAreSeqs
<1>6. CASE todo = <<"gateway">> \o AfterGateway(w) /\ Addressed(k, w) /\ Raised(k, w)
  BY <1>1, <1>6, AftersAreSeqs
<1>7. CASE todo = <<"down">> \o AfterDown(w) /\ FALSE \in w.up /\ Routed(k, w)
  BY <1>1, <1>7, AftersAreSeqs
<1>8. CASE todo = <<"dns", "restart", "count">> /\ Routed(k, w) /\ LinkSet(k, w)
  BY <1>8
<1>9. CASE todo = <<"restart", "count">> /\ Named(k, w) /\ LinkSet(k, w)
  BY <1>9
<1>10. CASE todo = <<"count">> /\ Named(k, w) /\ LinkSet(k, w)
  BY <1>10
<1> QED BY <1>2, <1>3, <1>4, <1>5, <1>6, <1>7, <1>8, <1>9, <1>10 DEF Undone

LEMMA UndoneAfter ==
  ASSUME NEW k, NEW w, IsSnapshot(w), k.up \in BOOLEAN
  PROVE  /\ Routed(k, w) /\ LinkSet(k, w) => Undone(k, w, AfterDown(w))
         /\ Routed(k, w) /\ Raised(k, w) => Undone(k, w, AfterGateway(w))
         /\ Addressed(k, w) /\ Raised(k, w) => Undone(k, w, AfterAddress(w))
         /\ Bare(k, w) /\ Raised(k, w) => Undone(k, w, AfterUp(w))
         /\ Bare(k, w) => Undone(k, w, AfterFlush(w))
<1>1. ASSUME NEW c, c = FALSE, NEW step, NEW rest \in Seq(Commands) PROVE If(c, step) \o rest = rest
  BY <1>1, ConcatEmptySeq DEF If
<1>2. ASSUME NEW c, c = TRUE, NEW step PROVE If(c, step) = <<step>>
  BY <1>2 DEF If
<1>3. Routed(k, w) /\ LinkSet(k, w) => Undone(k, w, AfterDown(w))
  BY DEF AfterDown, Undone
<1>4. Routed(k, w) /\ Raised(k, w) => Undone(k, w, AfterGateway(w))
  <2> SUFFICES ASSUME Routed(k, w), Raised(k, w) PROVE Undone(k, w, AfterGateway(w))
    OBVIOUS
  <2>1. CASE FALSE \in w.up
    BY <1>2, <2>1 DEF AfterGateway, Undone
  <2>2. CASE FALSE \notin w.up
    <3>1. If(FALSE \in w.up, "down") = <<>>
      BY <2>2 DEF If
    <3>3. AfterGateway(w) = AfterDown(w)
      BY <3>1, ConcatEmptySeq, AftersAreSeqs DEF AfterGateway
    <3>2. LinkSet(k, w)
      BY <2>2 DEF Raised, LinkSet, IsSnapshot
    <3> QED BY <1>3, <3>2, <3>3
  <2> QED BY <2>1, <2>2
<1>5. Addressed(k, w) /\ Raised(k, w) => Undone(k, w, AfterAddress(w))
  <2> SUFFICES ASSUME Addressed(k, w), Raised(k, w) PROVE Undone(k, w, AfterAddress(w))
    OBVIOUS
  <2>1. CASE w.addr # None /\ w.gw # None
    BY <1>2, <2>1 DEF AfterAddress, Undone
  <2>2. CASE ~(w.addr # None /\ w.gw # None)
    <3>1. AfterAddress(w) = AfterGateway(w)
      BY <1>1, <2>2, AftersAreSeqs DEF AfterAddress
    <3>2. Routed(k, w)
      BY <2>2 DEF Addressed, Routed, IsSnapshot
    <3> QED BY <1>4, <3>1, <3>2
  <2> QED BY <2>1, <2>2
<1>6. Bare(k, w) /\ Raised(k, w) => Undone(k, w, AfterUp(w))
  <2> SUFFICES ASSUME Bare(k, w), Raised(k, w) PROVE Undone(k, w, AfterUp(w))
    OBVIOUS
  <2>1. CASE w.addr # None
    BY <1>2, <2>1 DEF AfterUp, Undone
  <2>2. CASE w.addr = None
    <3>1. AfterUp(w) = AfterAddress(w)
      BY <1>1, <2>2, AftersAreSeqs DEF AfterUp
    <3>2. Addressed(k, w)
      BY <2>2 DEF Addressed, Bare
    <3> QED BY <1>5, <3>1, <3>2
  <2> QED BY <2>1, <2>2
<1>7. Bare(k, w) => Undone(k, w, AfterFlush(w))
  <2> SUFFICES ASSUME Bare(k, w) PROVE Undone(k, w, AfterFlush(w))
    OBVIOUS
  <2> DEFINE c == TRUE \in w.up \/ w.addr # None \/ w.gw # None
  <2>1. CASE c
    BY <1>2, <2>1 DEF AfterFlush, Undone
  <2>2. CASE ~c
    <3>1. If(c, "up") = <<>>
      BY <2>2 DEF If
    <3>2. AfterFlush(w) = AfterUp(w)
      BY <3>1, ConcatEmptySeq, AftersAreSeqs DEF AfterFlush
    <3>3. Raised(k, w)
      BY <2>2 DEF Raised
    <3> QED BY <1>6, <3>2, <3>3
  <2> QED BY <2>1, <2>2
<1> QED BY <1>3, <1>4, <1>5, <1>6, <1>7

LEMMA DoneAt ==
  ASSUME NEW k, NEW w, NEW todo, Done(k, w, todo), IsWish(w), todo # <<>>
  PROVE  /\ Head(todo) \in {"up", "stop", "flush", "routes", "address", "gateway", "dns", "client",
                            "lease", "count"}
         /\ Head(todo) = "up" =>
              Tail(todo) = <<"stop">> \o (<<"flush">> \o (<<"routes">> \o AfterRoutes(w)))
         /\ Head(todo) # "up" => Raised(k, w)
         /\ Head(todo) = "stop" => Tail(todo) = <<"flush">> \o (<<"routes">> \o AfterRoutes(w))
         /\ Head(todo) = "flush" => Tail(todo) = <<"routes">> \o AfterRoutes(w)
         /\ Head(todo) = "routes" => Tail(todo) = AfterRoutes(w) /\ Bare(k, w)
         /\ Head(todo) = "address" =>
              Tail(todo) = <<"gateway", "dns", "count">> /\ w.clients = 0 /\ Bare(k, w)
         /\ Head(todo) = "gateway" =>
              Tail(todo) = <<"dns", "count">> /\ w.clients = 0 /\ Addressed(k, w)
         /\ Head(todo) = "dns" => Tail(todo) = <<"count">> /\ w.clients = 0 /\ Routed(k, w)
         /\ Head(todo) = "client" => Tail(todo) = <<"lease", "count">> /\ w.clients = 1
         /\ Head(todo) = "lease" => Tail(todo) = <<"count">> /\ w.clients = 1
         /\ Head(todo) = "count" => Tail(todo) = <<>> /\ Named(k, w)
<1>1. ASSUME NEW c \in {"up", "stop", "flush", "routes"}, NEW rest \in Seq(Commands)
      PROVE  Head(<<c>> \o rest) = c /\ Tail(<<c>> \o rest) = rest
  BY FirstOf DEF Commands
<1>2. CASE todo = <<"up">> \o (<<"stop">> \o (<<"flush">> \o (<<"routes">> \o AfterRoutes(w))))
  BY <1>1, <1>2, AftersAreSeqs
<1>3. CASE Raised(k, w) /\ todo = <<"stop">> \o (<<"flush">> \o (<<"routes">> \o AfterRoutes(w)))
  BY <1>1, <1>3, AftersAreSeqs
<1>4. CASE Raised(k, w) /\ todo = <<"flush">> \o (<<"routes">> \o AfterRoutes(w))
  BY <1>1, <1>4, AftersAreSeqs
<1>5. CASE Raised(k, w) /\ todo = <<"routes">> \o AfterRoutes(w) /\ Bare(k, w)
  BY <1>1, <1>5, AftersAreSeqs
<1>6. CASE Raised(k, w) /\ todo = AfterRoutes(w) /\ Bare(k, w)
  <2>1. CASE w.clients = 0
    <3>1. todo = <<"address", "gateway", "dns", "count">>
      BY <1>6, <2>1 DEF AfterRoutes
    <3> QED BY <1>6, <2>1, <3>1
  <2>2. CASE w.clients = 1
    <3>1. todo = <<"client", "lease", "count">>
      BY <1>6, <2>2 DEF AfterRoutes
    <3> QED BY <1>6, <2>2, <3>1
  <2> QED BY <2>1, <2>2 DEF IsWish
<1>7. CASE Raised(k, w) /\ todo = <<"gateway", "dns", "count">> /\ w.clients = 0 /\ Addressed(k, w)
  BY <1>7
<1>8. CASE Raised(k, w) /\ todo = <<"dns", "count">> /\ w.clients = 0 /\ Routed(k, w)
  BY <1>8
<1>9. CASE Raised(k, w) /\ todo = <<"lease", "count">> /\ w.clients = 1
  BY <1>9
<1>10. CASE Raised(k, w) /\ todo = <<"count">> /\ Named(k, w)
  BY <1>10
<1> QED BY <1>2, <1>3, <1>4, <1>5, <1>6, <1>7, <1>8, <1>9, <1>10 DEF Done

(***************************************************************************)
(* The commands.                                                           *)
(***************************************************************************)
LEMMA UndoStarts ==
  ASSUME NEW k, NEW w
  PROVE  Undone(k, w, Undo(w))
BY UndoInSteps DEF Undone

LEMMA Failing ==
  ASSUME IsOperation(net), Underway(kernel, net), net.todo # <<>>, Fails
  PROVE  IsOperation(net') /\ Underway(kernel', net')
<1>1. CASE net.undoing
  <2>1. net' = [net EXCEPT !.todo = Tail(@), !.notes = TRUE]
    BY <1>1 DEF Fails
  <2>2. /\ IsOperation(net') /\ net'.snap = net.snap /\ net'.want = net.want
        /\ net'.undoing = net.undoing /\ net'.notes = TRUE /\ net'.todo = Tail(net.todo)
    BY <2>1 DEF IsOperation
  <2>3. NoAddressSet(net')
    BY <2>2, HeadTailProperties DEF NoAddressSet, Underway
  <2> QED BY <1>1, <2>2, <2>3 DEF Underway
<1>2. CASE ~net.undoing
  <2>1. net' = [net EXCEPT !.undoing = TRUE, !.todo = Undo(net.snap), !.want = net.snap]
    BY <1>2 DEF Fails, Rollback
  <2>2. /\ IsOperation(net') /\ net'.snap = net.snap /\ net'.want = net.snap
        /\ net'.undoing = TRUE /\ net'.notes = net.notes /\ net'.todo = Undo(net.snap)
    BY <2>1 DEF IsOperation
  <2>3. NoAddressSet(net')
    BY <2>2, UndoSetsNoAddress DEF NoAddressSet
  <2> QED BY <2>2, <2>3, UndoStarts DEF Underway
<1> QED BY <1>1, <1>2

LEMMA Proceeding ==
  ASSUME IsOperation(net), Underway(kernel, net), net.todo # <<>>, Proceed,
         net.undoing = FALSE => Done(kernel', net.want, Tail(net.todo)),
         net.undoing = TRUE /\ net.notes = FALSE => Undone(kernel', net.want, Tail(net.todo))
  PROVE  IsOperation(net') /\ Underway(kernel', net')
<1>1. net' = [net EXCEPT !.todo = Tail(@)]
  BY DEF Proceed
<1>2. /\ IsOperation(net') /\ net'.snap = net.snap /\ net'.want = net.want
      /\ net'.undoing = net.undoing /\ net'.notes = net.notes /\ net'.todo = Tail(net.todo)
  BY <1>1 DEF IsOperation
<1>3. NoAddressSet(net')
  BY <1>2, HeadTailProperties DEF NoAddressSet, Underway
<1> QED BY <1>2, <1>3 DEF Underway

(* A command that succeeds leads on, one that fails into the rollback or   *)
(* to a note.                                                              *)
LEMMA Running ==
  ASSUME IsKernel(kernel), IsOperation(net), Underway(kernel, net), net.todo # <<>>,
         NEW k, Runs(k), IsKernel(k),
         net.undoing = FALSE => Done(k, net.want, Tail(net.todo)),
         net.undoing = TRUE /\ net.notes = FALSE => Undone(k, net.want, Tail(net.todo))
  PROVE  IsKernel(kernel') /\ IsOperation(net') /\ Underway(kernel', net')
<1>1. CASE kernel' = k /\ Proceed
  BY <1>1, Proceeding
<1>2. CASE kernel' = kernel /\ Fails
  BY <1>2, Failing
<1> QED BY <1>1, <1>2 DEF Runs

Linking == ReportInv /\ net.stage = "applying" /\ net.todo # <<>>

LEMMA AtHead ==
  ASSUME Linking
  PROVE  /\ IsKernel(kernel) /\ IsOperation(net) /\ Underway(kernel, net)
         /\ net.undoing \in BOOLEAN /\ net.notes \in BOOLEAN
         /\ net.undoing = FALSE => IsWish(net.want) /\ Done(kernel, net.want, net.todo)
         /\ net.undoing = TRUE => IsSnapshot(net.want)
         /\ net.undoing = TRUE /\ net.notes = FALSE => Undone(kernel, net.want, net.todo)
BY DEF Linking, ReportInv, Underway

Good == IsKernel(kernel') /\ IsOperation(net') /\ Underway(kernel', net')

LEMMA LinkUpReports ==
  ASSUME Linking, LinkUp
  PROVE  Good
<1> DEFINE k == [kernel EXCEPT !.up = TRUE]
           w == net.want
<1>1. Head(net.todo) = "up" /\ Runs(k)
  BY DEF LinkUp, AtStep
<1>2. /\ IsKernel(k) /\ k.up = TRUE /\ k.addr = kernel.addr /\ k.gw = kernel.gw
      /\ k.clients = kernel.clients
  <2>1. k = [kernel EXCEPT !.up = TRUE]
    OBVIOUS
  <2> HIDE DEF k
  <2>2. IsKernel(kernel)
    BY AtHead
  <2>3. kernel = [up |-> kernel.up, addr |-> kernel.addr, gw |-> kernel.gw, dns |-> kernel.dns,
                  clients |-> kernel.clients]
    BY <2>2 DEF IsKernel
  <2>4. /\ k = [up |-> k.up, addr |-> k.addr, gw |-> k.gw, dns |-> k.dns, clients |-> k.clients]
        /\ k.up = TRUE /\ k.addr = kernel.addr /\ k.gw = kernel.gw /\ k.clients = kernel.clients
    BY <2>1, <2>3
  <2> QED BY <2>2, <2>4 DEF IsKernel
<1> HIDE DEF k
<1>3. net.undoing = FALSE => Done(k, w, Tail(net.todo))
  <2> SUFFICES ASSUME net.undoing = FALSE PROVE Done(k, w, Tail(net.todo))
    OBVIOUS
  <2>1. Tail(net.todo) = <<"stop">> \o (<<"flush">> \o (<<"routes">> \o AfterRoutes(w)))
    BY <1>1, AtHead, DoneAt DEF Linking
  <2>2. Raised(k, w)
    BY <1>2 DEF Raised
  <2> QED BY <2>1, <2>2 DEF Done
<1>4. net.undoing = TRUE /\ net.notes = FALSE => Undone(k, w, Tail(net.todo))
  <2> SUFFICES ASSUME net.undoing = TRUE, net.notes = FALSE PROVE Undone(k, w, Tail(net.todo))
    OBVIOUS
  <2>1. Tail(net.todo) = AfterUp(w) /\ Bare(kernel, w)
    BY <1>1, AtHead, UndoneAt DEF Linking
  <2>2. Bare(k, w) /\ Raised(k, w)
    BY <1>2, <2>1 DEF Raised, Bare, Unleased
  <2> QED BY <1>2, <2>1, <2>2, AtHead, UndoneAfter DEF IsKernel
<1> QED BY <1>1, <1>2, <1>3, <1>4, AtHead, Running DEF Linking, Good

LEMMA LinkDownReports ==
  ASSUME Linking, LinkDown
  PROVE  Good
<1> DEFINE k == [kernel EXCEPT !.up = FALSE, !.gw = None]
           w == net.want
<1>1. Head(net.todo) = "down" /\ Runs(k)
  BY DEF LinkDown, AtStep
<1>2. /\ IsKernel(k) /\ k.up = FALSE /\ k.addr = kernel.addr /\ k.gw = None
      /\ k.clients = kernel.clients
  <2>1. k = [kernel EXCEPT !.up = FALSE, !.gw = None]
    OBVIOUS
  <2> HIDE DEF k
  <2>2. IsKernel(kernel)
    BY AtHead
  <2>3. kernel = [up |-> kernel.up, addr |-> kernel.addr, gw |-> kernel.gw, dns |-> kernel.dns,
                  clients |-> kernel.clients]
    BY <2>2 DEF IsKernel
  <2>4. /\ k = [up |-> k.up, addr |-> k.addr, gw |-> k.gw, dns |-> k.dns, clients |-> k.clients]
        /\ k.up = FALSE /\ k.addr = kernel.addr /\ k.gw = None /\ k.clients = kernel.clients
    BY <2>1, <2>3
  <2> QED BY <2>2, <2>4 DEF IsKernel
<1> HIDE DEF k
<1>3. net.undoing # FALSE
  BY <1>1, AtHead, DoneAt DEF Linking
<1>4. net.undoing = TRUE /\ net.notes = FALSE => Undone(k, w, Tail(net.todo))
  <2> SUFFICES ASSUME net.undoing = TRUE, net.notes = FALSE PROVE Undone(k, w, Tail(net.todo))
    OBVIOUS
  <2>1. Tail(net.todo) = AfterDown(w) /\ FALSE \in w.up /\ Routed(kernel, w)
    BY <1>1, AtHead, UndoneAt DEF Linking
  <2>2. w.gw = None
    BY <2>1, AtHead DEF IsSnapshot
  <2>3. Routed(k, w) /\ LinkSet(k, w)
    BY <1>2, <2>1, <2>2 DEF Routed, LinkSet, Unleased
  <2> QED BY <1>2, <2>1, <2>3, AtHead, UndoneAfter DEF IsKernel
<1> QED BY <1>1, <1>2, <1>3, <1>4, AtHead, Running DEF Linking, Good

LEMMA FlushReports ==
  ASSUME Linking, Flush
  PROVE  Good
<1> DEFINE k == [kernel EXCEPT !.addr = {}, !.gw = None]
           w == net.want
<1>1. Head(net.todo) = "flush" /\ Runs(k)
  BY DEF Flush, AtStep
<1>2. IsKernel(k) /\ k.up = kernel.up /\ k.addr = {} /\ k.gw = None
  <2>1. k = [kernel EXCEPT !.addr = {}, !.gw = None]
    OBVIOUS
  <2> HIDE DEF k
  <2>2. IsKernel(kernel)
    BY AtHead
  <2>3. kernel = [up |-> kernel.up, addr |-> kernel.addr, gw |-> kernel.gw, dns |-> kernel.dns,
                  clients |-> kernel.clients]
    BY <2>2 DEF IsKernel
  <2>4. /\ k = [up |-> k.up, addr |-> k.addr, gw |-> k.gw, dns |-> k.dns, clients |-> k.clients]
        /\ k.up = kernel.up /\ k.addr = {} /\ k.gw = None /\ k.clients = kernel.clients
    BY <2>1, <2>3
  <2> QED BY <2>2, <2>4 DEF IsKernel
<1> HIDE DEF k
<1>3. Bare(k, w)
  BY <1>2 DEF Bare
<1>4. net.undoing = FALSE => Done(k, w, Tail(net.todo))
  <2> SUFFICES ASSUME net.undoing = FALSE PROVE Done(k, w, Tail(net.todo))
    OBVIOUS
  <2>1. Tail(net.todo) = <<"routes">> \o AfterRoutes(w) /\ Raised(kernel, w)
    BY <1>1, AtHead, DoneAt DEF Linking
  <2>2. Raised(k, w)
    BY <1>2, <2>1 DEF Raised
  <2> QED BY <1>3, <2>1, <2>2 DEF Done
<1>5. net.undoing = TRUE /\ net.notes = FALSE => Undone(k, w, Tail(net.todo))
  <2> SUFFICES ASSUME net.undoing = TRUE, net.notes = FALSE PROVE Undone(k, w, Tail(net.todo))
    OBVIOUS
  <2>1. Tail(net.todo) = AfterFlush(w)
    BY <1>1, AtHead, UndoneAt DEF Linking
  <2> QED BY <1>2, <1>3, <2>1, AtHead, UndoneAfter DEF IsKernel
<1> QED BY <1>1, <1>2, <1>4, <1>5, AtHead, Running DEF Linking, Good

LEMMA RoutesReports ==
  ASSUME Linking, Routes
  PROVE  Good
<1> DEFINE k == [kernel EXCEPT !.gw = None]
           w == net.want
<1>1. Head(net.todo) = "routes" /\ Runs(k)
  BY DEF Routes, AtStep
<1>2. /\ IsKernel(k) /\ k.up = kernel.up /\ k.addr = kernel.addr /\ k.gw = None
      /\ k.clients = kernel.clients
  BY AtHead DEF IsKernel
<1> HIDE DEF k
<1>3. net.undoing = FALSE => Done(k, w, Tail(net.todo))
  <2> SUFFICES ASSUME net.undoing = FALSE PROVE Done(k, w, Tail(net.todo))
    OBVIOUS
  <2>1. Tail(net.todo) = AfterRoutes(w) /\ Raised(kernel, w) /\ Bare(kernel, w)
    BY <1>1, AtHead, DoneAt DEF Linking
  <2>2. Raised(k, w) /\ Bare(k, w)
    BY <1>2, <2>1 DEF Raised, Bare, Unleased
  <2> QED BY <2>1, <2>2 DEF Done
<1>4. ~(net.undoing = TRUE /\ net.notes = FALSE)
  BY <1>1, AtHead, UndoneAt DEF Linking
<1> QED BY <1>1, <1>2, <1>3, <1>4, AtHead, Running DEF Linking, Good

LEMMA AddressReports ==
  ASSUME Linking, Address
  PROVE  Good
<1> DEFINE w == net.want
           k == [kernel EXCEPT !.addr = @ \cup {w.addr}]
<1>1. Head(net.todo) = "address" /\ Runs(k)
  BY DEF Address, AtStep
<1>2. w.addr # None
  <2>1. w.addr = None => net.todo \in Seq(Commands \ {"address"})
    BY DEF Linking, ReportInv, Underway, NoAddressSet
  <2> QED BY <1>1, <2>1, HeadTailProperties DEF Linking
<1>3. /\ IsKernel(k) /\ k.up = kernel.up /\ k.addr = kernel.addr \cup {w.addr}
      /\ k.gw = kernel.gw /\ k.clients = kernel.clients
  <2>1. IsKernel(kernel)
    BY AtHead
  <2>2. k = [up |-> kernel.up, addr |-> kernel.addr \cup {w.addr}, gw |-> kernel.gw, dns |-> kernel.dns, clients |-> kernel.clients]
    BY <2>1 DEF IsKernel
  <2> HIDE DEF k
  <2> QED BY <1>2, <2>1, <2>2 DEF IsKernel
<1> HIDE DEF k
<1>4. net.undoing = FALSE => Done(k, w, Tail(net.todo))
  <2> SUFFICES ASSUME net.undoing = FALSE PROVE Done(k, w, Tail(net.todo))
    OBVIOUS
  <2>1. /\ Tail(net.todo) = <<"gateway", "dns", "count">> /\ w.clients = 0
        /\ Raised(kernel, w) /\ Bare(kernel, w)
    BY <1>1, AtHead, DoneAt DEF Linking
  <2>2. Raised(k, w) /\ Addressed(k, w)
    BY <1>2, <1>3, <2>1 DEF Raised, Bare, Addressed, Unleased
  <2> QED BY <2>1, <2>2 DEF Done
<1>5. net.undoing = TRUE /\ net.notes = FALSE => Undone(k, w, Tail(net.todo))
  <2> SUFFICES ASSUME net.undoing = TRUE, net.notes = FALSE PROVE Undone(k, w, Tail(net.todo))
    OBVIOUS
  <2>1. Tail(net.todo) = AfterAddress(w) /\ Bare(kernel, w) /\ Raised(kernel, w)
    BY <1>1, AtHead, UndoneAt DEF Linking
  <2>2. Raised(k, w) /\ Addressed(k, w)
    BY <1>2, <1>3, <2>1 DEF Raised, Bare, Addressed, Unleased
  <2>3. IsSnapshot(w) /\ k.up \in BOOLEAN
    BY <1>3, AtHead DEF IsKernel
  <2> QED BY <2>1, <2>2, <2>3, UndoneAfter
<1> QED BY <1>1, <1>3, <1>4, <1>5, AtHead, Running DEF Linking, Good

LEMMA GatewayReports ==
  ASSUME Linking, Gateway
  PROVE  Good
<1> DEFINE w == net.want
           k == [kernel EXCEPT !.gw = w.gw]
<1>1. Head(net.todo) = "gateway"
  BY DEF Gateway, AtStep
<1>2. CASE kernel.up /\ kernel.addr # {} /\ Runs(k)
  <2>1. /\ IsKernel(k) /\ k.up = kernel.up /\ k.addr = kernel.addr /\ k.gw = w.gw
        /\ k.clients = kernel.clients
    <3>1. IsKernel(kernel)
      BY AtHead
    <3>2. k = [up |-> kernel.up, addr |-> kernel.addr, gw |-> w.gw, dns |-> kernel.dns, clients |-> kernel.clients]
      BY <3>1 DEF IsKernel
    <3> HIDE DEF k
    <3> QED BY <1>2, <3>1, <3>2 DEF IsKernel
  <2> HIDE DEF k
  <2>2. net.undoing = FALSE => Done(k, w, Tail(net.todo))
    <3> SUFFICES ASSUME net.undoing = FALSE PROVE Done(k, w, Tail(net.todo))
      OBVIOUS
    <3>1. /\ Tail(net.todo) = <<"dns", "count">> /\ w.clients = 0
          /\ Raised(kernel, w) /\ Addressed(kernel, w)
      BY <1>1, AtHead, DoneAt DEF Linking
    <3>2. Unleased(kernel, w) => w.addr # None
      BY <1>2, <3>1 DEF Addressed
    <3>3. Raised(k, w) /\ Routed(k, w)
      BY <2>1, <3>1, <3>2 DEF Raised, Routed, Addressed, Unleased
    <3> QED BY <3>1, <3>3 DEF Done
  <2>3. net.undoing = TRUE /\ net.notes = FALSE => Undone(k, w, Tail(net.todo))
    <3> SUFFICES ASSUME net.undoing = TRUE, net.notes = FALSE PROVE Undone(k, w, Tail(net.todo))
      OBVIOUS
    <3>1. Tail(net.todo) = AfterGateway(w) /\ Addressed(kernel, w) /\ Raised(kernel, w)
      BY <1>1, AtHead, UndoneAt DEF Linking
    <3>2. Unleased(kernel, w) => w.addr # None
      BY <1>2, <3>1 DEF Addressed
    <3>3. Raised(k, w) /\ Routed(k, w)
      BY <2>1, <3>1, <3>2 DEF Raised, Routed, Addressed, Unleased
    <3> QED BY <2>1, <3>1, <3>3, AtHead, UndoneAfter DEF IsKernel
  <2> QED BY <1>2, <2>1, <2>2, <2>3, AtHead, Running DEF Linking, Good
<1>3. CASE kernel' = kernel /\ Fails
  BY <1>3, AtHead, Failing DEF Linking, Good
<1> QED BY <1>2, <1>3 DEF Gateway

LEMMA ResolverReports ==
  ASSUME Linking, Resolver
  PROVE  Good
<1> DEFINE w == net.want
           k == [kernel EXCEPT !.dns = w.dns]
<1>1. Head(net.todo) = "dns"
  BY DEF Resolver, AtStep
<1>2. CASE Runs(k)
  <2>1. /\ IsKernel(k) /\ k.up = kernel.up /\ k.addr = kernel.addr /\ k.gw = kernel.gw
        /\ k.dns = w.dns /\ k.clients = kernel.clients
    <3>1. IsKernel(kernel)
      BY AtHead
    <3>2. k = [up |-> kernel.up, addr |-> kernel.addr, gw |-> kernel.gw, dns |-> w.dns, clients |-> kernel.clients]
      BY <3>1 DEF IsKernel
    <3> HIDE DEF k
    <3> QED BY <3>1, <3>2 DEF IsKernel
  <2> HIDE DEF k
  <2>2. net.undoing = FALSE => Done(k, w, Tail(net.todo))
    <3> SUFFICES ASSUME net.undoing = FALSE PROVE Done(k, w, Tail(net.todo))
      OBVIOUS
    <3>1. Tail(net.todo) = <<"count">> /\ Raised(kernel, w) /\ Routed(kernel, w)
      BY <1>1, AtHead, DoneAt DEF Linking
    <3>2. Raised(k, w) /\ Named(k, w)
      BY <2>1, <3>1 DEF Raised, Routed, Named, Unleased
    <3> QED BY <3>1, <3>2 DEF Done
  <2>3. net.undoing = TRUE /\ net.notes = FALSE => Undone(k, w, Tail(net.todo))
    <3> SUFFICES ASSUME net.undoing = TRUE, net.notes = FALSE PROVE Undone(k, w, Tail(net.todo))
      OBVIOUS
    <3>1. Tail(net.todo) = <<"restart", "count">> /\ Routed(kernel, w) /\ LinkSet(kernel, w)
      BY <1>1, AtHead, UndoneAt DEF Linking
    <3>2. Named(k, w) /\ LinkSet(k, w)
      BY <2>1, <3>1 DEF LinkSet, Routed, Named, Unleased
    <3> QED BY <3>1, <3>2 DEF Undone
  <2> QED BY <1>2, <2>1, <2>2, <2>3, AtHead, Running DEF Linking, Good
<1>3. CASE kernel' = [kernel EXCEPT !.dns = None] /\ Fails
  <2>1. IsKernel(kernel')
    BY <1>3, AtHead DEF IsKernel
  <2> QED BY <1>3, <2>1, AtHead, Failing DEF Linking, Good
<1> QED BY <1>2, <1>3 DEF Resolver

LEMMA StopClientsReports ==
  ASSUME Linking, StopClients
  PROVE  Good
<1> DEFINE w == net.want
<1>1. IsKernel(kernel) /\ kernel.clients \in Nat
  BY AtHead DEF IsKernel
<1>2. PICK n \in Nat : kernel' = [kernel EXCEPT !.clients = n] /\ (Proceed \/ Fails)
  BY <1>1 DEF StopClients
<1>3. /\ IsKernel(kernel') /\ kernel'.up = kernel.up
  BY <1>1, <1>2 DEF IsKernel
<1>4. CASE Fails
  BY <1>3, <1>4, AtHead, Failing DEF Linking, Good
<1>5. CASE Proceed
  <2>1. net.undoing = FALSE => Done(kernel', w, Tail(net.todo))
    <3> SUFFICES ASSUME net.undoing = FALSE PROVE Done(kernel', w, Tail(net.todo))
      OBVIOUS
    <3>1. Head(net.todo) = "stop"
      BY AtHead, DoneAt DEF Linking, StopClients, AtStep
    <3>2. Tail(net.todo) = <<"flush">> \o (<<"routes">> \o AfterRoutes(w)) /\ Raised(kernel, w)
      BY <3>1, AtHead, DoneAt DEF Linking
    <3>3. Raised(kernel', w)
      BY <1>3, <3>2 DEF Raised
    <3> QED BY <3>2, <3>3 DEF Done
  <2>2. net.undoing = TRUE /\ net.notes = FALSE => Undone(kernel', w, Tail(net.todo))
    <3> SUFFICES ASSUME net.undoing = TRUE, net.notes = FALSE
                 PROVE  Undone(kernel', w, Tail(net.todo))
      OBVIOUS
    <3>1. Head(net.todo) = "halt"
      BY AtHead, UndoneAt DEF Linking, StopClients, AtStep
    <3>2. Tail(net.todo) = <<"flush">> \o AfterFlush(w)
      BY <3>1, AtHead, UndoneAt DEF Linking
    <3> QED BY <3>2 DEF Undone
  <2> QED BY <1>3, <1>5, <2>1, <2>2, AtHead, Proceeding DEF Linking, Good
<1> QED BY <1>2, <1>4, <1>5

LEMMA StartClientReports ==
  ASSUME Linking, StartClient
  PROVE  Good
<1> DEFINE w == net.want
           k == [kernel EXCEPT !.clients = @ + 1]
<1>1. Runs(k) /\ (Head(net.todo) = "client" \/ (Head(net.todo) = "restart" /\ w.clients > 0))
  BY DEF StartClient, AtStep
<1>2. /\ IsKernel(k) /\ k.up = kernel.up /\ k.clients = kernel.clients + 1 /\ kernel.clients \in Nat
  <2>1. IsKernel(kernel)
    BY AtHead
  <2>2. k = [up |-> kernel.up, addr |-> kernel.addr, gw |-> kernel.gw, dns |-> kernel.dns,
             clients |-> kernel.clients + 1]
    BY <2>1 DEF IsKernel
  <2> HIDE DEF k
  <2> QED BY <2>1, <2>2 DEF IsKernel
<1> HIDE DEF k
<1>3. net.undoing = FALSE => Done(k, w, Tail(net.todo))
  <2> SUFFICES ASSUME net.undoing = FALSE PROVE Done(k, w, Tail(net.todo))
    OBVIOUS
  <2>1. Head(net.todo) = "client"
    BY <1>1, AtHead, DoneAt DEF Linking
  <2>2. Tail(net.todo) = <<"lease", "count">> /\ w.clients = 1 /\ Raised(kernel, w)
    BY <2>1, AtHead, DoneAt DEF Linking
  <2>3. Raised(k, w)
    BY <1>2, <2>2 DEF Raised
  <2> QED BY <2>2, <2>3 DEF Done
<1>4. net.undoing = TRUE /\ net.notes = FALSE => Undone(k, w, Tail(net.todo))
  <2> SUFFICES ASSUME net.undoing = TRUE, net.notes = FALSE PROVE Undone(k, w, Tail(net.todo))
    OBVIOUS
  <2>1. Head(net.todo) = "restart" /\ w.clients > 0
    BY <1>1, AtHead, UndoneAt DEF Linking
  <2>2. Tail(net.todo) = <<"count">> /\ LinkSet(kernel, w)
    BY <2>1, AtHead, UndoneAt DEF Linking
  <2>3. LinkSet(k, w) /\ Named(k, w)
    BY <1>2, <2>1, <2>2 DEF LinkSet, Named, Routed, Unleased
  <2> QED BY <2>2, <2>3 DEF Undone
<1> QED BY <1>1, <1>2, <1>3, <1>4, AtHead, Running DEF Linking, Good

LEMMA SkipRestartReports ==
  ASSUME Linking, SkipRestart
  PROVE  Good
<1> DEFINE w == net.want
<1>1. Head(net.todo) = "restart" /\ Proceed /\ kernel' = kernel
  BY DEF SkipRestart, AtStep
<1>2. net.undoing # FALSE
  BY <1>1, AtHead, DoneAt DEF Linking
<1>3. net.undoing = TRUE /\ net.notes = FALSE => Undone(kernel', w, Tail(net.todo))
  <2> SUFFICES ASSUME net.undoing = TRUE, net.notes = FALSE PROVE Undone(kernel', w, Tail(net.todo))
    OBVIOUS
  <2>1. Tail(net.todo) = <<"count">> /\ Named(kernel, w) /\ LinkSet(kernel, w)
    BY <1>1, AtHead, UndoneAt DEF Linking
  <2> QED BY <1>1, <2>1 DEF Undone
<1> QED BY <1>1, <1>2, <1>3, AtHead, Proceeding DEF Linking, Good

LEMMA LeaseReports ==
  ASSUME Linking, LeaseArrived
  PROVE  Good
<1> DEFINE w == net.want
<1>1. Head(net.todo) = "lease" /\ kernel' = kernel
  BY DEF LeaseArrived, AtStep
<1>2. CASE Proceed
  <2>1. net.undoing = FALSE => Done(kernel', w, Tail(net.todo))
    <3> SUFFICES ASSUME net.undoing = FALSE PROVE Done(kernel', w, Tail(net.todo))
      OBVIOUS
    <3>1. Tail(net.todo) = <<"count">> /\ w.clients = 1 /\ Raised(kernel, w)
      BY <1>1, AtHead, DoneAt DEF Linking
    <3>2. Named(kernel, w)
      BY <3>1 DEF Named, Routed, Unleased
    <3> QED BY <1>1, <3>1, <3>2 DEF Done
  <2>2. ~(net.undoing = TRUE /\ net.notes = FALSE)
    BY <1>1, AtHead, UndoneAt DEF Linking
  <2> QED BY <1>1, <1>2, <2>1, <2>2, AtHead, Proceeding DEF Linking, Good
<1>3. CASE Fails
  BY <1>1, <1>3, AtHead, Failing DEF Linking, Good
<1> QED BY <1>2, <1>3 DEF LeaseArrived

LEMMA CountReports ==
  ASSUME Linking, CountClients
  PROVE  Good
<1> DEFINE w == net.want
<1>1. Head(net.todo) = "count" /\ kernel' = kernel
  BY DEF CountClients, AtStep
<1>2. CASE Proceed /\ kernel.clients = (IF w.clients > 0 THEN 1 ELSE 0)
  <2>1. net.undoing = FALSE => Done(kernel', w, Tail(net.todo))
    <3> SUFFICES ASSUME net.undoing = FALSE PROVE Done(kernel', w, Tail(net.todo))
      OBVIOUS
    <3>1. Tail(net.todo) = <<>> /\ Named(kernel, w) /\ Raised(kernel, w)
      BY <1>1, AtHead, DoneAt DEF Linking
    <3>2. LinkSet(kernel, w)
      <4>1. w.up = {TRUE} /\ kernel.up \in BOOLEAN
        BY AtHead DEF IsWish, IsKernel
      <4>2. kernel.up
        BY <3>1, <4>1 DEF Raised
      <4> QED BY <4>1, <4>2 DEF LinkSet
    <3> QED BY <1>1, <1>2, <3>1, <3>2 DEF Done, AsWanted
  <2>2. net.undoing = TRUE /\ net.notes = FALSE => Undone(kernel', w, Tail(net.todo))
    <3> SUFFICES ASSUME net.undoing = TRUE, net.notes = FALSE
                 PROVE  Undone(kernel', w, Tail(net.todo))
      OBVIOUS
    <3>1. Tail(net.todo) = <<>> /\ Named(kernel, w) /\ LinkSet(kernel, w)
      BY <1>1, AtHead, UndoneAt DEF Linking
    <3> QED BY <1>1, <1>2, <3>1 DEF Undone, AsWanted
  <2> QED BY <1>1, <1>2, <2>1, <2>2, AtHead, Proceeding DEF Linking, Good
<1>3. CASE Fails
  BY <1>1, <1>3, AtHead, Failing DEF Linking, Good
<1> QED BY <1>2, <1>3 DEF CountClients

(***************************************************************************)
(* The invariant.                                                          *)
(***************************************************************************)
LEMMA SameTarget ==
  ASSUME IsOperation(net), Fails \/ Proceed
  PROVE  net'.target = net.target /\ net'.prev = net.prev /\ net'.stage = net.stage
BY DEF Fails, Proceed, Rollback, IsOperation

LEMMA RestingIsReported ==
  ASSUME NEW last, NEW o, o = [Resting(last) EXCEPT !.stage = "starting"]
  PROVE  IsOperation(o) /\ o.stage = "starting" /\ o.target = last /\ o.prev = last
BY DEF Resting, IsOperation

LEMMA CommandReports ==
  ASSUME ReportInv, NetworkCommand
  PROVE  ReportInv'
<1>1. Linking
  BY DEF NetworkCommand, LinkUp, LinkDown, Flush, Routes, Address, Gateway, Resolver, StopClients,
         StartClient, SkipRestart, LeaseArrived, LeaseTimesOut, CountClients, AtStep, Linking
<1>2. stored' = stored /\ settings' = settings
  BY DEF NetworkCommand, LinkUp, LinkDown, Flush, Routes, Address, Gateway, Resolver, StopClients,
         StartClient, SkipRestart, LeaseArrived, LeaseTimesOut, CountClients, Runs, NotTheKernel
<1>3. CASE Good /\ (Fails \/ Proceed)
  BY <1>2, <1>3, SameTarget DEF Good, ReportInv
<1>4. CASE LeaseTimesOut
  <2>1. CASE Fails
    <3>1. Good
      BY <1>1, <1>4, <2>1, AtHead, Failing DEF Linking, Good, LeaseTimesOut
    <3> QED BY <1>3, <2>1, <3>1
  <2>2. CASE net' = Resting(net.target)
    <3>1. IsOperation(net') /\ net'.stage = "idle" /\ net'.target = net.target
          /\ net'.prev = net.target
      BY <2>2 DEF Resting, IsOperation
    <3> QED BY <1>2, <1>4, <3>1 DEF ReportInv, LeaseTimesOut
  <2> QED BY <1>4, <2>1, <2>2 DEF LeaseTimesOut
<1>5. CASE LinkUp \/ LinkDown \/ Flush \/ Routes \/ Address \/ Gateway \/ Resolver
  <2>1. Good
    BY <1>1, <1>5, LinkUpReports, LinkDownReports, FlushReports, RoutesReports, AddressReports,
       GatewayReports, ResolverReports
  <2>2. Fails \/ Proceed
    BY <1>5 DEF LinkUp, LinkDown, Flush, Routes, Address, Gateway, Resolver, Runs
  <2> QED BY <1>3, <2>1, <2>2
<1>6. CASE StopClients \/ StartClient \/ SkipRestart \/ LeaseArrived \/ CountClients
  <2>1. Good
    BY <1>1, <1>6, StopClientsReports, StartClientReports, SkipRestartReports, LeaseReports,
       CountReports
  <2>2. Fails \/ Proceed
    BY <1>6 DEF StopClients, StartClient, SkipRestart, LeaseArrived, CountClients, Runs
  <2> QED BY <1>3, <2>1, <2>2
<1> QED BY <1>4, <1>5, <1>6 DEF NetworkCommand

LEMMA SnapshotsAreSnapshots ==
  ASSUME IsKernel(kernel), NEW snap \in Snapshots(kernel)
  PROVE  IsSnapshot(snap)
<1>1. PICK u \in {{kernel.up}, {}}, a \in kernel.addr \cup {None}, g \in {kernel.gw, None},
           d \in {kernel.dns, None} :
        snap = [up |-> u, addr |-> a, gw |-> g, dns |-> d, clients |-> kernel.clients]
  BY DEF Snapshots
<1>2. snap.up = u /\ snap.addr = a /\ snap.gw = g /\ snap.clients = kernel.clients
  BY <1>1
<1>3. kernel.gw = None => snap.gw = None
  BY <1>1, <1>2
<1>4. snap.up \in {{TRUE}, {FALSE}, {}} /\ (snap.up = {FALSE} => kernel.up = FALSE)
  BY <1>1, <1>2 DEF IsKernel
<1> QED BY <1>2, <1>3, <1>4 DEF IsSnapshot, IsKernel

LEMMA Beginning ==
  ASSUME IsKernel(kernel), kernel' = kernel, NEW kind, NEW target, NEW prev,
         target.set \in Settings, prev.set \in Settings, Begin(kind, target, prev)
  PROVE  /\ IsOperation(net')
         /\ net'.target.set \in Settings /\ net'.prev.set \in Settings
         /\ net'.stage = "applying" => Underway(kernel', net')
<1>1. CASE net' = Resting(target)
  BY <1>1 DEF Resting, IsOperation
<1>2. CASE net' = [Resting(target) EXCEPT !.stage = "restoring", !.prev = prev]
  <2>1. net' = [stage |-> "restoring", kind |-> "none", target |-> target, prev |-> prev,
                snap |-> NoSnapshot, want |-> NoSnapshot, todo |-> <<>>, undoing |-> FALSE,
                notes |-> FALSE]
    BY <1>2 DEF Resting
  <2> QED BY <2>1 DEF IsOperation
<1>3. CASE \E snap \in Snapshots(kernel) :
             net' = [stage |-> "applying", kind |-> kind, target |-> target, prev |-> prev,
                     snap |-> snap, want |-> Wanted(target.set), todo |-> Forward(target.set),
                     undoing |-> FALSE, notes |-> FALSE]
  <2>1. PICK snap \in Snapshots(kernel) :
               net' = [stage |-> "applying", kind |-> kind, target |-> target, prev |-> prev,
                       snap |-> snap, want |-> Wanted(target.set), todo |-> Forward(target.set),
                       undoing |-> FALSE, notes |-> FALSE]
    BY <1>3
  <2>2. /\ IsOperation(net') /\ net'.target = target /\ net'.prev = prev /\ net'.snap = snap
        /\ net'.want = Wanted(target.set) /\ net'.todo = Forward(target.set)
        /\ net'.undoing = FALSE /\ net'.notes = FALSE
    BY <2>1 DEF IsOperation
  <2>3. IsWish(Wanted(target.set))
    BY NetworkAssumption DEF Wanted, IsWish, Settings
  <2>4. Done(kernel', Wanted(target.set), Forward(target.set))
    BY ForwardInSteps DEF Done
  <2>5. NoAddressSet(net')
    BY <2>2, <2>3 DEF NoAddressSet, IsWish
  <2>6. IsSnapshot(snap)
    BY SnapshotsAreSnapshots
  <2> QED BY <2>2, <2>3, <2>4, <2>5, <2>6 DEF Underway
<1> QED BY <1>1, <1>2, <1>3 DEF Begin

(* A client that comes or has come leaves the check at the end something   *)
(* to find, or makes what it changes nobody's concern.                     *)
LEMMA Disturbed ==
  ASSUME NEW k, NEW m, NEW o, Underway(k, o), o.todo # <<>>, m.up = k.up, m.clients # 0
  PROVE  Underway(m, o)
<1>1. ASSUME NEW w
      PROVE  /\ Bare(m, w) /\ Addressed(m, w) /\ Routed(m, w) /\ Named(m, w)
             /\ Raised(k, w) => Raised(m, w)
             /\ LinkSet(k, w) => LinkSet(m, w)
  BY DEF Bare, Addressed, Routed, Named, Unleased, Raised, LinkSet
<1>2. Done(k, o.want, o.todo) => Done(m, o.want, o.todo)
  BY <1>1 DEF Done
<1>3. Undone(k, o.want, o.todo) => Undone(m, o.want, o.todo)
  BY <1>1 DEF Undone
<1> QED BY <1>2, <1>3 DEF Underway

LEMMA BootedKernels ==
  ASSUME NEW k \in Booted
  PROVE  IsKernel(k)
<1>1. CASE k = [up |-> TRUE, addr |-> {"own"}, gw |-> "own", dns |-> "own", clients |-> 0]
  BY <1>1 DEF IsKernel, None
<1>2. CASE k = [up |-> FALSE, addr |-> {}, gw |-> None, dns |-> "own", clients |-> 0]
  BY <1>2 DEF IsKernel
<1>3. CASE k = [up |-> TRUE, addr |-> {}, gw |-> None, dns |-> "own", clients |-> 1]
  BY <1>3 DEF IsKernel
<1> QED BY <1>1, <1>2, <1>3 DEF Booted

LEMMA OperationReports ==
  ASSUME ReportInv,
         \/ ApplySettings \/ ApplyOnStartup \/ UpdateSettings \/ SaveAndApply
         \/ FinishApply \/ RestoreStored
         \/ Lease \/ AnotherClient \/ RestartNetwork
  PROVE  ReportInv'
<1>1. ASSUME NEW last, last.set \in Settings, net' = Resting(last)
      PROVE  /\ IsOperation(net') /\ net'.stage = "idle"
             /\ net'.target.set \in Settings /\ net'.prev.set \in Settings
  BY <1>1 DEF Resting, IsOperation
<1>2. CASE ApplySettings
  BY <1>2, Beginning DEF ApplySettings, ReportInv
<1>3. CASE ApplyOnStartup
  BY <1>1, <1>3, Beginning DEF ApplyOnStartup, ReportInv
<1>4. CASE UpdateSettings
  <2>1. PICK s \in Settings : stored' = [set |-> s, explicit |-> FALSE]
    BY <1>4 DEF UpdateSettings
  <2>2. stored'.set \in Settings
    BY <2>1
  <2> QED BY <1>1, <1>4, <2>2 DEF UpdateSettings, ReportInv
<1>5. CASE SaveAndApply
  <2>1. PICK s \in Settings : stored' = [set |-> s, explicit |-> TRUE] /\ settings' = stored'
                              /\ Begin("save", stored', settings)
    BY <1>5 DEF SaveAndApply
  <2>2. stored'.set \in Settings
    BY <2>1
  <2> QED BY <1>5, <2>1, <2>2, Beginning DEF SaveAndApply, ReportInv
<1>6. CASE FinishApply
  <2>1. CASE net' = Resting(net.target)
    BY <1>1, <1>6, <2>1 DEF FinishApply, ReportInv
  <2>2. CASE net' = [Resting(net.target) EXCEPT !.stage = "restoring", !.prev = net.prev]
    <3>1. net' = [stage |-> "restoring", kind |-> "none", target |-> net.target, prev |-> net.prev,
                  snap |-> NoSnapshot, want |-> NoSnapshot, todo |-> <<>>, undoing |-> FALSE,
                  notes |-> FALSE]
      BY <2>2 DEF Resting
    <3>2. /\ IsOperation(net') /\ net'.stage = "restoring"
          /\ net'.target = net.target /\ net'.prev = net.prev
      BY <3>1 DEF IsOperation
    <3> QED BY <1>6, <3>2 DEF FinishApply, ReportInv
  <2> QED BY <1>6, <2>1, <2>2 DEF FinishApply
<1>7. CASE RestoreStored
  <2>1. CASE stored' = net.prev /\ settings' = net.prev /\ ApplyFormer
    <3>1. CASE net' = Resting(net.prev)
      BY <1>1, <1>7, <2>1, <3>1 DEF RestoreStored, ReportInv
    <3>2. CASE Begin("again", net.prev, net.prev)
      BY <1>7, <2>1, <3>2, Beginning DEF RestoreStored, ReportInv
    <3> QED BY <2>1, <3>1, <3>2 DEF ApplyFormer
  <2>2. CASE net' = Resting(net.target) /\ UNCHANGED <<stored, settings>>
    BY <1>1, <1>7, <2>2 DEF RestoreStored, ReportInv
  <2> QED BY <1>7, <2>1, <2>2 DEF RestoreStored
<1>8. CASE Lease \/ AnotherClient
  <2>1. IsKernel(kernel) /\ UNCHANGED <<stored, settings, net>> /\ ~Quiet
    BY <1>8 DEF Lease, AnotherClient, ReportInv
  <2>2. IsKernel(kernel') /\ kernel'.up = kernel.up /\ kernel'.clients # 0
    <3>1. CASE Lease
      <4>1. kernel' = [kernel EXCEPT !.addr = {"leased"}, !.gw = "leased", !.dns = "leased"]
            /\ kernel.clients > 0 /\ kernel.up
        BY <3>1 DEF Lease
      <4>2. kernel = [up |-> kernel.up, addr |-> kernel.addr, gw |-> kernel.gw, dns |-> kernel.dns,
                      clients |-> kernel.clients]
            /\ kernel.up \in BOOLEAN /\ kernel.clients \in Nat
        BY <2>1 DEF IsKernel
      <4>3. /\ kernel' = [up |-> kernel'.up, addr |-> kernel'.addr, gw |-> kernel'.gw,
                          dns |-> kernel'.dns, clients |-> kernel'.clients]
            /\ kernel'.up = kernel.up /\ kernel'.addr = {"leased"}
            /\ kernel'.clients = kernel.clients
        BY <4>1, <4>2
      <4>4. None \notin kernel'.addr /\ kernel'.addr # {}
        BY <4>3 DEF None
      <4>5. kernel.clients # 0
        BY <4>1, <4>2
      <4> QED BY <4>1, <4>2, <4>3, <4>4, <4>5 DEF IsKernel
    <3>2. CASE AnotherClient
      BY <2>1, <3>2 DEF AnotherClient, IsKernel
    <3> QED BY <1>8, <3>1, <3>2
  <2>3. net.stage = "applying" => Underway(kernel', net)
    BY <2>1, <2>2, Disturbed DEF Quiet, ReportInv
  <2> QED BY <2>1, <2>2, <2>3 DEF ReportInv
<1>9. CASE RestartNetwork
  <2>1. IsKernel(kernel')
    <3>1. CASE kernel' = kernel
      BY <3>1 DEF ReportInv
    <3>2. CASE kernel' \in Booted
      BY <3>2, BootedKernels
    <3> QED BY <1>9, <3>1, <3>2 DEF RestartNetwork
  <2>2. /\ IsOperation(net') /\ net'.stage = "starting"
        /\ net'.target = stored /\ net'.prev = stored
    <3>1. net' = [Resting(stored) EXCEPT !.stage = "starting"] /\ stored.set \in Settings
      BY <1>9 DEF RestartNetwork, ReportInv
    <3> QED BY <3>1, RestingIsReported
  <2> QED BY <1>9, <2>1, <2>2 DEF RestartNetwork, ReportInv
<1> QED BY <1>2, <1>3, <1>4, <1>5, <1>6, <1>7, <1>8, <1>9

(* What an application or its rollback reports of the interface is so, for *)
(* any settings and however many commands fail, clients appear and leases  *)
(* arrive in between (backend_network_runtime.cpp).                        *)
THEOREM ReportStaysTrue == NetworkSpec => []ReportIsTrue
<1>1. NetworkInit => ReportInv
  <2> SUFFICES ASSUME NetworkInit PROVE ReportInv
    OBVIOUS
  <2>1. IsKernel(kernel)
    BY BootedKernels DEF NetworkInit
  <2>2. stored.set \in Settings /\ settings = stored
    BY DEF NetworkInit
  <2>3. IsOperation(net) /\ net.stage = "starting" /\ net.target = stored /\ net.prev = stored
    BY <2>2, RestingIsReported DEF NetworkInit
  <2> QED BY <2>1, <2>2, <2>3 DEF ReportInv
<1>2. ReportInv /\ [NetworkNext]_netVars => ReportInv'
  <2>1. ReportInv /\ NetworkNext => ReportInv'
    BY CommandReports, OperationReports DEF NetworkNext
  <2>2. ReportInv /\ UNCHANGED netVars => ReportInv'
    BY DEF ReportInv, netVars
  <2> QED BY <2>1, <2>2
<1>3. ReportInv => ReportIsTrue
  <2> SUFFICES ASSUME ReportInv, net.stage = "applying", net.todo = <<>>, ~net.notes
               PROVE  InForce(net.want)
    BY DEF ReportIsTrue
  <2>1. Underway(kernel, net) /\ net.undoing \in BOOLEAN /\ net.notes = FALSE
    BY DEF ReportInv, Underway
  <2>2. ASSUME NEW c \in Commands, NEW rest \in Seq(Commands) PROVE <<c>> \o rest # <<>>
    BY FirstOf
  <2>3. net.undoing = TRUE => AsWanted(kernel, net.want)
    <3>1. ASSUME net.undoing = TRUE PROVE AsWanted(kernel, net.want)
      <4>1. Undone(kernel, net.want, <<>>)
        BY <2>1, <3>1 DEF Underway
      <4>2. {"halt", "flush", "up", "address", "gateway", "down"} \subseteq Commands
        BY DEF Commands
      <4> QED BY <2>2, <4>1, <4>2, AftersAreSeqs DEF Undone
    <3> QED BY <3>1
  <2>4. net.undoing = FALSE => AsWanted(kernel, net.want)
    <3>1. ASSUME net.undoing = FALSE PROVE AsWanted(kernel, net.want)
      <4>1. Done(kernel, net.want, <<>>)
        BY <2>1, <3>1 DEF Underway
      <4>2. {"up", "stop", "flush", "routes"} \subseteq Commands
        BY DEF Commands
      <4>3. AfterRoutes(net.want) # <<>>
        BY DEF AfterRoutes
      <4> QED BY <2>2, <4>1, <4>2, <4>3, AftersAreSeqs DEF Done
    <3> QED BY <3>1
  <2>5. AsWanted(kernel, net.want)
    BY <2>1, <2>3, <2>4
  <2> QED BY <2>5 DEF AsWanted, InForce, LinkSet, Named, Routed, Unleased
<1> QED BY <1>1, <1>2, <1>3, PTL DEF NetworkSpec

-----------------------------------------------------------------------------
(* ChildProcess.                                                           *)

IsStarter(s) ==
  s = [at |-> s.at, known |-> s.known, error |-> s.error, late |-> s.late, blind |-> s.blind]

(* Nobody is left who could tell the starter anything more.                *)
NobodyTells == launcher # "running" /\ detached \in {"none", "program", "dead"}

(* Whoever has told its identity is known, or will be when the pipe is     *)
(* read; and the pipe is only given up unread when nobody writes to it any *)
(* more, unless it cannot be polled.                                       *)
StartInv ==
  /\ IsStarter(starter)
  /\ wire \in Seq({"identity", "error"})
  /\ detached \in {"none", "born", "told", "away", "program", "dead"}
  /\ detached \in {"told", "away", "program"} => starter.known \/ Received("identity")
  /\ starter.at = "identifying" => launcher # "running" /\ detached \notin {"born", "told"}
  /\ ~starter.blind =>
       /\ starter.at \in {"clearing", "identifying"} /\ ~starter.late => wire = <<>> /\ NobodyTells
       /\ starter.at = "reaping" => NobodyTells /\ (detached = "program" => starter.known)
       /\ starter.at = "refused" => launcher # "running" /\ detached \in {"none", "dead"}

LEMMA ReadFields ==
  ASSUME IsStarter(starter)
  PROVE  /\ IsStarter(Read(starter)) /\ Read(starter).at = starter.at
         /\ Read(starter).late = starter.late /\ Read(starter).blind = starter.blind
         /\ Read(starter).known = (starter.known \/ Received("identity"))
<1> DEFINE known == starter.known \/ Received("identity")
           error == starter.error \/ Received("error")
<1>1. Read(starter) = [starter EXCEPT !.known = known, !.error = error]
  BY DEF Read
<1> HIDE DEF known, error
<1>2. Read(starter) = [at |-> starter.at, known |-> known, error |-> error,
                       late |-> starter.late, blind |-> starter.blind]
  BY <1>1 DEF IsStarter
<1> QED BY <1>2 DEF IsStarter, known

LEMMA NothingReceived ==
  ASSUME wire = <<>>, NEW message
  PROVE  ~Received(message)
BY DEF Received

LEMMA NothingIsSeq == <<>> \in Seq({"identity", "error"})
OBVIOUS

(* Writing to the pipe makes nothing unsaid.                               *)
LEMMA StillReceived ==
  ASSUME wire \in Seq({"identity", "error"}), Received("identity"),
         \/ wire' = Append(wire, "identity") \/ wire' = Append(wire, "error")
         \/ wire' = wire \o <<"error">> \/ wire' = wire \o <<>> \/ wire' = wire
  PROVE  Received("identity")'
<1>1. PICK i \in DOMAIN wire : wire[i] = "identity"
  BY DEF Received
<1>2. CASE wire' = wire \/ wire' = wire \o <<>>
  <2>1. wire' = wire
    BY <1>2
  <2> QED BY <2>1, <1>1 DEF Received
<1>3. CASE \E m \in {"identity", "error"} : wire' = Append(wire, m)
  <2>1. PICK m \in {"identity", "error"} : wire' = Append(wire, m)
    BY <1>3
  <2>2. i \in DOMAIN wire' /\ wire'[i] = wire[i]
    BY <1>1, <2>1
  <2> QED BY <1>1, <2>2 DEF Received
<1>4. CASE wire' = wire \o <<"error">>
  <2>1. wire' = Append(wire, "error")
    BY <1>4
  <2> QED BY <2>1, <1>3
<1> QED BY <1>2, <1>3, <1>4

(* What is written to the pipe is a message or nothing.                    *)
LEMMA WireIsWire ==
  ASSUME wire \in Seq({"identity", "error"}),
         \/ wire' = Append(wire, "identity") \/ wire' = Append(wire, "error")
         \/ wire' = wire \o <<"error">> \/ wire' = wire \o <<>> \/ wire' = wire
  PROVE  wire' \in Seq({"identity", "error"})
<1>1. CASE wire' = Append(wire, "identity")
  BY <1>1
<1>2. CASE wire' = Append(wire, "error")
  BY <1>2
<1>3. CASE wire' = wire \o <<"error">>
  <2>1. <<"error">> \in Seq({"identity", "error"})
    OBVIOUS
  <2> QED BY ONLY <2>1, <1>3, wire \in Seq({"identity", "error"})
<1>4. CASE wire' = wire \o <<>> \/ wire' = wire
  <2>1. wire' = wire
    BY <1>4
  <2> QED BY <2>1
<1> QED BY <1>1, <1>2, <1>3, <1>4

LEMMA ChildrenStep ==
  ASSUME StartInv, LauncherStarts \/ LauncherEnds \/ TellIdentity \/ LeaveGroup \/ Execute
  PROVE  StartInv'
<1>1. UNCHANGED starter
  BY DEF LauncherStarts, LauncherEnds, TellIdentity, LeaveGroup, Execute
<1>2. \/ wire' = Append(wire, "identity") \/ wire' = Append(wire, "error")
      \/ wire' = wire \o <<"error">> \/ wire' = wire \o <<>> \/ wire' = wire
  BY DEF LauncherStarts, LauncherEnds, TellIdentity, LeaveGroup, Execute, Dies
<1>3. wire' \in Seq({"identity", "error"})
  BY <1>2, WireIsWire DEF StartInv
<1>4. Received("identity") => Received("identity")'
  BY <1>2, StillReceived DEF StartInv
<1>5. /\ detached' \in {"none", "born", "told", "away", "program", "dead"}
      /\ detached' = "told" => detached = "told" \/ wire' = Append(wire, "identity")
      /\ detached' \in {"away", "program"} => detached \in {"told", "away", "program"}
      /\ detached' = "born" => detached = "born" \/ launcher = "running"
      /\ detached \in {"dead", "program"} => detached' = detached
      /\ launcher' = "running" => launcher = "running"
      /\ detached = "none" /\ launcher # "running" => detached' = "none"
      /\ detached' = "told" => detached \in {"told", "born"}
  BY DEF StartInv, LauncherStarts, LauncherEnds, TellIdentity, LeaveGroup, Execute, Dies
<1>6. wire' = Append(wire, "identity") => Received("identity")'
  <2>1. ASSUME wire' = Append(wire, "identity") PROVE Received("identity")'
    <3>1. wire \in Seq({"identity", "error"}) /\ Len(wire) \in Nat
      BY DEF StartInv
    <3>2. wire'[Len(wire) + 1] = "identity" /\ DOMAIN wire' = 1 .. Len(wire) + 1
      BY <2>1, <3>1
    <3>3. Len(wire) + 1 \in DOMAIN wire'
      BY <3>1, <3>2
    <3> QED BY <3>2, <3>3 DEF Received
  <2> QED BY <2>1
<1>7. detached' \in {"told", "away", "program"} => starter.known \/ Received("identity")'
  BY <1>4, <1>5, <1>6 DEF StartInv
<1>8. NobodyTells => UNCHANGED <<detached, wire>>
  BY DEF NobodyTells, LauncherStarts, LauncherEnds, TellIdentity, LeaveGroup, Execute
<1>9. NobodyTells => NobodyTells'
  BY <1>5, <1>8 DEF NobodyTells
<1> QED BY <1>1, <1>3, <1>5, <1>7, <1>8, <1>9 DEF StartInv

LEMMA StarterReads ==
  ASSUME StartInv, ReadWire \/ EndOfWire \/ StartTimesOut \/ PollFails
  PROVE  StartInv'
<1>1. IsStarter(starter) /\ starter.at = "waiting" /\ UNCHANGED <<launcher, detached>>
  BY DEF ReadWire, EndOfWire, StartTimesOut, PollFails, NotTheChildren, StartInv
<1>2. CASE ReadWire
  <2>1. starter' = Read(starter) /\ wire' = <<>>
    BY <1>2 DEF ReadWire
  <2>2. starter'.at = "waiting" /\ IsStarter(starter')
        /\ starter'.known = (starter.known \/ Received("identity"))
    BY <1>1, <2>1, ReadFields
  <2> QED BY <1>1, <2>1, <2>2, NothingIsSeq DEF StartInv
<1>3. CASE StartTimesOut
  <2>1. starter' = [Read(starter) EXCEPT !.at = "clearing", !.late = TRUE] /\ wire' = <<>>
    BY <1>3 DEF StartTimesOut
  <2>2. /\ starter'.at = "clearing" /\ IsStarter(starter') /\ starter'.late
        /\ starter'.known = (starter.known \/ Received("identity"))
    BY <1>1, <2>1, ReadFields DEF IsStarter
  <2> QED BY <1>1, <2>1, <2>2, NothingIsSeq DEF StartInv
<1>4. CASE PollFails
  <2>1. starter' = [starter EXCEPT !.at = "clearing", !.blind = TRUE] /\ UNCHANGED wire
    BY <1>4 DEF PollFails
  <2>2. starter'.at = "clearing" /\ IsStarter(starter') /\ starter'.blind /\ starter'.known = starter.known
    BY <1>1, <2>1 DEF IsStarter
  <2>3. Received("identity") => Received("identity")'
    BY <2>1 DEF Received
  <2> QED BY <1>1, <2>1, <2>2, <2>3 DEF StartInv
<1>5. CASE EndOfWire
  <2>1. /\ starter' = [starter EXCEPT !.at = IF starter.error THEN "clearing" ELSE "reaping"]
        /\ wire = <<>> /\ wire' = <<>> /\ ~WireOpen
    BY <1>5 DEF EndOfWire
  <2>2. /\ starter'.at \in {"clearing", "reaping"} /\ IsStarter(starter')
        /\ starter'.known = starter.known
    BY <1>1, <2>1 DEF IsStarter
  <2>3. NobodyTells'
    BY <1>1, <2>1 DEF WireOpen, NobodyTells, StartInv
  <2>4. detached \in {"told", "away", "program"} => starter.known
    BY <2>1, NothingReceived DEF StartInv
  <2> QED BY <1>1, <2>1, <2>2, <2>3, <2>4 DEF StartInv
<1> QED BY <1>2, <1>3, <1>4, <1>5

LEMMA StarterClears ==
  ASSUME StartInv, KillLauncherGroup \/ KillIdentified \/ ReapLauncher
  PROVE  StartInv'
<1>1. IsStarter(starter)
  BY DEF StartInv
<1>2. CASE KillLauncherGroup
  <2>1. /\ starter.at = "clearing" /\ UNCHANGED wire
        /\ launcher' = IF launcher = "running" THEN "failed" ELSE launcher
        /\ detached' = IF detached \in {"born", "told"} THEN "dead" ELSE detached
        /\ starter' = [starter EXCEPT !.at = "identifying"]
    BY <1>2 DEF KillLauncherGroup
  <2>2. /\ IsStarter(starter') /\ starter'.at = "identifying" /\ starter'.known = starter.known
        /\ starter'.late = starter.late /\ starter'.blind = starter.blind
    BY <1>1, <2>1 DEF IsStarter
  <2>3. Received("identity") => Received("identity")'
    BY <2>1 DEF Received
  <2> QED BY <2>1, <2>2, <2>3 DEF StartInv, NobodyTells
<1>3. CASE KillIdentified
  <2>1. PICK s :
          /\ s = IF starter.late THEN Read(starter) ELSE starter
          /\ starter.at = "identifying" /\ UNCHANGED launcher
          /\ starter' = [s EXCEPT !.at = "reaping", !.error = TRUE]
          /\ detached' = IF s.known /\ detached # "none" THEN "dead" ELSE detached
          /\ wire' = IF starter.late THEN <<>> ELSE wire
    BY <1>3 DEF KillIdentified
  <2>2. IsStarter(s) /\ s.blind = starter.blind
    BY <1>1, <2>1, ReadFields
  <2>3. starter.late => s.known = (starter.known \/ Received("identity"))
    BY <1>1, <2>1, ReadFields
  <2>4. /\ IsStarter(starter') /\ starter'.at = "reaping" /\ starter'.known = s.known
        /\ starter'.blind = starter.blind
    BY <2>1, <2>2 DEF IsStarter
  <2>5. launcher # "running" /\ detached \in {"none", "away", "program", "dead"}
    BY <2>1 DEF StartInv
  <2>6. CASE starter.late
    <3>1. detached \in {"away", "program"} => s.known
      BY <2>3, <2>6 DEF StartInv
    <3>2. detached' \in {"none", "dead"} /\ wire' = <<>>
      BY <2>1, <2>5, <2>6, <3>1
    <3> QED BY <2>1, <2>4, <2>5, <3>2 DEF StartInv, NobodyTells
  <2>7. CASE ~starter.late
    <3>1. s = starter /\ wire' = wire
      BY <2>1, <2>7
    <3>2. Received("identity") => Received("identity")'
      BY <3>1 DEF Received
    <3>3. ~starter.blind => wire = <<>> /\ NobodyTells
      BY <2>1, <2>7 DEF StartInv
    <3>4. ~starter.blind => (detached = "program" => s.known)
      BY <3>1, <3>3, NothingReceived DEF StartInv
    <3>5. detached' \in {"none", "dead"} \/ (detached' = detached /\ ~s.known)
      BY <2>1
    <3>6. ~starter.blind => detached' \in {"none", "dead"}
      BY <2>5, <3>3, <3>4, <3>5 DEF NobodyTells
    <3>7. detached' \in {"told", "away", "program"} => s.known \/ Received("identity")'
      BY <3>1, <3>2, <3>5 DEF StartInv
    <3> QED BY <2>1, <2>4, <2>5, <3>1, <3>5, <3>6, <3>7 DEF StartInv, NobodyTells
  <2> QED BY <2>6, <2>7
<1>4. CASE ReapLauncher
  <2>1. PICK ok \in BOOLEAN :
          /\ starter' = [starter EXCEPT !.at = IF ok THEN "started" ELSE "refused"]
          /\ detached' = IF ~ok /\ starter.known THEN "dead" ELSE detached
          /\ starter.at = "reaping" /\ launcher # "running" /\ UNCHANGED <<launcher, wire>>
    <3>1. (~starter.error /\ launcher = "ended" /\ starter.known) \in BOOLEAN
      OBVIOUS
    <3> QED BY <1>4, <3>1 DEF ReapLauncher
  <2>2. /\ IsStarter(starter') /\ starter'.at = (IF ok THEN "started" ELSE "refused")
        /\ starter'.known = starter.known /\ starter'.blind = starter.blind
    BY <1>1, <2>1 DEF IsStarter
  <2>3. Received("identity") => Received("identity")'
    BY <2>1 DEF Received
  <2>4. ~starter.blind /\ ~ok => detached' \in {"none", "dead"}
    BY <2>1 DEF StartInv, NobodyTells
  <2> QED BY <2>1, <2>2, <2>3, <2>4 DEF StartInv
<1> QED BY <1>2, <1>3, <1>4

-----------------------------------------------------------------------------
(* The child of a command or of a lookup.                                  *)
IsCommand(c) == c = [at |-> c.at, reaped |-> c.reaped, eof |-> c.eof, forced |-> c.forced]

IsLookup(l) ==
  l = [at |-> l.at, got |-> l.got, eof |-> l.eof, reaped |-> l.reaped, cut |-> l.cut,
       result |-> l.result]

(* What run_command believes of its child is so, and what it was forced to *)
(* end is gone when it returns.                                            *)
CommandInv ==
  /\ IsCommand(command)
  /\ command.at = "none" => command = NoCommand
  /\ command.at = "none" \/ lookup.at = "none"
  /\ command.reaped => Ended
  /\ command.eof => ~OutputOpen
  /\ command.at = "waiting" => command.forced = FALSE
  /\ command.at \in {"terminated", "killed"} => command.forced = TRUE
  /\ command.at = "killed" => child # "running" /\ helper.at # "group"
  /\ CommandLeavesNothing

(* What a lookup has read to the end is what was said.                     *)
LookupInv ==
  /\ IsLookup(lookup)
  /\ lookup.at = "asked" => child = "none" /\ lookup.reaped = FALSE /\ lookup.eof = FALSE
  /\ lookup.at \in {"waiting", "reaping"} => child # "none"
  /\ lookup.reaped => Ended \/ (lookup.at = "returned" /\ child = "none")
  /\ lookup.eof => ~OutputOpen /\ lookup.got = said
  /\ lookup.at \in {"asked", "waiting", "reaping"} => lookup.cut = FALSE
  /\ LookupLeavesNothing

ChildInv ==
  /\ child \in {"none", "running", "closed", "zero", "nonzero", "signalled"}
  /\ helper = [at |-> helper.at, pipe |-> helper.pipe]
  /\ CommandInv /\ LookupInv

LEMMA ChildStep ==
  ASSUME ChildInv, ChildSpeaks \/ ChildEnds \/ HelperActs
  PROVE  ChildInv'
<1> USE DEF ChildInv, CommandInv, LookupInv, CommandLeavesNothing, LookupLeavesNothing,
            OutputOpen, Ended, IsCommand, IsLookup
<1>1. CASE ChildSpeaks
  BY <1>1 DEF ChildSpeaks
<1>2. CASE ChildEnds
  BY <1>2 DEF ChildEnds, Resolving
<1>3. CASE HelperActs
  <2>1. CASE child = "running" /\ helper.at = "none"
    BY <1>3, <2>1 DEF HelperActs
  <2>2. CASE helper' = [at |-> "dead", pipe |-> FALSE]
    BY <1>3, <2>2 DEF HelperActs
  <2> QED BY <1>3, <2>1, <2>2 DEF HelperActs
<1> QED BY <1>1, <1>2, <1>3

LEMMA CommandStep ==
  ASSUME ChildInv, CollectCommand \/ CommandEnds \/ TerminateGroup \/ KillGroup \/ CommandForced
  PROVE  ChildInv'
<1> USE DEF ChildInv, CommandInv, LookupInv, CommandLeavesNothing, LookupLeavesNothing,
            OutputOpen, Ended, IsCommand, IsLookup
<1>1. CASE CollectCommand
  BY <1>1 DEF CollectCommand, Collect
<1>2. CASE CommandEnds
  BY <1>2 DEF CommandEnds
<1>3. CASE TerminateGroup
  <2>1. command' = [command EXCEPT !.at = "terminated", !.forced = TRUE]
        /\ lookup' = lookup /\ said' = said /\ command.at = "waiting"
    BY <1>3 DEF TerminateGroup
  <2>2. /\ child' = child \/ (child = "running" /\ child' = "signalled")
        /\ helper' = helper \/ helper' = [at |-> "dead", pipe |-> FALSE]
    BY <1>3 DEF TerminateGroup
  <2>3. /\ command' = [at |-> "terminated", reaped |-> command.reaped, eof |-> command.eof,
                       forced |-> TRUE]
        /\ lookup.at = "none"
    BY <2>1
  <2>4. CASE helper' = helper
    BY <2>1, <2>2, <2>3, <2>4
  <2>5. CASE helper' = [at |-> "dead", pipe |-> FALSE]
    BY <2>1, <2>2, <2>3, <2>5
  <2> QED BY <2>2, <2>4, <2>5
<1>4. CASE KillGroup
  BY <1>4 DEF KillGroup
<1>5. CASE CommandForced
  BY <1>5 DEF CommandForced, Collect
<1> QED BY <1>1, <1>2, <1>3, <1>4, <1>5

LEMMA LookupStep ==
  ASSUME ChildInv, LookupAlone \/ SpawnResolver \/ ReadAnswer \/ ReapResolver \/ CutLookup
  PROVE  ChildInv'
<1> USE DEF ChildInv, CommandInv, LookupInv, CommandLeavesNothing, LookupLeavesNothing,
            OutputOpen, Ended, IsCommand, IsLookup
<1>1. CASE LookupAlone
  BY <1>1 DEF LookupAlone, LookupReturns
<1>2. CASE SpawnResolver
  BY <1>2 DEF SpawnResolver, NoCommand
<1>3. CASE ReadAnswer
  BY <1>3 DEF ReadAnswer
<1>4. CASE ReapResolver
  <2>1. CASE lookup.eof /\ (lookup.reaped \/ Ended)
    BY <1>4, <2>1 DEF ReapResolver, LookupReturns, Parsed
  <2>2. CASE ~(lookup.eof /\ (lookup.reaped \/ Ended))
    BY <1>4, <2>2 DEF ReapResolver
  <2> QED BY <2>1, <2>2
<1>5. CASE CutLookup
  <2>1. PICK result \in {"cancelled", "late", "failed"} :
          lookup' = [lookup EXCEPT !.cut = ~lookup.reaped, !.reaped = TRUE,
                                   !.at = "returned", !.result = result]
    BY <1>5 DEF CutLookup, LookupReturns
  <2>2. lookup.at \in {"waiting", "reaping"} /\ UNCHANGED <<command, said>>
    BY <1>5 DEF CutLookup
  <2>3. CASE lookup.reaped
    BY <1>5, <2>1, <2>2, <2>3 DEF CutLookup
  <2>4. CASE ~lookup.reaped
    <3>1. child' = (IF Ended THEN child ELSE "signalled")
          /\ helper' = (IF helper.at = "group" THEN [at |-> "dead", pipe |-> FALSE] ELSE helper)
      BY <1>5, <2>4 DEF CutLookup
    <3> QED BY <2>1, <2>2, <2>4, <3>1 DEF NoCommand
  <2> QED BY <2>3, <2>4
<1> QED BY <1>1, <1>2, <1>3, <1>4, <1>5

(* What is started is left neither running nor unwaited for, in whatever   *)
(* order the children end and time runs out.                               *)
THEOREM NothingStaysLeft == ProcessSpec => []NothingIsLeft
<1>1. ProcessInit => StartInv /\ ChildInv
  <2> SUFFICES ASSUME ProcessInit PROVE StartInv /\ ChildInv
    OBVIOUS
  <2>1. StartInv
    BY DEF ProcessInit, NoStarter, StartInv, IsStarter
  <2>2. ChildInv
    BY DEF ProcessInit, NoCommand, Lookup, ChildInv, CommandInv, LookupInv, CommandLeavesNothing,
           LookupLeavesNothing, OutputOpen, Ended, IsCommand, IsLookup
  <2> QED BY <2>1, <2>2
<1>2. StartInv /\ ChildInv /\ [ProcessNext]_processVars => (StartInv /\ ChildInv)'
  <2> SUFFICES ASSUME StartInv, ChildInv, [ProcessNext]_processVars PROVE StartInv' /\ ChildInv'
    OBVIOUS
  <2>1. UNCHANGED commandVars => ChildInv'
    BY DEF commandVars, ChildInv, CommandInv, LookupInv, CommandLeavesNothing,
           LookupLeavesNothing, OutputOpen, Ended, IsCommand, IsLookup
  <2>2. UNCHANGED detachVars => StartInv'
    BY DEF detachVars, StartInv, IsStarter, Received, NobodyTells
  <2>3. CASE LauncherStarts \/ LauncherEnds \/ TellIdentity \/ LeaveGroup \/ Execute
    <3>1. UNCHANGED commandVars
      BY <2>3 DEF LauncherStarts, LauncherEnds, TellIdentity, LeaveGroup, Execute
    <3> QED BY <2>1, <2>3, <3>1, ChildrenStep
  <2>4. CASE ReadWire \/ EndOfWire \/ StartTimesOut \/ PollFails
    <3>1. UNCHANGED commandVars
      BY <2>4 DEF ReadWire, EndOfWire, StartTimesOut, PollFails, NotTheChildren
    <3> QED BY <2>1, <2>4, <3>1, StarterReads
  <2>5. CASE KillLauncherGroup \/ KillIdentified \/ ReapLauncher
    <3>1. UNCHANGED commandVars
      BY <2>5 DEF KillLauncherGroup, KillIdentified, ReapLauncher
    <3> QED BY <2>1, <2>5, <3>1, StarterClears
  <2>6. CASE ChildSpeaks \/ ChildEnds \/ HelperActs
    <3>1. UNCHANGED detachVars
      BY <2>6 DEF ChildSpeaks, ChildEnds, HelperActs
    <3> QED BY <2>2, <2>6, <3>1, ChildStep
  <2>7. CASE CollectCommand \/ CommandEnds \/ TerminateGroup \/ KillGroup \/ CommandForced
    <3>1. UNCHANGED detachVars
      BY <2>7 DEF CollectCommand, CommandEnds, TerminateGroup, KillGroup, CommandForced
    <3> QED BY <2>2, <2>7, <3>1, CommandStep
  <2>8. CASE LookupAlone \/ SpawnResolver \/ ReadAnswer \/ ReapResolver \/ CutLookup
    <3>1. UNCHANGED detachVars
      BY <2>8 DEF LookupAlone, SpawnResolver, ReadAnswer, ReapResolver, CutLookup
    <3> QED BY <2>2, <2>8, <3>1, LookupStep
  <2>9. CASE UNCHANGED processVars
    BY <2>1, <2>2, <2>9 DEF processVars
  <2> QED BY <2>3, <2>4, <2>5, <2>6, <2>7, <2>8, <2>9 DEF ProcessNext
<1>3. StartInv /\ ChildInv => NothingIsLeft
  BY DEF StartInv, ChildInv, CommandInv, LookupInv, NothingIsLeft, StartLeavesNothing
<1> QED BY <1>1, <1>2, <1>3, PTL DEF ProcessSpec

-----------------------------------------------------------------------------
(* TimeService.                                                            *)

IsTask(t) ==
  t = [at |-> t.at, kind |-> t.kind, next |-> t.next, before |-> t.before, after |-> t.after,
       known |-> t.known]

(* What runs was started with servers; while the service believes in it,   *)
(* it is none but what the settings on their way out, or the new ones, ask *)
(* for.                                                                    *)
DaemonInv ==
  /\ IsTask(task)
  /\ daemon # Off
  /\ task.at = "sync" => timeApplied.ntp # Off
  /\ task.at \in {"zone", "stop"} /\ task.known => daemon \in {"none", timeApplied.ntp}
  /\ task.at \in {"stop", "ntp", "applied"} => zone = task.next.zone
  /\ task.at = "ntp" /\ task.known => task.next.ntp = Off \/ daemon \in {"none", task.next.ntp}
  /\ AppliedIsInForce

LEMMA RelaxedIsTask ==
  ASSUME NEW kind
  PROVE  IsTask(Relaxed(kind)) /\ Relaxed(kind).at = "idle"
BY DEF Relaxed, IsTask

LEMMA TaskFields ==
  ASSUME NEW t, IsTask(t), NEW at
  PROVE  /\ IsTask([t EXCEPT !.at = at]) /\ [t EXCEPT !.at = at].at = at
         /\ [t EXCEPT !.at = at].next = t.next /\ [t EXCEPT !.at = at].known = t.known
         /\ [t EXCEPT !.at = at].before = t.before /\ [t EXCEPT !.at = at].after = t.after
BY DEF IsTask

(* What stopping and starting a daemon may end with.                       *)
LEMMA StopsTo ==
  ASSUME NEW d, NEW f, NEW r \in Stops(d, f)
  PROVE  (r.ok => r.daemon = "none") /\ r.daemon \in {"none", d} /\ r.foreign = f
BY DEF Stops, Result

LEMMA StartsTo ==
  ASSUME NEW d, NEW f, NEW servers, NEW r \in Starts(d, f, servers)
  PROVE  /\ r.ok => ~r.foreign /\ r.daemon = (IF d # "none" THEN d ELSE servers)
         /\ r.daemon \in {"none", d, servers}
<1>1. \/ r = Result(d, TRUE, FALSE)
      \/ d # "none" /\ r = Result(d, FALSE, TRUE)
      \/ d = "none" /\ r \in {Result(servers, FALSE, TRUE), Result("none", FALSE, FALSE),
                              Result(servers, FALSE, FALSE)}
      \/ \E e \in {"none", IF d # "none" THEN d ELSE servers} : r = Result(e, TRUE, FALSE)
  BY DEF Starts
<1>2. CASE r = Result(d, TRUE, FALSE)
  BY <1>2 DEF Result
<1>3. CASE d # "none" /\ r = Result(d, FALSE, TRUE)
  BY <1>3 DEF Result
<1>4. CASE d = "none" /\ r \in {Result(servers, FALSE, TRUE), Result("none", FALSE, FALSE),
                               Result(servers, FALSE, FALSE)}
  BY <1>4 DEF Result
<1>5. CASE \E e \in {"none", IF d # "none" THEN d ELSE servers} : r = Result(e, TRUE, FALSE)
  BY <1>5 DEF Result
<1> QED BY <1>1, <1>2, <1>3, <1>4, <1>5

LEMMA ReconcilesTo ==
  ASSUME NEW d, d # Off, NEW f, NEW s, NEW r \in Reconciles(d, f, s)
  PROVE  /\ r.daemon # Off
         /\ r.ok => IF s.ntp = Off THEN r.daemon = "none"
                    ELSE ~r.foreign /\ r.daemon = (IF d # "none" THEN d ELSE s.ntp)
<1>1. CASE s.ntp = Off
  BY <1>1, StopsTo DEF Reconciles, Off
<1>2. CASE s.ntp # Off
  BY <1>2, StartsTo DEF Reconciles, Off
<1> QED BY <1>1, <1>2

LEMMA DaemonSteps ==
  ASSUME DaemonInv, [TimeNext]_timeVars
  PROVE  DaemonInv'
<1> USE DEF clockVars, zoneVars
<1>1. CASE SaveTime
  <2>1. PICK s : task' = [Relaxed("save") EXCEPT !.at = "zone", !.next = s,
                            !.known = daemon \in {"none", timeApplied.ntp}]
    BY <1>1 DEF SaveTime
  <2>2. IsTask(task') /\ task'.at = "zone" /\ (task'.known => daemon \in {"none", timeApplied.ntp})
    BY <2>1 DEF Relaxed, IsTask
  <2> QED BY <1>1, <2>2 DEF SaveTime, DaemonInv, AppliedIsInForce
<1>2. CASE ApplyZone
  <2>1. task.at = "zone" /\ IsTask(task) /\ UNCHANGED <<daemon, foreign, timeApplied>>
    BY <1>2 DEF ApplyZone, DaemonInv
  <2>2. CASE /\ zone' = task.next.zone
             /\ task' = [task EXCEPT !.at = IF ServersChanged THEN "stop" ELSE "ntp"]
    <3>1. CASE ServersChanged
      <4>1. task' = [task EXCEPT !.at = "stop"]
        BY <2>2, <3>1
      <4>2. IsTask(task') /\ task'.at = "stop" /\ task'.next = task.next /\ task'.known = task.known
        BY <2>1, <4>1, TaskFields
      <4> QED BY <2>1, <2>2, <4>2 DEF DaemonInv, AppliedIsInForce
    <3>2. CASE ~ServersChanged
      <4>1. task' = [task EXCEPT !.at = "ntp"]
        BY <2>2, <3>2
      <4>2. IsTask(task') /\ task'.at = "ntp" /\ task'.next = task.next /\ task'.known = task.known
        BY <2>1, <4>1, TaskFields
      <4>3. task.known => task.next.ntp = Off \/ daemon \in {"none", task.next.ntp}
        BY <2>1, <3>2 DEF ServersChanged, DaemonInv
      <4> QED BY <2>1, <2>2, <4>2, <4>3 DEF DaemonInv, AppliedIsInForce
    <3> QED BY <3>1, <3>2
  <2>3. CASE task' = [task EXCEPT !.at = "undone"]
    <3>1. IsTask(task') /\ task'.at = "undone"
      BY <2>1, <2>3, TaskFields
    <3> QED BY <2>1, <3>1 DEF DaemonInv, AppliedIsInForce
  <2> QED BY <1>2, <2>2, <2>3 DEF ApplyZone
<1>3. CASE StopOld
  <2>1. PICK r \in Stops(daemon, foreign) :
          /\ daemon' = r.daemon
          /\ r.ok => UNCHANGED zone
          /\ task' = [task EXCEPT !.at = IF r.ok THEN "ntp" ELSE "undone"]
    BY <1>3 DEF StopOld
  <2>2. task.at = "stop" /\ IsTask(task) /\ UNCHANGED timeApplied
    BY <1>3 DEF StopOld, DaemonInv
  <2>3. (r.ok => daemon' = "none") /\ daemon' # Off
    BY <2>1, StopsTo DEF DaemonInv, Off
  <2>4. /\ IsTask(task') /\ task'.next = task.next /\ task'.known = task.known
        /\ task'.at = IF r.ok THEN "ntp" ELSE "undone"
    BY <2>1, <2>2, TaskFields
  <2> QED BY <2>1, <2>2, <2>3, <2>4 DEF DaemonInv, AppliedIsInForce
<1>4. CASE ApplyNtp
  <2>1. PICK r \in Reconciles(daemon, foreign, task.next) :
          /\ daemon' = r.daemon /\ foreign' = r.foreign
          /\ r.ok => UNCHANGED zone
          /\ task' = [task EXCEPT !.at = IF r.ok THEN "applied" ELSE "undo"]
    BY <1>4 DEF ApplyNtp
  <2>2. task.at = "ntp" /\ IsTask(task) /\ UNCHANGED timeApplied
    BY <1>4 DEF ApplyNtp, DaemonInv
  <2>3. /\ r.daemon # Off
        /\ r.ok => IF task.next.ntp = Off THEN r.daemon = "none"
                   ELSE ~r.foreign /\ r.daemon = (IF daemon # "none" THEN daemon ELSE task.next.ntp)
    BY ReconcilesTo DEF DaemonInv
  <2>4. /\ IsTask(task') /\ task'.next = task.next /\ task'.known = task.known
        /\ task'.at = IF r.ok THEN "applied" ELSE "undo"
    BY <2>1, <2>2, TaskFields
  <2>5. ASSUME r.ok, task.known
        PROVE  r.daemon = (IF task.next.ntp = Off THEN "none" ELSE task.next.ntp)
    BY <2>2, <2>3, <2>5 DEF DaemonInv
  <2> QED BY <2>1, <2>2, <2>3, <2>4, <2>5 DEF DaemonInv, AppliedIsInForce
<1>5. CASE UndoNtp
  <2>1. PICK r \in Reconciles(daemon, foreign, timeApplied) :
          daemon' = r.daemon /\ task' = [task EXCEPT !.at = "undone"]
    BY <1>5 DEF UndoNtp
  <2>2. IsTask(task') /\ task'.at = "undone" /\ daemon' # Off
    BY <2>1, TaskFields, ReconcilesTo DEF DaemonInv
  <2> QED BY <2>2 DEF DaemonInv, AppliedIsInForce
<1>6. CASE UnstoreTime \/ HandleChange
  <2>1. IsTask(task') /\ task'.at = "idle" /\ UNCHANGED daemon
    BY <1>6, RelaxedIsTask DEF UnstoreTime, HandleChange, Relax
  <2> QED BY <2>1 DEF DaemonInv, AppliedIsInForce
<1>7. CASE AdoptTime
  <2>1. IsTask(task') /\ task'.at = "idle" /\ UNCHANGED daemon
    BY <1>7 DEF AdoptTime, Relaxed, IsTask
  <2> QED BY <2>1 DEF DaemonInv, AppliedIsInForce
<1>8. CASE RestoreTime
  <2>1. PICK stopped \in {Result(daemon, foreign, TRUE)} \cup Stops(daemon, foreign) :
        \E r \in {Result(daemon, foreign, FALSE)} \cup
                 Reconciles(stopped.daemon, foreign, timeStored) :
           daemon' = r.daemon /\ Relax
    BY <1>8 DEF RestoreTime
  <2>2. PICK r \in {Result(daemon, foreign, FALSE)} \cup
                   Reconciles(stopped.daemon, foreign, timeStored) :
          daemon' = r.daemon /\ Relax
    BY <2>1
  <2>3. stopped.daemon # Off
    <3>1. CASE stopped = Result(daemon, foreign, TRUE)
      BY <3>1 DEF DaemonInv, Result
    <3>2. CASE stopped \in Stops(daemon, foreign)
      BY <3>2, StopsTo DEF DaemonInv, Off
    <3> QED BY <2>1, <3>1, <3>2
  <2>4. daemon' # Off
    <3>1. CASE r = Result(daemon, foreign, FALSE)
      BY <2>2, <3>1 DEF DaemonInv, Result
    <3>2. CASE r \in Reconciles(stopped.daemon, foreign, timeStored)
      BY <2>2, <2>3, <3>2, ReconcilesTo
    <3> QED BY <2>2, <3>1, <3>2
  <2>5. IsTask(task') /\ task'.at = "idle"
    BY <2>2, RelaxedIsTask DEF Relax
  <2> QED BY <2>4, <2>5 DEF DaemonInv, AppliedIsInForce
<1>9. CASE SetManually
  <2>1. IsTask(task') /\ task'.at = "changed" /\ UNCHANGED daemon
    BY <1>9 DEF SetManually, Relaxed, IsTask
  <2> QED BY <2>1 DEF DaemonInv, AppliedIsInForce
<1>10. CASE BeginSync
  <2>1. PICK r \in Stops(daemon, foreign) : daemon' = r.daemon
    BY <1>10 DEF BeginSync
  <2>2. IsTask(task') /\ task'.at = "sync" /\ timeApplied'.ntp # Off
    BY <1>10 DEF BeginSync, Relaxed, IsTask
  <2>3. daemon' # Off
    BY <2>1, StopsTo DEF DaemonInv, Off
  <2> QED BY <2>2, <2>3 DEF DaemonInv, AppliedIsInForce
<1>11. CASE EndSync
  <2>1. PICK r \in Starts(daemon, foreign, timeApplied.ntp), ok \in BOOLEAN :
          /\ daemon' = r.daemon
          /\ IF ok THEN task' = [task EXCEPT !.at = "changed", !.after = axis'] ELSE Relax
    BY <1>11 DEF EndSync
  <2>2. daemon' # Off
    BY <1>11, <2>1, StartsTo DEF EndSync, DaemonInv, Off
  <2>3. CASE ok
    <3>1. IsTask(task') /\ task'.at = "changed"
      BY <2>1, <2>3 DEF DaemonInv, IsTask
    <3> QED BY <2>2, <3>1 DEF DaemonInv, AppliedIsInForce
  <2>4. CASE ~ok
    <3>1. IsTask(task') /\ task'.at = "idle"
      BY <2>1, <2>4, RelaxedIsTask DEF Relax
    <3> QED BY <2>2, <3>1 DEF DaemonInv, AppliedIsInForce
  <2> QED BY <2>3, <2>4
<1>12. CASE ForeignDaemon \/ DaemonDies
  BY <1>12 DEF ForeignDaemon, DaemonDies, DaemonInv, AppliedIsInForce, Off
<1>13. CASE RestartTime
  <2>1. IsTask(task') /\ task'.at = "start" /\ daemon' # Off
    BY <1>13 DEF RestartTime, IsTask, DaemonInv, Off
  <2> QED BY <2>1 DEF DaemonInv, AppliedIsInForce
<1>14. CASE SomebodyChanges \/ Watch \/ UNCHANGED timeVars
  <2>1. UNCHANGED <<zone, daemon, foreign, timeApplied, task>>
    BY <1>14 DEF SomebodyChanges, Watch, timeVars
  <2> QED BY <2>1 DEF DaemonInv, AppliedIsInForce
<1> QED
  BY <1>1, <1>2, <1>3, <1>4, <1>5, <1>6, <1>7, <1>8, <1>9, <1>10, <1>11, <1>12, <1>13, <1>14
  DEF TimeNext

(* Time settings are reported as applied only when the zone is theirs and  *)
(* the one daemon that runs has their servers, whatever fails on the way   *)
(* and whoever starts and stops daemons meanwhile (apply_settings of       *)
(* linux_time_runtime.cpp).                                                *)
THEOREM AppliedStaysInForce == TimeSpec => []AppliedIsInForce
<1>1. TimeInit => DaemonInv
  BY DEF TimeInit, DaemonInv, AppliedIsInForce, IsTask, Off
<1>2. DaemonInv /\ [TimeNext]_timeVars => DaemonInv'
  BY DaemonSteps
<1>3. DaemonInv => AppliedIsInForce
  BY DEF DaemonInv
<1> QED BY <1>1, <1>2, <1>3, PTL DEF TimeSpec

(* A command under way counts from no earlier than what the detector has   *)
(* seen, so what it hands over nobody has handled.                         *)
ChangesInv ==
  /\ IsTask(task)
  /\ axis \in 0..MaxChanges /\ seen \in 0..axis
  /\ handled \in [1..MaxChanges -> {0, 1}]
  /\ task.at \in {"sync", "changed"} => task.before \in seen..axis
  /\ task.at = "changed" => task.after \in task.before..axis
  /\ \A c \in 1..MaxChanges : IF c <= seen THEN handled[c] = 1 \/ c \in excused
                                           ELSE handled[c] = 0

(* The steps of the clock aside, nothing here moves.                       *)
LEMMA ChangesIdle ==
  ASSUME ChangesInv, UNCHANGED <<axis, seen, handled, excused>>, IsTask(task'),
         \/ task'.at \notin {"sync", "changed"}
         \/ task' = task
  PROVE  ChangesInv'
BY DEF ChangesInv

LEMMA HandledOnce ==
  ASSUME ChangesInv, NEW from \in seen..axis, NEW to \in from..axis, Handle(from, to)
  PROVE  /\ handled' \in [1..MaxChanges -> {0, 1}]
         /\ \A c \in 1..MaxChanges :
              handled'[c] = IF from < c /\ c <= to THEN 1 ELSE handled[c]
<1>1. handled' = [c \in 1..MaxChanges |-> handled[c] + (IF from < c /\ c <= to THEN 1 ELSE 0)]
  BY DEF Handle
<1>2. ASSUME NEW c \in 1..MaxChanges
      PROVE  /\ handled[c] + (IF from < c /\ c <= to THEN 1 ELSE 0) \in {0, 1}
             /\ handled'[c] = IF from < c /\ c <= to THEN 1 ELSE handled[c]
  <2>1. handled[c] \in {0, 1} /\ (c > seen => handled[c] = 0)
    BY TimeAssumption DEF ChangesInv
  <2>2. CASE from < c /\ c <= to
    <3>1. handled[c] = 0
      BY <2>1, <2>2, TimeAssumption DEF ChangesInv
    <3> QED BY <1>1, <2>2, <3>1
  <2>3. CASE ~(from < c /\ c <= to)
    BY <1>1, <2>1, <2>3
  <2> QED BY <2>2, <2>3
<1> QED BY <1>1, <1>2

LEMMA ChangesSteps ==
  ASSUME ChangesInv, [TimeNext]_timeVars
  PROVE  ChangesInv'
<1> USE DEF clockVars, zoneVars
<1>1. IsTask(task) /\ seen \in Nat /\ axis \in Nat /\ seen <= axis /\ MaxChanges \in Nat
  BY TimeAssumption DEF ChangesInv
<1>2. CASE SaveTime
  <2>1. IsTask(task') /\ task'.at = "zone"
    BY <1>2 DEF SaveTime, Relaxed, IsTask
  <2> QED BY <1>2, <2>1, ChangesIdle DEF SaveTime
<1>3. CASE ApplyZone \/ StopOld \/ ApplyNtp \/ UndoNtp
  <2>1. PICK at \in {"stop", "ntp", "undone", "applied", "undo"} : task' = [task EXCEPT !.at = at]
    BY <1>3 DEF ApplyZone, StopOld, ApplyNtp, UndoNtp
  <2>2. IsTask(task') /\ task'.at = at
    BY <1>1, <2>1, TaskFields
  <2>3. UNCHANGED <<axis, seen, handled, excused>>
    BY <1>3 DEF ApplyZone, StopOld, ApplyNtp, UndoNtp
  <2> QED BY <2>2, <2>3, ChangesIdle
<1>4. CASE UnstoreTime \/ AdoptTime
  <2>1. IsTask(task') /\ task'.at = "idle"
    BY <1>4 DEF UnstoreTime, AdoptTime, Relax, Relaxed, IsTask
  <2> QED BY <1>4, <2>1, ChangesIdle DEF UnstoreTime, AdoptTime
<1>5. CASE RestoreTime
  <2>1. /\ seen' = axis /\ excused' = excused \cup (1..axis) /\ UNCHANGED <<axis, handled>>
        /\ Relax
    BY <1>5 DEF RestoreTime
  <2>2. IsTask(task') /\ task'.at = "idle"
    BY <2>1, RelaxedIsTask DEF Relax
  <2> QED BY <1>1, <2>1, <2>2 DEF ChangesInv
<1>6. CASE SomebodyChanges
  <2>1. axis' = axis + 1 /\ axis < MaxChanges /\ UNCHANGED <<seen, handled, excused, task>>
    BY <1>6 DEF SomebodyChanges
  <2> QED BY <1>1, <2>1 DEF ChangesInv
<1>7. CASE SetManually
  <2>1. axis' = axis + 1 /\ axis < MaxChanges /\ UNCHANGED <<seen, handled, excused>>
    BY <1>7 DEF SetManually
  <2>2. IsTask(task') /\ task'.at = "changed" /\ task'.before = axis /\ task'.after = axis + 1
    BY <1>7 DEF SetManually, Relaxed, IsTask
  <2> QED BY <1>1, <2>1, <2>2 DEF ChangesInv
<1>8. CASE BeginSync
  <2>1. UNCHANGED <<axis, seen, handled, excused>>
    BY <1>8 DEF BeginSync
  <2>2. IsTask(task') /\ task'.at = "sync" /\ task'.before = axis
    BY <1>8 DEF BeginSync, Relaxed, IsTask
  <2> QED BY <1>1, <2>1, <2>2 DEF ChangesInv
<1>9. CASE EndSync
  <2>1. PICK ok \in BOOLEAN :
          IF ok THEN task' = [task EXCEPT !.at = "changed", !.after = axis'] ELSE Relax
    BY <1>9 DEF EndSync
  <2>2. /\ task.at = "sync" /\ UNCHANGED <<seen, handled, excused>>
        /\ axis' \in 0..MaxChanges /\ axis' \in {axis, axis + 1}
    BY <1>9 DEF EndSync
  <2>3. task.before \in seen..axis
    BY <2>2 DEF ChangesInv
  <2>4. CASE ok
    <3>1. IsTask(task') /\ task'.at = "changed" /\ task'.before = task.before /\ task'.after = axis'
      BY <1>1, <2>1, <2>4 DEF IsTask
    <3> QED BY <1>1, <2>2, <2>3, <3>1 DEF ChangesInv
  <2>5. CASE ~ok
    <3>1. IsTask(task') /\ task'.at = "idle"
      BY <2>1, <2>5, RelaxedIsTask DEF Relax
    <3> QED BY <1>1, <2>2, <3>1 DEF ChangesInv
  <2> QED BY <2>4, <2>5
<1>10. CASE HandleChange
  <2>1. /\ task.at = "changed" /\ Handle(task.before, task.after) /\ seen' = task.after
        /\ excused' = excused \cup {c \in 1..MaxChanges : seen < c /\ c <= task.before}
        /\ UNCHANGED axis /\ Relax
    BY <1>10 DEF HandleChange
  <2>2. task.before \in seen..axis /\ task.after \in task.before..axis
    BY <2>1 DEF ChangesInv
  <2>3. /\ handled' \in [1..MaxChanges -> {0, 1}]
        /\ \A c \in 1..MaxChanges :
             handled'[c] = IF task.before < c /\ c <= task.after THEN 1 ELSE handled[c]
    BY <2>1, <2>2, HandledOnce
  <2>4. IsTask(task') /\ task'.at = "idle"
    BY <2>1, RelaxedIsTask DEF Relax
  <2>5. ASSUME NEW c \in 1..MaxChanges
        PROVE  IF c <= seen' THEN handled'[c] = 1 \/ c \in excused' ELSE handled'[c] = 0
    BY <1>1, <2>1, <2>2, <2>3, <2>5 DEF ChangesInv
  <2> QED BY <1>1, <2>1, <2>2, <2>3, <2>4, <2>5 DEF ChangesInv
<1>11. CASE Watch
  <2>1. seen' = axis /\ UNCHANGED <<axis, task>>
    BY <1>11 DEF Watch
  <2>2. /\ handled' \in [1..MaxChanges -> {0, 1}]
        /\ \A c \in 1..MaxChanges :
             IF c <= axis THEN handled'[c] = 1 \/ c \in excused' ELSE handled'[c] = 0
    <3>1. CASE grace
      <4>1. excused' = excused \cup {c \in 1..axis : seen < c} /\ UNCHANGED handled
        BY <1>11, <3>1 DEF Watch
      <4> QED BY <1>1, <4>1 DEF ChangesInv
    <3>2. CASE ~grace
      <4>1. Handle(seen, axis) /\ UNCHANGED excused
        BY <1>11, <3>2 DEF Watch
      <4>2. /\ handled' \in [1..MaxChanges -> {0, 1}]
            /\ \A c \in 1..MaxChanges : handled'[c] = IF seen < c /\ c <= axis THEN 1 ELSE handled[c]
        BY <1>1, <4>1, HandledOnce
      <4> QED BY <1>1, <4>1, <4>2 DEF ChangesInv
    <3> QED BY <3>1, <3>2
  <2>3. task.at = "idle"
    BY <1>11 DEF Watch
  <2> QED BY <1>1, <2>1, <2>2, <2>3 DEF ChangesInv
<1>12. CASE ForeignDaemon \/ DaemonDies
  BY <1>1, <1>12, ChangesIdle DEF ForeignDaemon, DaemonDies
<1>13. CASE RestartTime
  <2>1. IsTask(task') /\ task'.at = "start"
    BY <1>13 DEF RestartTime, IsTask
  <2> QED BY <1>13, <2>1, ChangesIdle DEF RestartTime
<1>14. CASE UNCHANGED timeVars
  BY <1>1, <1>14, ChangesIdle DEF timeVars
<1> QED
  BY <1>2, <1>3, <1>4, <1>5, <1>6, <1>7, <1>8, <1>9, <1>10, <1>11, <1>12, <1>13, <1>14
  DEF TimeNext

(* A change of the clock is handled by the command that made it or by the  *)
(* monitor and never by both, and none is passed over but those at a start *)
(* and those a command overtook (handle_system_time_changed,               *)
(* TimeJumpDetector), for any number of changes.                           *)
THEOREM ChangesStayHandledOnce == TimeSpec => []ChangesAreHandledOnce
<1>1. TimeInit => ChangesInv
  BY TimeAssumption DEF TimeInit, ChangesInv, IsTask
<1>2. ChangesInv /\ [TimeNext]_timeVars => ChangesInv'
  BY ChangesSteps
<1>3. ChangesInv => ChangesAreHandledOnce
  <2>1. ASSUME ChangesInv, NEW c \in 1..axis PROVE c \in 1..MaxChanges /\ handled[c] \in {0, 1}
    BY <2>1, TimeAssumption DEF ChangesInv
  <2> QED BY <2>1 DEF ChangesInv, ChangesAreHandledOnce
<1> QED BY <1>1, <1>2, <1>3, PTL DEF TimeSpec

-----------------------------------------------------------------------------
(* IpcListener.                                                            *)

ServerStates ==
  [at : {"down", "opening", "probing", "binding", "publishing", "serving", "failing", "leaving",
         "ended", "failed"},
   lock : BOOLEAN, owned : BOOLEAN, listening : BOOLEAN, stop : BOOLEAN, failures : Nat]

ListenerTypes ==
  /\ server \in [Backends -> ServerStates]
  /\ caller \in [Backends -> {"idle", "starting", "stopping", "removing", "releasing"}]

(* The lock keeps other processes from the file while a server is at it,   *)
(* and a server only takes a file for its own while that is so.            *)
Orderly(s, c) ==
  /\ s.owned \/ s.at \in {"probing", "binding", "publishing", "serving"} => s.lock
  /\ s.at \in {"publishing", "serving"} => s.owned
  /\ s.at \in {"down", "opening", "probing", "binding", "failing", "failed", "ended"} => ~s.owned
  /\ c \in {"removing", "releasing"} => s.at \in {"ended", "failed"}

ListenerInv ==
  /\ ListenerTypes
  /\ \A b \in Backends : Orderly(server[b], caller[b])
  /\ \A b \in Backends : server[b].owned => socketFile = b
  /\ \A b, o \in Backends : server[b].lock /\ server[o].lock => b = o

(* What one process does to its own server and caller, and to the file.    *)
LEMMA OneProcess ==
  ASSUME ListenerInv, NEW b \in Backends, NEW s \in ServerStates,
         NEW c \in {"idle", "starting", "stopping", "removing", "releasing"},
         server' = [server EXCEPT ![b] = s], caller' = [caller EXCEPT ![b] = c],
         Orderly(s, c),
         s.lock => server[b].lock \/ \A o \in Backends \ {b} : ~server[o].lock,
         s.owned => socketFile' = b,
         socketFile' = socketFile \/ server[b].lock
  PROVE  ListenerInv'
<1>1. ListenerTypes' BY DEF ListenerInv, ListenerTypes
<1>2. server'[b] = s /\ caller'[b] = c BY DEF ListenerInv, ListenerTypes
<1>3. \A o \in Backends \ {b} : server'[o] = server[o] /\ caller'[o] = caller[o]
  BY DEF ListenerInv, ListenerTypes
<1>4. \A o \in Backends : Orderly(server'[o], caller'[o])
  BY <1>2, <1>3 DEF ListenerInv
<1>5. ASSUME NEW o \in Backends \ {b}, server[o].owned PROVE socketFile' = o
  BY <1>5 DEF ListenerInv, Orderly
<1>6. \A o \in Backends : server'[o].owned => socketFile' = o
  BY <1>2, <1>3, <1>5
<1>7. \A o, p \in Backends : server'[o].lock /\ server'[p].lock => o = p
  BY <1>2, <1>3 DEF ListenerInv
<1> QED BY <1>1, <1>4, <1>6, <1>7 DEF ListenerInv, Orderly

(* reset_listen_socket leaves a server without a file of its own.          *)
LEMMA ResetIsOrderly ==
  ASSUME ListenerInv, NEW b \in Backends, NEW s \in ServerStates,
         NEW c \in {"idle", "starting", "stopping", "removing", "releasing"},
         caller' = [caller EXCEPT ![b] = c], Reset(b, s),
         s.lock = server[b].lock, s.owned = server[b].owned,
         s.at \in {"failed", "failing", "ended"},
         c \in {"removing", "releasing"} => s.at \in {"ended", "failed"}
  PROVE  ListenerInv'
<1> DEFINE t == [s EXCEPT !.listening = FALSE, !.owned = FALSE]
<1>1. server' = [server EXCEPT ![b] = t] BY DEF Reset, SetServer
<1>2. t \in ServerStates /\ Orderly(t, c) /\ ~t.owned /\ t.lock = s.lock
  BY DEF ServerStates, Orderly
<1>3. server[b].owned => server[b].lock BY DEF ListenerInv, Orderly
<1>4. socketFile' = socketFile \/ server[b].lock BY <1>3 DEF Reset
<1> HIDE DEF t
<1> QED BY <1>1, <1>2, <1>4, OneProcess

LEMMA OpenFailsIsOrderly ==
  ASSUME ListenerInv, NEW b \in Backends, OpenFails(b), caller' = caller,
         server[b].at \in {"opening", "probing", "binding", "publishing"}
  PROVE  ListenerInv'
<1>1. server[b] \in ServerStates BY DEF ListenerInv, ListenerTypes
<1>2. caller' = [caller EXCEPT ![b] = caller[b]] BY DEF ListenerInv, ListenerTypes
<1>3. caller[b] \in {"idle", "starting", "stopping"}
  BY DEF ListenerInv, ListenerTypes, Orderly
<1>4. CASE Reset(b, [server[b] EXCEPT !.at = "failed"])
  <2> DEFINE s == [server[b] EXCEPT !.at = "failed"]
  <2>1. s \in ServerStates /\ s.lock = server[b].lock /\ s.owned = server[b].owned /\ s.at = "failed"
    BY <1>1 DEF ServerStates
  <2> HIDE DEF s
  <2> QED BY <1>2, <1>3, <1>4, <2>1, ResetIsOrderly DEF s
<1>5. CASE Reset(b, [server[b] EXCEPT !.at = "failing", !.failures = server[b].failures + 1])
  <2> DEFINE s == [server[b] EXCEPT !.at = "failing", !.failures = server[b].failures + 1]
  <2>1. s \in ServerStates /\ s.lock = server[b].lock /\ s.owned = server[b].owned /\ s.at = "failing"
    <3>1. server[b].failures + 1 \in Nat BY <1>1 DEF ServerStates
    <3> QED BY <1>1, <3>1 DEF ServerStates
  <2>2. Reset(b, s) BY <1>5
  <2> HIDE DEF s
  <2> QED BY <1>2, <1>3, <2>1, <2>2, ResetIsOrderly
<1> QED BY <1>4, <1>5 DEF OpenFails

LEMMA OpeningIsOrderly ==
  ASSUME ListenerInv, NEW b \in Backends,
         AcquireLock(b) \/ ProbeAndClear(b) \/ Bind(b) \/ Publish(b) \/ OpenCallFails(b)
  PROVE  ListenerInv'
<1>1. server[b] \in ServerStates /\ caller[b] \in {"idle", "starting", "stopping", "removing", "releasing"}
  BY DEF ListenerInv, ListenerTypes
<1>2. server[b].at \in {"opening", "probing", "binding", "publishing"} /\ caller' = caller
  BY DEF AcquireLock, ProbeAndClear, Bind, Publish, OpenCallFails
<1>3. caller' = [caller EXCEPT ![b] = caller[b]] BY <1>2 DEF ListenerInv, ListenerTypes
<1>4. Orderly(server[b], caller[b]) BY DEF ListenerInv
<1>5. CASE OpenFails(b)
  BY <1>2, <1>5, OpenFailsIsOrderly
<1>6. CASE /\ server[b].at = "opening" /\ \A o \in Backends \ {b} : ~server[o].lock
           /\ SetServer(b, [server[b] EXCEPT !.at = "probing", !.lock = TRUE])
           /\ UNCHANGED socketFile
  <2> DEFINE s == [server[b] EXCEPT !.at = "probing", !.lock = TRUE]
  <2>1. s \in ServerStates /\ Orderly(s, caller[b]) /\ ~s.owned
    BY <1>1, <1>4, <1>6 DEF ServerStates, Orderly
  <2>2. server' = [server EXCEPT ![b] = s] BY <1>6 DEF SetServer
  <2> HIDE DEF s
  <2> QED BY <1>1, <1>3, <1>6, <2>1, <2>2, OneProcess
<1>7. CASE /\ server[b].at = "probing" /\ socketFile' = NoFile
           /\ SetServer(b, [server[b] EXCEPT !.at = "binding"])
  <2> DEFINE s == [server[b] EXCEPT !.at = "binding"]
  <2>1. s \in ServerStates /\ Orderly(s, caller[b]) /\ ~s.owned /\ server[b].lock
    BY <1>1, <1>4, <1>7 DEF ServerStates, Orderly
  <2>2. server' = [server EXCEPT ![b] = s] BY <1>7 DEF SetServer
  <2> HIDE DEF s
  <2> QED BY <1>1, <1>3, <2>1, <2>2, OneProcess
<1>8. CASE /\ server[b].at = "binding" /\ socketFile' = b
           /\ SetServer(b, [server[b] EXCEPT !.at = "publishing", !.owned = TRUE])
  <2> DEFINE s == [server[b] EXCEPT !.at = "publishing", !.owned = TRUE]
  <2>1. s \in ServerStates /\ Orderly(s, caller[b]) /\ server[b].lock
    BY <1>1, <1>4, <1>8 DEF ServerStates, Orderly
  <2>2. server' = [server EXCEPT ![b] = s] BY <1>8 DEF SetServer
  <2> HIDE DEF s
  <2> QED BY <1>1, <1>3, <1>8, <2>1, <2>2, OneProcess
<1>9. CASE /\ server[b].at = "publishing" /\ UNCHANGED socketFile
           /\ SetServer(b, [server[b] EXCEPT !.at = "serving", !.listening = TRUE])
  <2> DEFINE s == [server[b] EXCEPT !.at = "serving", !.listening = TRUE]
  <2>1. s \in ServerStates /\ Orderly(s, caller[b]) /\ server[b].lock /\ server[b].owned
    BY <1>1, <1>4, <1>9 DEF ServerStates, Orderly
  <2>2. socketFile' = b BY <1>9, <2>1 DEF ListenerInv
  <2>3. server' = [server EXCEPT ![b] = s] BY <1>9 DEF SetServer
  <2> HIDE DEF s
  <2> QED BY <1>1, <1>3, <2>1, <2>2, <2>3, OneProcess
<1> QED BY <1>5, <1>6, <1>7, <1>8, <1>9
        DEF AcquireLock, ProbeAndClear, Bind, Publish, OpenCallFails

LEMMA LoopIsOrderly ==
  ASSUME ListenerInv, NEW b \in Backends,
         ListenerBreaks(b) \/ PollSucceeds(b) \/ Recover(b) \/ HonourStop(b) \/ LeaveLoop(b)
  PROVE  ListenerInv'
<1>1. server[b] \in ServerStates /\ caller[b] \in {"idle", "starting", "stopping", "removing", "releasing"}
  BY DEF ListenerInv, ListenerTypes
<1>2. caller' = [caller EXCEPT ![b] = caller[b]]
  BY DEF ListenerBreaks, PollSucceeds, Recover, HonourStop, LeaveLoop, ListenerInv, ListenerTypes
<1>3. Orderly(server[b], caller[b]) BY DEF ListenerInv
<1>4. CASE ListenerBreaks(b)
  <2> DEFINE s == [server[b] EXCEPT !.at = "failing", !.failures = server[b].failures + 1]
  <2>1. server[b].failures + 1 \in Nat BY <1>1 DEF ServerStates
  <2>2. s \in ServerStates /\ s.lock = server[b].lock /\ s.owned = server[b].owned /\ s.at = "failing"
    BY <1>1, <2>1 DEF ServerStates
  <2>3. Reset(b, s) /\ server[b].at = "serving" BY <1>4 DEF ListenerBreaks
  <2>4. caller[b] \notin {"removing", "releasing"} BY <1>3, <2>3 DEF Orderly
  <2> HIDE DEF s
  <2> QED BY <1>1, <1>2, <2>2, <2>3, <2>4, ResetIsOrderly
<1>5. CASE LeaveLoop(b)
  <2> DEFINE s == [server[b] EXCEPT !.at = "ended"]
  <2>1. s \in ServerStates /\ s.lock = server[b].lock /\ s.owned = server[b].owned /\ s.at = "ended"
    BY <1>1 DEF ServerStates
  <2>2. Reset(b, s) BY <1>5 DEF LeaveLoop
  <2> HIDE DEF s
  <2> QED BY <1>1, <1>2, <2>1, <2>2, ResetIsOrderly
<1>6. CASE PollSucceeds(b) \/ Recover(b) \/ HonourStop(b)
  <2>1. PICK s \in ServerStates :
          /\ server' = [server EXCEPT ![b] = s]
          /\ s.lock = server[b].lock /\ s.owned = server[b].owned
          /\ s.at = server[b].at \/ s.at \in {"leaving", "opening"}
          /\ s.at = "opening" => server[b].at = "failing"
          /\ server[b].at \in {"serving", "failing"}
    BY <1>1, <1>6 DEF PollSucceeds, Recover, HonourStop, SetServer, ServerStates
  <2>2. UNCHANGED socketFile BY <1>6 DEF PollSucceeds, Recover, HonourStop
  <2>3. Orderly(s, caller[b]) BY <1>3, <2>1 DEF Orderly
  <2>4. s.owned => socketFile' = b BY <2>1, <2>2 DEF ListenerInv
  <2> QED BY <1>1, <1>2, <2>1, <2>2, <2>3, <2>4, OneProcess
<1> QED BY <1>4, <1>5, <1>6

LEMMA CallersAreOrderly ==
  ASSUME ListenerInv, NEW b \in Backends,
         \/ StartListener(b) \/ StartReturns(b) \/ StartFailed(b) \/ AskToStop(b)
         \/ JoinServer(b) \/ RemoveFile(b) \/ ReleaseLock(b) \/ BackendDies(b)
  PROVE  ListenerInv'
<1>1. server[b] \in ServerStates /\ Orderly(server[b], caller[b])
  BY DEF ListenerInv, ListenerTypes
<1>2. server = [server EXCEPT ![b] = server[b]] BY DEF ListenerInv, ListenerTypes
<1>3. Down \in ServerStates /\ ~Down.owned /\ ~Down.lock /\ Down.at = "down"
  BY DEF Down, ServerStates
<1>4. CASE StartListener(b)
  <2> DEFINE s == [Down EXCEPT !.at = "opening", !.lock = server[b].lock]
  <2>1. s \in ServerStates /\ s.lock = server[b].lock /\ ~s.owned /\ s.at = "opening"
    BY <1>1, <1>3 DEF ServerStates
  <2>2. server' = [server EXCEPT ![b] = s] /\ UNCHANGED socketFile
        /\ caller' = [caller EXCEPT ![b] = "starting"]
    BY <1>4 DEF StartListener, SetServer
  <2>3. Orderly(s, "starting") BY <2>1 DEF Orderly
  <2> HIDE DEF s
  <2> QED BY <2>1, <2>2, <2>3, OneProcess
<1>5. CASE StartReturns(b)
  <2>1. Orderly(server[b], "idle") BY <1>1 DEF Orderly
  <2>2. server[b].owned => socketFile = b BY DEF ListenerInv
  <2> QED BY <1>1, <1>2, <1>5, <2>1, <2>2, OneProcess DEF StartReturns
<1>6. CASE StartFailed(b) \/ AskToStop(b)
  <2> DEFINE s == [server[b] EXCEPT !.stop = TRUE]
  <2>1. /\ s \in ServerStates /\ s.lock = server[b].lock /\ s.owned = server[b].owned
        /\ s.at = server[b].at
    BY <1>1 DEF ServerStates
  <2>2. PICK c \in {"stopping", "removing"} :
          caller' = [caller EXCEPT ![b] = c] /\ (c = "removing" => s.at = "failed")
    BY <1>6, <2>1 DEF StartFailed, AskToStop
  <2>3. server' = [server EXCEPT ![b] = s] /\ UNCHANGED socketFile
    BY <1>6 DEF StartFailed, AskToStop, SetServer
  <2>4. Orderly(s, c) BY <1>1, <2>1, <2>2 DEF Orderly
  <2>5. s.owned => socketFile' = b BY <2>1, <2>3 DEF ListenerInv
  <2> HIDE DEF s
  <2> QED BY <2>1, <2>2, <2>3, <2>4, <2>5, OneProcess
<1>7. CASE JoinServer(b)
  <2>1. Orderly(server[b], "removing") BY <1>1, <1>7 DEF Orderly, JoinServer
  <2>2. server[b].owned => socketFile = b BY DEF ListenerInv
  <2> QED BY <1>1, <1>2, <1>7, <2>1, <2>2, OneProcess DEF JoinServer
<1>8. CASE RemoveFile(b)
  <2>1. server[b].at \in {"ended", "failed"} BY <1>1, <1>8 DEF RemoveFile, Orderly
  <2> QED BY <1>1, <1>8, <2>1, ResetIsOrderly DEF RemoveFile
<1>9. CASE ReleaseLock(b) \/ BackendDies(b)
  <2>1. server' = [server EXCEPT ![b] = Down] /\ caller' = [caller EXCEPT ![b] = "idle"]
        /\ UNCHANGED socketFile
    BY <1>9 DEF ReleaseLock, BackendDies, SetServer
  <2>2. Orderly(Down, "idle") BY <1>3 DEF Orderly
  <2> QED BY <1>3, <2>1, <2>2, OneProcess
<1> QED BY <1>4, <1>5, <1>6, <1>7, <1>8, <1>9

LEMMA ListenerInvHolds == ListenerSpec => []ListenerInv
<1>1. ListenerInit => ListenerInv
  BY DEF ListenerInit, ListenerInv, ListenerTypes, ServerStates, Orderly, Down
<1>2. ListenerInv /\ [ListenerNext]_listenerVars => ListenerInv'
  <2>1. ListenerInv /\ ListenerNext => ListenerInv'
    BY OpeningIsOrderly, LoopIsOrderly, CallersAreOrderly DEF ListenerNext
  <2>2. ListenerInv /\ UNCHANGED listenerVars => ListenerInv'
    BY DEF ListenerInv, ListenerTypes, listenerVars
  <2> QED BY <2>1, <2>2
<1> QED BY <1>1, <1>2, PTL DEF ListenerSpec

(* A server that serves is the one clients find at the path, for any       *)
(* number of processes, failures, recoveries and crashes: the lock beside  *)
(* the path is held from before the file is looked at until the server has *)
(* given up its own file (BackendIpcServer::open_listen_socket).           *)
THEOREM ServingStaysReachable == ListenerSpec => []ServingIsReachable
<1>1. ListenerInv => ServingIsReachable
  BY DEF ListenerInv, Orderly, ServingIsReachable
<1> QED BY <1>1, ListenerInvHolds, PTL

-----------------------------------------------------------------------------
(* IpcClients.                                                             *)

ConnectionStates ==
  [at : {"away", "tracked", "queued", "served", "closed"}, shut : BOOLEAN]

WorkerStates ==
  [at : {"none", "looking", "dozing", "asleep", "serving", "releasing", "ended"},
   on : SUBSET Connections]

ClientTypes ==
  /\ conn \in [Connections -> ConnectionStates]
  /\ queue \in Seq(Connections)
  /\ worker \in [Workers -> WorkerStates]
  /\ accepting \in [at : {"starting", "polling", "accepted", "tracked", "slotted", "notify",
                          "leaving", "telling", "joining", "aborting", "joined"},
                    on : SUBSET Connections]
  /\ halt \in [asked : BOOLEAN, passed : BOOLEAN]

(* A connection is in one place: in the hand of server_loop, once in the   *)
(* queue, or with a worker, who never gives it back.                       *)
PlacesInv ==
  /\ \A i \in 1..Len(queue) : conn[queue[i]].at = "queued"
  /\ \A i, j \in 1..Len(queue) : queue[i] = queue[j] => i = j
  /\ \A w \in Workers : \A c \in worker[w].on : conn[c].at \in {"served", "closed"}
  /\ \A c \in accepting.on : /\ accepting.at = "accepted" => conn[c].at = "away"
                             /\ accepting.at \in {"tracked", "slotted"} => conn[c].at = "tracked"
  /\ \A c, d \in accepting.on : c = d

(* From the pass of server_loop on no connection is added, and every one   *)
(* that is open has been shut down.                                        *)
HaltInv ==
  /\ accepting.at \in {"leaving", "telling", "joining"} => halt.asked
  /\ accepting.at \in {"telling", "joining"} => \A c \in Open : conn[c].shut
  /\ accepting.at = "joining" =>
       queue = <<>> /\ \A w \in Workers : worker[w].at \notin {"dozing", "asleep"}

ClientsInv == ClientTypes /\ PlacesInv /\ HaltInv

LEMMA PutFields ==
  ASSUME conn \in [Connections -> ConnectionStates], NEW c \in Connections,
         NEW at \in {"away", "tracked", "queued", "served", "closed"}, Put(c, at)
  PROVE  /\ conn' \in [Connections -> ConnectionStates]
         /\ conn'[c].at = at /\ conn'[c].shut = conn[c].shut
         /\ \A d \in Connections \ {c} : conn'[d] = conn[d]
BY DEF Put, ConnectionStates

LEMMA CloseFields ==
  ASSUME conn \in [Connections -> ConnectionStates], NEW C
  PROVE  /\ Close(C) \in [Connections -> ConnectionStates]
         /\ \A c \in Connections : /\ c \in C => Close(C)[c].at = "closed"
                                   /\ c \notin C => Close(C)[c] = conn[c]
BY DEF Close, ConnectionStates

LEMMA ShutFields ==
  ASSUME conn \in [Connections -> ConnectionStates]
  PROVE  /\ ShutAll \in [Connections -> ConnectionStates]
         /\ \A c \in Connections : /\ ShutAll[c].at = conn[c].at
                                   /\ ShutAll[c].shut = (conn[c].shut \/ c \in Open)
BY DEF ShutAll, ConnectionStates

LEMMA WakeFields ==
  ASSUME worker \in [Workers -> WorkerStates], NEW W
  PROVE  /\ Wake(W) \in [Workers -> WorkerStates]
         /\ \A w \in Workers :
              /\ Wake(W)[w].on = worker[w].on
              /\ Wake(W)[w].at = IF w \in W /\ worker[w].at = "asleep" THEN "looking" ELSE worker[w].at
BY DEF Wake, WorkerStates

LEMMA AcceptingFields ==
  ASSUME ClientTypes,
         NEW at \in {"starting", "polling", "accepted", "tracked", "slotted", "notify",
                     "leaving", "telling", "joining", "aborting", "joined"}
  PROVE  /\ [accepting EXCEPT !.at = at] \in
              [at : {"starting", "polling", "accepted", "tracked", "slotted", "notify",
                     "leaving", "telling", "joining", "aborting", "joined"},
               on : SUBSET Connections]
         /\ [accepting EXCEPT !.at = at].at = at
         /\ [accepting EXCEPT !.at = at].on = accepting.on
BY DEF ClientTypes

(* server_loop at work on a connection.                                    *)
LEMMA ClientsAccept ==
  ASSUME ClientsInv, NEW c \in Connections, Accept(c)
  PROVE  ClientsInv'
<1>1. /\ accepting' = [at |-> "accepted", on |-> {c}] /\ conn[c].at = "away"
      /\ UNCHANGED <<conn, queue, slots, worker, halt>>
  BY DEF Accept
<1>2. ClientTypes'
  BY <1>1 DEF ClientsInv, ClientTypes
<1>3. PlacesInv'
  BY <1>1 DEF ClientsInv, PlacesInv
<1>4. HaltInv'
  BY <1>1 DEF HaltInv
<1> QED BY <1>2, <1>3, <1>4 DEF ClientsInv

(* Leaving with one connection closed: it was in nobody else's hand.       *)
LEMMA ClientsLeave ==
  ASSUME ClientsInv, NEW c \in accepting.on, accepting.at \in {"accepted", "slotted"}, halt.asked,
         Leave(c), UNCHANGED <<queue, worker, halt>>
  PROVE  ClientsInv'
<1>1. c \in Connections /\ conn[c].at \in {"away", "tracked"}
  BY DEF ClientsInv, ClientTypes, PlacesInv
<1>2. /\ conn' \in [Connections -> ConnectionStates] /\ conn'[c].at = "closed"
      /\ \A d \in Connections \ {c} : conn'[d] = conn[d]
  BY <1>1, PutFields DEF Leave, ClientsInv, ClientTypes
<1>3. accepting' = [at |-> "leaving", on |-> {}]
  BY DEF Leave
<1>4. ClientTypes'
  BY <1>2, <1>3 DEF ClientsInv, ClientTypes
<1>5. PlacesInv'
  <2>1. \A i \in 1..Len(queue) : queue[i] \in Connections /\ queue[i] # c
    BY <1>1 DEF ClientsInv, ClientTypes, PlacesInv
  <2>2. \A w \in Workers : worker[w].on \subseteq Connections /\ c \notin worker[w].on
    BY <1>1 DEF ClientsInv, ClientTypes, WorkerStates, PlacesInv
  <2> QED BY <1>2, <1>3, <2>1, <2>2 DEF ClientsInv, PlacesInv
<1>6. HaltInv'
  BY <1>3 DEF HaltInv
<1> QED BY <1>4, <1>5, <1>6 DEF ClientsInv

LEMMA ClientsTrack ==
  ASSUME ClientsInv, Track
  PROVE  ClientsInv'
<1>1. PICK c \in accepting.on :
        IF halt.asked THEN Leave(c)
        ELSE Put(c, "tracked") /\ accepting' = [accepting EXCEPT !.at = "tracked"]
  BY DEF Track
<1>2. accepting.at = "accepted" /\ UNCHANGED <<queue, slots, worker, halt>>
  BY DEF Track
<1>3. CASE halt.asked
  BY <1>1, <1>2, <1>3, ClientsLeave
<1>4. CASE ~halt.asked
  <2>1. c \in Connections /\ conn[c].at = "away"
    BY <1>2 DEF ClientsInv, ClientTypes, PlacesInv
  <2>2. /\ conn' \in [Connections -> ConnectionStates] /\ conn'[c].at = "tracked"
        /\ \A d \in Connections \ {c} : conn'[d] = conn[d]
    BY <1>1, <1>4, <2>1, PutFields DEF ClientsInv, ClientTypes
  <2>3. accepting'.at = "tracked" /\ accepting'.on = accepting.on /\ ClientTypes'
    BY <1>1, <1>2, <1>4, <2>2, AcceptingFields DEF ClientsInv, ClientTypes
  <2>4. PlacesInv'
    <3>1. \A i \in 1..Len(queue) : queue[i] \in Connections /\ queue[i] # c
      BY <2>1 DEF ClientsInv, ClientTypes, PlacesInv
    <3>2. \A w \in Workers : worker[w].on \subseteq Connections /\ c \notin worker[w].on
      BY <2>1 DEF ClientsInv, ClientTypes, WorkerStates, PlacesInv
    <3>3. accepting.on = {c}
      BY DEF ClientsInv, PlacesInv
    <3> QED BY <1>2, <2>2, <2>3, <3>1, <3>2, <3>3 DEF ClientsInv, PlacesInv
  <2>5. HaltInv'
    BY <2>3 DEF HaltInv
  <2> QED BY <2>3, <2>4, <2>5 DEF ClientsInv
<1> QED BY <1>3, <1>4

LEMMA ClientsTakeSlot ==
  ASSUME ClientsInv, TakeSlot
  PROVE  ClientsInv'
<1>1. accepting.at = "tracked" /\ UNCHANGED <<queue, worker, halt>>
  BY DEF TakeSlot
<1>2. CASE accepting' = [accepting EXCEPT !.at = "slotted"] /\ UNCHANGED conn
  <2>1. accepting'.at = "slotted" /\ accepting'.on = accepting.on /\ ClientTypes'
    BY <1>1, <1>2, AcceptingFields DEF ClientsInv, ClientTypes
  <2> QED BY <1>1, <1>2, <2>1 DEF ClientsInv, PlacesInv, HaltInv
<1>3. CASE conn' = Close(accepting.on) /\ accepting' = Polling
  <2>1. accepting.on \subseteq Connections /\ \A c \in accepting.on : conn[c].at = "tracked"
    BY <1>1 DEF ClientsInv, ClientTypes, PlacesInv
  <2>2. /\ conn' \in [Connections -> ConnectionStates]
        /\ \A c \in Connections : /\ c \in accepting.on => conn'[c].at = "closed"
                                  /\ c \notin accepting.on => conn'[c] = conn[c]
    BY <1>3, CloseFields DEF ClientsInv, ClientTypes
  <2>3. ClientTypes'
    BY <1>1, <1>3, <2>2 DEF ClientsInv, ClientTypes, Polling
  <2>4. PlacesInv'
    <3>1. \A i \in 1..Len(queue) : queue[i] \in Connections /\ queue[i] \notin accepting.on
      BY <2>1 DEF ClientsInv, ClientTypes, PlacesInv
    <3>2. \A w \in Workers : worker[w].on \subseteq Connections
      BY DEF ClientsInv, ClientTypes, WorkerStates
    <3> QED BY <1>1, <1>3, <2>2, <3>1, <3>2 DEF ClientsInv, PlacesInv, Polling
  <2>5. HaltInv'
    BY <1>3 DEF HaltInv, Polling
  <2> QED BY <2>3, <2>4, <2>5 DEF ClientsInv
<1> QED BY <1>2, <1>3 DEF TakeSlot

LEMMA ClientsEnqueue ==
  ASSUME ClientsInv, Enqueue
  PROVE  ClientsInv'
<1>1. PICK c \in accepting.on :
       IF halt.asked
       THEN Leave(c) /\ UNCHANGED queue
       ELSE /\ Put(c, "queued") /\ queue' = Append(queue, c)
            /\ accepting' = [accepting EXCEPT !.at = "notify"]
  BY DEF Enqueue
<1>2. accepting.at = "slotted" /\ UNCHANGED <<worker, halt>>
  BY DEF Enqueue
<1>3. CASE halt.asked
  BY <1>1, <1>2, <1>3, ClientsLeave
<1>4. CASE ~halt.asked
  <2>1. c \in Connections /\ conn[c].at = "tracked" /\ queue \in Seq(Connections)
    BY <1>2 DEF ClientsInv, ClientTypes, PlacesInv
  <2>2. /\ conn' \in [Connections -> ConnectionStates] /\ conn'[c].at = "queued"
        /\ \A d \in Connections \ {c} : conn'[d] = conn[d]
    BY <1>1, <1>4, <2>1, PutFields DEF ClientsInv, ClientTypes
  <2>3. accepting'.at = "notify" /\ accepting'.on = accepting.on
    BY <1>1, <1>4, AcceptingFields DEF ClientsInv
  <2>4. queue' = Append(queue, c)
    BY <1>1, <1>4
  <2>5. ClientTypes'
    <3>1. queue' \in Seq(Connections)
      BY <2>1, <2>4
    <3> QED BY <1>1, <1>2, <1>4, <2>2, <3>1, AcceptingFields DEF ClientsInv, ClientTypes
  <2>6. PlacesInv'
    <3>1. \A i \in 1..Len(queue) : queue[i] \in Connections /\ queue[i] # c
      BY <2>1 DEF ClientsInv, ClientTypes, PlacesInv
    <3>2. \A w \in Workers : worker[w].on \subseteq Connections /\ c \notin worker[w].on
      BY <2>1 DEF ClientsInv, ClientTypes, WorkerStates, PlacesInv
    <3>3. /\ Len(queue') = Len(queue) + 1 /\ queue'[Len(queue) + 1] = c
          /\ \A i \in 1..Len(queue) : queue'[i] = queue[i]
      BY <2>1, <2>4
    <3>4. \A i \in 1..Len(queue') : i \in 1..Len(queue) \/ i = Len(queue) + 1
      BY <2>1, <3>3
    <3>5. \A i \in 1..Len(queue') : conn'[queue'[i]].at = "queued"
      BY <2>2, <3>1, <3>3, <3>4 DEF ClientsInv, PlacesInv
    <3>6. \A i, j \in 1..Len(queue') : queue'[i] = queue'[j] => i = j
      BY <3>1, <3>3, <3>4 DEF ClientsInv, PlacesInv
    <3>7. \A w \in Workers : \A d \in worker'[w].on : conn'[d].at \in {"served", "closed"}
      BY <1>2, <2>2, <3>2 DEF ClientsInv, PlacesInv
    <3> QED BY <2>3, <3>5, <3>6, <3>7 DEF ClientsInv, PlacesInv
  <2>7. HaltInv'
    BY <2>3 DEF HaltInv
  <2> QED BY <2>5, <2>6, <2>7 DEF ClientsInv
<1> QED BY <1>3, <1>4

(* Waking, dozing off and the start touch nobody's connection.             *)
LEMMA ClientsWorkers ==
  ASSUME ClientsInv, UNCHANGED <<conn, queue>>, worker' \in [Workers -> WorkerStates],
         \A w \in Workers : worker'[w].on \subseteq worker[w].on,
         ClientTypes', accepting'.on = accepting.on \/ accepting'.on = {},
         accepting'.at = accepting.at \/ accepting'.at \notin {"accepted", "tracked", "slotted"},
         HaltInv'
  PROVE  ClientsInv'
<1>1. PlacesInv'
  BY DEF ClientsInv, PlacesInv
<1> QED BY <1>1 DEF ClientsInv

LEMMA ClientsStart ==
  ASSUME ClientsInv,
         \/ WorkersCreated \/ CreateFails \/ StartAborted \/ NotifyOne \/ JoinWorkers
         \/ \E w \in Workers : CreateWorker(w) \/ FallAsleep(w) \/ ReleaseSlot(w)
  PROVE  ClientsInv'
<1>1. UNCHANGED <<conn, queue>>
  BY DEF WorkersCreated, CreateFails, StartAborted, NotifyOne, JoinWorkers, CreateWorker,
         FallAsleep, ReleaseSlot
<1>2. worker \in [Workers -> WorkerStates]
  BY DEF ClientsInv, ClientTypes
<1>3. CASE WorkersCreated
  <2>1. accepting' = Polling /\ UNCHANGED <<worker, halt>>
    BY <1>3 DEF WorkersCreated
  <2>2. ClientTypes'
    BY <1>1, <2>1 DEF ClientsInv, ClientTypes, Polling
  <2> QED BY <1>1, <1>2, <2>1, <2>2, ClientsWorkers DEF Polling, HaltInv
<1>4. CASE CreateFails
  <2>1. /\ halt' = [asked |-> TRUE, passed |-> TRUE] /\ worker' = Wake(Workers)
        /\ accepting' = [accepting EXCEPT !.at = "aborting"]
    BY <1>4 DEF CreateFails
  <2>2. ClientTypes' /\ accepting'.at = "aborting" /\ accepting'.on = accepting.on
    BY <1>1, <1>2, <2>1, WakeFields, AcceptingFields DEF ClientsInv, ClientTypes
  <2> QED BY <1>1, <1>2, <2>1, <2>2, WakeFields, ClientsWorkers DEF HaltInv
<1>5. CASE StartAborted \/ JoinWorkers
  <2>1. accepting' = [accepting EXCEPT !.at = "joined"] /\ UNCHANGED <<worker, halt>>
    BY <1>5 DEF StartAborted, JoinWorkers
  <2>2. ClientTypes' /\ accepting'.at = "joined" /\ accepting'.on = accepting.on
    BY <1>1, <2>1, AcceptingFields DEF ClientsInv, ClientTypes
  <2> QED BY <1>1, <1>2, <2>1, <2>2, ClientsWorkers DEF HaltInv
<1>6. CASE NotifyOne
  <2>1. PICK W : worker' = Wake(W)
    <3>1. worker = Wake({})
      BY <1>2 DEF Wake
    <3> QED BY <1>6, <3>1 DEF NotifyOne
  <2>2. accepting' = Polling /\ UNCHANGED halt
    BY <1>6 DEF NotifyOne
  <2>3. ClientTypes'
    BY <1>1, <1>2, <2>1, <2>2, WakeFields DEF ClientsInv, ClientTypes, Polling
  <2> QED BY <1>1, <1>2, <2>1, <2>2, <2>3, WakeFields, ClientsWorkers DEF Polling, HaltInv
<1>7. ASSUME NEW w \in Workers, CreateWorker(w) \/ ReleaseSlot(w) PROVE ClientsInv'
  <2>1. worker' = [worker EXCEPT ![w] = [at |-> "looking", on |-> {}]]
        /\ UNCHANGED <<accepting, halt>>
    BY <1>7 DEF CreateWorker, ReleaseSlot, Working
  <2>2. worker' \in [Workers -> WorkerStates] /\ \A v \in Workers : worker'[v].on \subseteq worker[v].on
    BY <1>2, <2>1 DEF WorkerStates
  <2>3. ClientTypes'
    BY <1>1, <2>1, <2>2 DEF ClientsInv, ClientTypes
  <2>4. HaltInv'
    BY <1>1, <1>2, <2>1 DEF ClientsInv, HaltInv, Open
  <2> QED BY <1>1, <2>1, <2>2, <2>3, <2>4, ClientsWorkers
<1>8. ASSUME NEW w \in Workers, FallAsleep(w) PROVE ClientsInv'
  <2>1. /\ worker' = [worker EXCEPT ![w].at = "asleep"] /\ worker[w].at = "dozing"
        /\ UNCHANGED <<accepting, halt>>
    BY <1>8 DEF FallAsleep
  <2>2. worker' \in [Workers -> WorkerStates] /\ \A v \in Workers : worker'[v].on \subseteq worker[v].on
    BY <1>2, <2>1 DEF WorkerStates
  <2>3. ClientTypes'
    BY <1>1, <2>1, <2>2 DEF ClientsInv, ClientTypes
  <2>4. HaltInv'
    BY <1>1, <1>2, <2>1 DEF ClientsInv, HaltInv, Open
  <2> QED BY <1>1, <2>1, <2>2, <2>3, <2>4, ClientsWorkers
<1> QED BY <1>3, <1>4, <1>5, <1>6, <1>7, <1>8

(* client_worker_loop takes the connection at the front for its own.       *)
LEMMA ClientsLook ==
  ASSUME ClientsInv, NEW w \in Workers, Look(w)
  PROVE  ClientsInv'
<1>1. UNCHANGED <<slots, accepting, halt>>
  BY DEF Look
<1>2. worker \in [Workers -> WorkerStates] /\ queue \in Seq(Connections)
  BY DEF ClientsInv, ClientTypes
<1>3. CASE queue # <<>>
  <2> DEFINE c == Head(queue)
  <2>1. /\ worker' = [worker EXCEPT ![w] = [at |-> "serving", on |-> {c}]]
        /\ queue' = Tail(queue) /\ Put(c, "served")
    BY <1>3 DEF Look
  <2>2. /\ c \in Connections /\ c = queue[1] /\ Len(queue) >= 1 /\ queue' \in Seq(Connections)
        /\ Len(queue') = Len(queue) - 1 /\ \A i \in 1..Len(queue') : queue'[i] = queue[i + 1]
    BY <1>2, <1>3, <2>1
  <2>3. conn[c].at = "queued"
    BY <2>2 DEF ClientsInv, PlacesInv
  <2> HIDE DEF c
  <2>4. /\ conn' \in [Connections -> ConnectionStates] /\ conn'[c].at = "served"
        /\ conn'[c].shut = conn[c].shut /\ \A d \in Connections \ {c} : conn'[d] = conn[d]
    BY <2>1, <2>2, PutFields DEF ClientsInv, ClientTypes
  <2>5. worker' \in [Workers -> WorkerStates] /\ worker'[w].on = {c}
        /\ worker'[w].at = "serving" /\ \A v \in Workers \ {w} : worker'[v] = worker[v]
    BY <1>2, <2>1, <2>2 DEF WorkerStates
  <2>6. ClientTypes'
    BY <1>1, <2>2, <2>4, <2>5 DEF ClientsInv, ClientTypes
  <2>7. PlacesInv'
    <3>1. \A i \in 1..Len(queue') : i + 1 \in 1..Len(queue) /\ i + 1 # 1
      BY <1>2, <2>2
    <3>2. \A i \in 1..Len(queue') : queue'[i] \in Connections /\ queue'[i] # c
                                    /\ conn[queue'[i]].at = "queued"
      BY <1>2, <2>2, <3>1 DEF ClientsInv, PlacesInv
    <3>3. \A i, j \in 1..Len(queue') : queue'[i] = queue'[j] => i = j
      <4>1. ASSUME NEW i \in 1..Len(queue'), NEW j \in 1..Len(queue'), queue'[i] = queue'[j]
            PROVE  i = j
        <5>1. queue[i + 1] = queue[j + 1] /\ i + 1 \in 1..Len(queue) /\ j + 1 \in 1..Len(queue)
          BY <2>2, <3>1, <4>1
        <5>2. i + 1 = j + 1
          BY <5>1 DEF ClientsInv, PlacesInv
        <5> QED BY <5>2
      <4> QED BY <4>1
    <3>4. \A v \in Workers : \A d \in worker'[v].on : conn'[d].at \in {"served", "closed"}
      <4>1. \A v \in Workers : worker[v].on \subseteq Connections
        BY <1>2 DEF WorkerStates
      <4>2. \A v \in Workers : \A d \in worker[v].on : conn[d].at \in {"served", "closed"}
        BY DEF ClientsInv, PlacesInv
      <4> QED BY <2>4, <2>5, <4>1, <4>2
    <3>5. \A d \in accepting.on : /\ accepting.at = "accepted" => conn'[d].at = "away"
                                  /\ accepting.at \in {"tracked", "slotted"} => conn'[d].at = "tracked"
      BY <2>3, <2>4 DEF ClientsInv, ClientTypes, PlacesInv
    <3> QED BY <1>1, <2>4, <3>2, <3>3, <3>4, <3>5 DEF ClientsInv, PlacesInv
  <2>8. HaltInv'
    <3>1. accepting.at = "joining" => queue = <<>>
      BY DEF ClientsInv, HaltInv
    <3>2. accepting.at # "joining"
      BY <1>3, <3>1
    <3>3. ASSUME accepting.at = "telling", NEW d \in Connections,
                 conn'[d].at \in {"tracked", "queued", "served"}
          PROVE  conn'[d].shut
      BY <2>2, <2>3, <2>4, <3>3 DEF ClientsInv, HaltInv, Open
    <3> QED BY <1>1, <3>2, <3>3 DEF ClientsInv, HaltInv, Open
  <2> QED BY <2>6, <2>7, <2>8 DEF ClientsInv
<1>4. CASE queue = <<>>
  <2>1. /\ worker' = [worker EXCEPT ![w].at = IF halt.asked THEN "ended" ELSE "dozing"]
        /\ UNCHANGED <<queue, conn>>
    BY <1>4 DEF Look
  <2>2. /\ worker' \in [Workers -> WorkerStates] /\ worker'[w].on = worker[w].on
        /\ worker'[w].at = (IF halt.asked THEN "ended" ELSE "dozing")
        /\ \A v \in Workers \ {w} : worker'[v] = worker[v]
    BY <1>2, <2>1 DEF WorkerStates
  <2>3. ClientTypes'
    BY <1>1, <2>1, <2>2 DEF ClientsInv, ClientTypes
  <2>4. HaltInv'
    BY <1>1, <2>1, <2>2 DEF ClientsInv, HaltInv, Open
  <2> QED BY <1>1, <2>1, <2>2, <2>3, <2>4, ClientsWorkers
<1> QED BY <1>3, <1>4

LEMMA ClientsServe ==
  ASSUME ClientsInv, NEW w \in Workers, Serve(w)
  PROVE  ClientsInv'
<1>1. /\ conn' = Close(worker[w].on) /\ worker' = [worker EXCEPT ![w].at = "releasing"]
      /\ UNCHANGED <<queue, slots, accepting, halt>>
  BY DEF Serve
<1>2. worker \in [Workers -> WorkerStates] /\ queue \in Seq(Connections)
  BY DEF ClientsInv, ClientTypes
<1>3. /\ worker' \in [Workers -> WorkerStates] /\ \A v \in Workers : worker'[v].on = worker[v].on
      /\ worker'[w].at = "releasing" /\ \A v \in Workers \ {w} : worker'[v] = worker[v]
  BY <1>1, <1>2 DEF WorkerStates
<1>4. /\ conn' \in [Connections -> ConnectionStates]
      /\ \A c \in Connections : /\ c \in worker[w].on => conn'[c].at = "closed"
                                /\ c \notin worker[w].on => conn'[c] = conn[c]
  BY <1>1, CloseFields DEF ClientsInv, ClientTypes
<1>5. \A c \in worker[w].on : conn[c].at \in {"served", "closed"}
  BY DEF ClientsInv, PlacesInv
<1>6. ClientTypes'
  BY <1>1, <1>3, <1>4 DEF ClientsInv, ClientTypes
<1>7. PlacesInv'
  <2>1. \A i \in 1..Len(queue) : queue[i] \in Connections /\ queue[i] \notin worker[w].on
    BY <1>2, <1>5 DEF ClientsInv, PlacesInv
  <2>2. \A v \in Workers : worker[v].on \subseteq Connections
    BY <1>2 DEF WorkerStates
  <2>3. accepting.on \subseteq Connections
    BY DEF ClientsInv, ClientTypes
  <2>4. \A v \in Workers : \A d \in worker'[v].on : conn'[d].at \in {"served", "closed"}
    BY <1>3, <1>4, <2>2 DEF ClientsInv, PlacesInv
  <2>5. \A d \in accepting.on : /\ accepting.at = "accepted" => conn'[d].at = "away"
                                /\ accepting.at \in {"tracked", "slotted"} => conn'[d].at = "tracked"
    BY <1>4, <1>5, <2>3 DEF ClientsInv, PlacesInv
  <2> QED BY <1>1, <1>4, <2>1, <2>4, <2>5 DEF ClientsInv, PlacesInv
<1>8. HaltInv'
  <2>1. ASSUME NEW d \in Connections, d \in Open' PROVE d \in Open /\ conn'[d].shut = conn[d].shut
    BY <1>4, <2>1 DEF Open
  <2>2. Open' \subseteq Connections
    BY DEF Open
  <2> QED BY <1>1, <1>3, <2>1, <2>2 DEF ClientsInv, HaltInv
<1> QED BY <1>6, <1>7, <1>8 DEF ClientsInv

LEMMA ClientsHalt ==
  ASSUME ClientsInv, AskToHalt \/ ListenerGivesUp
  PROVE  ClientsInv'
<1>1. UNCHANGED <<conn, queue, worker>>
  BY DEF AskToHalt, ListenerGivesUp
<1>2. halt'.asked /\ halt' \in [asked : BOOLEAN, passed : BOOLEAN]
  <2>1. CASE AskToHalt
    BY <2>1 DEF AskToHalt
  <2>2. CASE ListenerGivesUp
    BY <2>2 DEF ListenerGivesUp, ClientsInv, ClientTypes
  <2> QED BY <2>1, <2>2
<1>3. accepting' = accepting \/ accepting' = [at |-> "leaving", on |-> {}]
  BY DEF AskToHalt, ListenerGivesUp
<1>4. ClientTypes'
  BY <1>1, <1>2, <1>3 DEF ClientsInv, ClientTypes
<1>5. HaltInv'
  BY <1>1, <1>2, <1>3 DEF ClientsInv, HaltInv, Open
<1>6. PlacesInv'
  BY <1>1, <1>3 DEF ClientsInv, PlacesInv
<1> QED BY <1>4, <1>5, <1>6 DEF ClientsInv

(* Shutting every open connection down moves none.                         *)
LEMMA ClientsShut ==
  ASSUME ClientsInv, ShutDown \/ EndLoop
  PROVE  ClientsInv'
<1>1. conn' = ShutAll /\ UNCHANGED <<queue, worker>>
  BY DEF ShutDown, EndLoop
<1>2. /\ conn' \in [Connections -> ConnectionStates]
      /\ \A c \in Connections : /\ conn'[c].at = conn[c].at
                                /\ conn'[c].shut = (conn[c].shut \/ c \in Open)
  BY <1>1, ShutFields DEF ClientsInv, ClientTypes
<1>3. /\ accepting'.on = accepting.on /\ halt'.asked = halt.asked
      /\ accepting'.at = accepting.at \/ (accepting.at = "leaving" /\ accepting'.at = "telling")
      /\ ClientTypes'
  <2>1. CASE ShutDown
    BY <1>1, <1>2, <2>1 DEF ShutDown, ClientsInv, ClientTypes
  <2>2. CASE EndLoop
    BY <1>1, <1>2, <2>2, AcceptingFields DEF EndLoop, ClientsInv, ClientTypes
  <2> QED BY <2>1, <2>2
<1>4. PlacesInv'
  <2>1. \A i \in 1..Len(queue) : queue[i] \in Connections
    BY DEF ClientsInv, ClientTypes
  <2>2. \A v \in Workers : worker[v].on \subseteq Connections
    BY DEF ClientsInv, ClientTypes, WorkerStates
  <2>3. accepting.on \subseteq Connections
    BY DEF ClientsInv, ClientTypes
  <2> QED BY <1>1, <1>2, <1>3, <2>1, <2>2, <2>3 DEF ClientsInv, PlacesInv
<1>5. HaltInv'
  <2>1. Open' = Open /\ \A c \in Open : conn'[c].shut
    BY <1>2 DEF Open
  <2> QED BY <1>1, <1>3, <2>1 DEF ClientsInv, HaltInv
<1> QED BY <1>3, <1>4, <1>5 DEF ClientsInv

LEMMA ClientsTell ==
  ASSUME ClientsInv, TellWorkers
  PROVE  ClientsInv'
<1>1. /\ accepting.at = "telling" /\ QueueMutexFree /\ worker' = Wake(Workers)
      /\ conn' = Close(ToSet(queue)) /\ queue' = <<>>
      /\ accepting' = [accepting EXCEPT !.at = "joining"] /\ UNCHANGED halt
  BY DEF TellWorkers
<1>2. /\ worker' \in [Workers -> WorkerStates]
      /\ \A w \in Workers : worker'[w].on = worker[w].on
      /\ \A w \in Workers : worker'[w].at \notin {"dozing", "asleep"}
  BY <1>1, WakeFields DEF ClientsInv, ClientTypes, QueueMutexFree
<1>3. /\ conn' \in [Connections -> ConnectionStates]
      /\ \A c \in Connections : conn'[c].at = "closed" \/ conn'[c] = conn[c]
  BY <1>1, CloseFields DEF ClientsInv, ClientTypes
<1>4. accepting'.at = "joining" /\ accepting'.on = accepting.on /\ ClientTypes'
  BY <1>1, <1>2, <1>3, AcceptingFields DEF ClientsInv, ClientTypes
<1>5. PlacesInv'
  <2>1. Len(queue') = 0
    BY <1>1
  <2>2. \A v \in Workers : worker[v].on \subseteq Connections
    BY DEF ClientsInv, ClientTypes, WorkerStates
  <2> QED BY <1>2, <1>3, <1>4, <2>1, <2>2 DEF ClientsInv, PlacesInv
<1>6. HaltInv'
  <2>1. \A c \in Open' : c \in Open /\ conn'[c] = conn[c]
    BY <1>3 DEF Open
  <2> QED BY <1>1, <1>2, <1>4, <2>1 DEF ClientsInv, HaltInv
<1> QED BY <1>4, <1>5, <1>6 DEF ClientsInv

(* When the workers are waited for none sleeps, none finds anything more to*)
(* begin, and no request is read without end, in whatever order stop(), the*)
(* end of the listener, new connections and sleeping workers meet          *)
(* (server_loop, stop_client_workers, client_worker_loop).                 *)
THEOREM StopAlwaysReaches == ClientsSpec => []StopReachesEveryone
<1>1. ClientsInit => ClientsInv
  <2>1. ASSUME ClientsInit PROVE ClientTypes
    BY <2>1 DEF ClientsInit, ClientTypes, ConnectionStates, WorkerStates
  <2>2. ASSUME ClientsInit PROVE PlacesInv
    BY <2>2 DEF ClientsInit, PlacesInv
  <2>3. ASSUME ClientsInit PROVE HaltInv
    BY <2>3 DEF ClientsInit, HaltInv
  <2> QED BY <2>1, <2>2, <2>3 DEF ClientsInv
<1>2. ClientsInv /\ [ClientsNext]_clientVars => ClientsInv'
  <2>1. ClientsInv /\ UNCHANGED clientVars => ClientsInv'
    BY DEF clientVars, ClientsInv, ClientTypes, PlacesInv, HaltInv, Open
  <2> QED
    BY <2>1, ClientsAccept, ClientsTrack, ClientsTakeSlot, ClientsEnqueue, ClientsStart, ClientsLook,
       ClientsServe, ClientsHalt, ClientsShut, ClientsTell
    DEF ClientsNext
<1>3. ClientsInv => StopReachesEveryone
  BY DEF ClientsInv, HaltInv, StopReachesEveryone
<1> QED BY <1>1, <1>2, <1>3, PTL DEF ClientsSpec

=============================================================================
