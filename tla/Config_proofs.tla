---------------------------- MODULE Config_proofs ---------------------------
(***************************************************************************)
(* Proofs about the configuration: how a change is applied, and what       *)
(* becomes of the types of devices it names.                               *)
(***************************************************************************)
EXTENDS ConfigApply, DeviceTemplates, SequenceTheorems, TLAPS

(***************************************************************************)
(* ConfigApply, for any settings and numbers of failures.                  *)
(***************************************************************************)
(* An operation and the polling service, as far as their records go.       *)
IsOp(o) ==
  o = [kind |-> o.kind, stage |-> o.stage, was |-> o.was, next |-> o.next, prev |-> o.prev,
       read |-> o.read, cause |-> o.cause, good |-> o.good, todo |-> o.todo]

IsPolling(p) == p = [active |-> p.active, stopping |-> p.stopping, wanted |-> p.wanted]

(* A service is being stopped only for an operation that waits for it, and *)
(* nothing else runs meanwhile.                                            *)
WaitsForStop(p, o) ==
  p.stopping # {} => o.stage = "draining" /\ o.kind # "none" /\ p.active = NoService

PollingInv == IsOp(op) /\ IsPolling(polling) /\ WaitsForStop(polling, op)

(***************************************************************************)
(* What the updates of an operation and of the polling service keep.       *)
(***************************************************************************)
LEMMA OpUpdates ==
  ASSUME NEW o, IsOp(o), NEW v
  PROVE  /\ IsOp([o EXCEPT !.stage = v]) /\ [o EXCEPT !.stage = v].kind = o.kind
         /\ [o EXCEPT !.stage = v].stage = v
         /\ IsOp([o EXCEPT !.kind = v]) /\ [o EXCEPT !.kind = v].kind = v
         /\ IsOp([o EXCEPT !.was = v]) /\ [o EXCEPT !.was = v].kind = o.kind
         /\ [o EXCEPT !.was = v].stage = o.stage
         /\ IsOp([o EXCEPT !.next = v]) /\ [o EXCEPT !.next = v].kind = o.kind
         /\ [o EXCEPT !.next = v].stage = o.stage
         /\ IsOp([o EXCEPT !.prev = v]) /\ [o EXCEPT !.prev = v].kind = o.kind
         /\ [o EXCEPT !.prev = v].stage = o.stage
         /\ IsOp([o EXCEPT !.read = v])
         /\ IsOp([o EXCEPT !.cause = v]) /\ [o EXCEPT !.cause = v].kind = o.kind
         /\ IsOp([o EXCEPT !.good = v])
         /\ IsOp([o EXCEPT !.todo = v]) /\ [o EXCEPT !.todo = v].kind = o.kind
         /\ [o EXCEPT !.todo = v].stage = o.stage
  BY DEF IsOp

LEMMA NoOpIsOp == IsOp(NoOp)
  BY DEF NoOp, IsOp

LEMMA BegunIsOp ==
  ASSUME NEW kind, NEW next, NEW prev
  PROVE  /\ IsOp(Begun(kind, next, prev)) /\ Begun(kind, next, prev).kind = kind
         /\ polling.active # NoService => Begun(kind, next, prev).stage = "draining"
  BY DEF Begun, IsOp

LEMMA DetachedIsPolling ==
  ASSUME IsPolling(polling), polling.stopping = {}, NEW w
  PROVE  /\ IsPolling(Detached) /\ Detached.active = NoService
         /\ Detached.stopping # {} => polling.active # NoService
         /\ IsPolling([Detached EXCEPT !.wanted = w])
         /\ [Detached EXCEPT !.wanted = w].active = NoService
         /\ [Detached EXCEPT !.wanted = w].stopping = Detached.stopping
<1> DEFINE d == Detached
<1>1. /\ IsPolling(d) /\ d.active = NoService
      /\ d.stopping = polling.stopping \cup ({polling.active} \ {NoService})
  <2>1. d = [polling EXCEPT !.active = NoService,
                            !.stopping = polling.stopping \cup ({polling.active} \ {NoService})]
    BY DEF Detached, IsPolling
  <2> HIDE DEF d
  <2> QED BY <2>1 DEF IsPolling
<1>2. ASSUME NEW p, IsPolling(p)
      PROVE  /\ IsPolling([p EXCEPT !.wanted = w])
             /\ [p EXCEPT !.wanted = w].active = p.active
             /\ [p EXCEPT !.wanted = w].stopping = p.stopping
  BY <1>2 DEF IsPolling
<1> HIDE DEF d
<1>3. d.stopping # {} => polling.active # NoService
  BY <1>1
<1>4. d = Detached
  BY DEF d
<1> QED BY <1>1, <1>2, <1>3, <1>4

(* What an action may do to polling when nothing is being stopped.         *)
Steady == IsPolling(polling') /\ polling'.stopping = {}

LEMMA StartedIsSteady ==
  ASSUME IsPolling(polling), polling.stopping = {}, Started \/ NotStarted
  PROVE  Steady
  BY DEF Started, NotStarted, IsPolling, Steady

LEMMA WantedIsSteady ==
  ASSUME IsPolling(polling), polling.stopping = {}, NEW w, polling' = [polling EXCEPT !.wanted = w]
  PROVE  Steady
  BY DEF IsPolling, Steady

LEMMA SteadyKeeps ==
  ASSUME Steady, IsOp(op')
  PROVE  PollingInv'
  BY DEF Steady, PollingInv, WaitsForStop

(* An operation that goes on from a stage in which nothing is stopped.     *)
LEMMA OpGoesOn ==
  ASSUME IsOp(op),
         \/ Finished
         \/ \E s : Keep(s)
         \/ \E g : Failing(g)
         \/ \E s, c : op' = [op EXCEPT !.stage = s, !.cause = c]
         \/ \E s, g : op' = [op EXCEPT !.stage = s, !.good = g]
         \/ \E s, r : op' = [op EXCEPT !.stage = s, !.read = r]
         \/ \E s : op' = [op EXCEPT !.stage = s]
         \/ \E t : op' = [op EXCEPT !.todo = t]
         \/ UNCHANGED op
  PROVE  IsOp(op')
<1>1. CASE Finished BY <1>1, NoOpIsOp DEF Finished
<1>2. CASE (\E s : Keep(s)) \/ (\E s : op' = [op EXCEPT !.stage = s])
  BY <1>2 DEF Keep, IsOp
<1>3. CASE (\E g : Failing(g)) \/ (\E s, g : op' = [op EXCEPT !.stage = s, !.good = g])
  BY <1>3, OpUpdates DEF Failing, IsOp
<1>4. CASE \E s, c : op' = [op EXCEPT !.stage = s, !.cause = c]
  BY <1>4 DEF IsOp
<1>5. CASE \E s, r : op' = [op EXCEPT !.stage = s, !.read = r]
  BY <1>5 DEF IsOp
<1>6. CASE \E t : op' = [op EXCEPT !.todo = t]
  BY <1>6 DEF IsOp
<1>7. CASE UNCHANGED op BY <1>7
<1> QED BY <1>1, <1>2, <1>3, <1>4, <1>5, <1>6, <1>7

(* Nothing is being stopped outside the stage that waits for it.           *)
LEMMA NothingStops ==
  ASSUME PollingInv, op.stage # "draining" \/ op.kind = "none"
  PROVE  IsOp(op) /\ IsPolling(polling) /\ polling.stopping = {}
  BY DEF PollingInv, WaitsForStop

LEMMA UndoKeeps ==
  ASSUME PollingInv, op.stage # "draining", op.kind # "none", UndoForModbus
  PROVE  PollingInv'
<1>1. IsOp(op) /\ IsPolling(polling) /\ polling.stopping = {}
  BY NothingStops
<1>2. IsOp(op') /\ op'.kind = op.kind
      /\ (polling.active # NoService => op'.stage = "draining")
  BY <1>1 DEF UndoForModbus, IsOp
<1>3. /\ polling' = Detached
      /\ IsPolling(Detached) /\ Detached.active = NoService
      /\ Detached.stopping # {} => polling.active # NoService
  BY <1>1, DetachedIsPolling DEF UndoForModbus
<1> QED BY <1>2, <1>3 DEF PollingInv, WaitsForStop

(***************************************************************************)
(* PollingInv is an invariant.                                             *)
(***************************************************************************)
LEMMA PollingStart == ConfigInit => PollingInv
  BY NoOpIsOp DEF ConfigInit, PollingInv, WaitsForStop, IsPolling

LEMMA PollingStep ==
  ASSUME PollingInv, [ConfigNext]_configVars
  PROVE  PollingInv'
<1> SUFFICES ASSUME ConfigNext PROVE PollingInv'
  BY DEF configVars, PollingInv, WaitsForStop
<1> USE DEF At
<1>0. IsOp(op) /\ IsPolling(polling)
  BY DEF PollingInv
<1>1. CASE StartPolling
  <2>1. Steady
    BY <1>1, NothingStops, StartedIsSteady DEF StartPolling
  <2> QED BY <1>1, <1>0, <2>1, SteadyKeeps DEF StartPolling
<1>2. CASE StopPolling
  <2>1. IsPolling(polling) /\ polling.stopping = {}
    BY <1>2, NothingStops DEF StopPolling
  <2>2. IsPolling(polling') /\ polling'.active = NoService
    BY <1>2, <2>1, DetachedIsPolling DEF StopPolling
  <2>3. IsOp(op') /\ op'.kind = "stop" /\ op'.stage = "draining"
    BY <1>2 DEF StopPolling, NoOp, IsOp
  <2> QED BY <2>2, <2>3 DEF PollingInv, WaitsForStop
<1>3. CASE ServiceStops
  <2>1. Steady
    BY <1>3, <1>0 DEF ServiceStops, IsPolling, Steady
  <2> QED BY <1>3, <1>0, <2>1, SteadyKeeps DEF ServiceStops
<1>4. CASE Drained
  <2>1. Steady
    BY <1>4, <1>0 DEF Drained, Steady
  <2>2. IsOp(op')
    BY <1>4, <1>0, NoOpIsOp, OpUpdates DEF Drained
  <2> QED BY <2>1, <2>2, SteadyKeeps
<1>5. CASE FailApply
  <2>1. IsPolling(polling) /\ polling.stopping = {}
    BY <1>5, NothingStops DEF FailApply
  <2>2. Started \/ NotStarted \/ UNCHANGED polling \/ polling' = [polling EXCEPT !.wanted = FALSE]
    BY <1>5 DEF FailApply
  <2>3. Steady
    BY <2>1, <2>2, StartedIsSteady, WantedIsSteady DEF Steady
  <2>4. IsOp(op')
    BY <1>5, <1>0, OpGoesOn DEF FailApply
  <2> QED BY <2>3, <2>4, SteadyKeeps
<1>6. CASE StartAgain
  <2>1. IsPolling(polling) /\ polling.stopping = {}
    BY <1>6, NothingStops DEF StartAgain
  <2>2. Started \/ NotStarted \/ polling' = [polling EXCEPT !.wanted = FALSE]
    BY <1>6 DEF StartAgain
  <2>3. Steady
    BY <2>1, <2>2, StartedIsSteady, WantedIsSteady
  <2>4. Finished \/ Keep("bank") \/ op' = [op EXCEPT !.stage = "restore", !.cause = "start"]
    BY <1>6 DEF StartAgain
  <2>5. IsOp(op')
    BY <2>4, <1>0, OpGoesOn
  <2> QED BY <2>3, <2>5, SteadyKeeps
<1>7. ASSUME NEW v \in {0, 1}, BeginEdit(v) PROVE PollingInv'
  <2>1. IsPolling(polling) /\ polling.stopping = {}
    BY <1>7, NothingStops DEF BeginEdit, ReadyToChange
  <2>2. /\ IsPolling(polling') /\ polling'.active = NoService
        /\ polling'.stopping # {} => polling.active # NoService
    BY <1>7, <2>1, DetachedIsPolling DEF BeginEdit
  <2>3. /\ IsOp(op') /\ op'.kind = "edit"
        /\ polling.active # NoService => op'.stage = "draining"
    BY <1>7, BegunIsOp DEF BeginEdit
  <2> QED BY <2>2, <2>3 DEF PollingInv, WaitsForStop
<1>8. ASSUME NEW c \in Configs, BeginImport(c) PROVE PollingInv'
  <2>1. IsPolling(polling) /\ polling.stopping = {}
    BY <1>8, NothingStops DEF BeginImport, AllFree
  <2>2. /\ IsPolling(polling') /\ polling'.active = NoService
        /\ polling'.stopping # {} => polling.active # NoService
    BY <1>8, <2>1, DetachedIsPolling DEF BeginImport
  <2>3. /\ IsOp(op') /\ op'.kind = "import"
        /\ polling.active # NoService => op'.stage = "draining"
    BY <1>8, BegunIsOp DEF BeginImport
  <2> QED BY <2>2, <2>3 DEF PollingInv, WaitsForStop
<1>9. CASE BeginReset
  <2>1. IsPolling(polling) /\ polling.stopping = {}
    BY <1>9, NothingStops DEF BeginReset, AllFree
  <2>2. IsPolling(polling') /\ polling'.active = NoService
    BY <1>9, <2>1, DetachedIsPolling DEF BeginReset
  <2>3. PICK b, t : b = Begun("reset", Factory, Former) /\ op' = [b EXCEPT !.stage = "draining", !.todo = t]
    BY <1>9 DEF BeginReset
  <2>4. IsOp(op') /\ op'.kind = "reset" /\ op'.stage = "draining"
    <3>1. IsOp(b) /\ b.kind = "reset"
      BY <2>3, BegunIsOp
    <3> QED BY <2>3, <3>1 DEF IsOp
  <2> QED BY <2>2, <2>4 DEF PollingInv, WaitsForStop
<1>10. ASSUME NEW v \in {0, 1}, EditChannels(v) PROVE PollingInv'
  <2>1. Steady
    BY <1>10, NothingStops, WantedIsSteady DEF EditChannels, ReadyToChange
  <2> QED BY <1>10, <1>0, <2>1, SteadyKeeps DEF EditChannels
<1>11. CASE \/ Prepare \/ ReloadFails \/ Adopt \/ AdoptBack \/ ReloadBackFails
            \/ SaveMasters \/ RestoreMasters
  <2>1. op.stage # "draining" /\ UNCHANGED polling
    BY <1>11 DEF Prepare, ReloadFails, Adopt, AdoptBack, ReloadBackFails, SaveMasters, RestoreMasters
  <2>2. Steady
    BY <2>1, NothingStops DEF Steady
  <2>3. IsOp(op')
    BY <1>11, <1>0, OpGoesOn DEF Prepare, ReloadFails, Adopt, AdoptBack, ReloadBackFails,
                                SaveMasters, RestoreMasters
  <2> QED BY <2>2, <2>3, SteadyKeeps
<1>12. CASE \/ ImportStore \/ ImportRestore \/ ImportBankBack \/ ImportListensBack
            \/ ResetSaves \/ ResetBank \/ ResetSrvBack \/ ResetMapsBack \/ ResetServerBack \/ ResetEnds
  <2>1. op.stage # "draining" /\ UNCHANGED polling
    BY <1>12 DEF ImportStore, ImportRestore, ImportBankBack, ImportListensBack, ResetSaves, ResetBank,
                ResetSrvBack, ResetMapsBack, ResetServerBack, ResetEnds
  <2>2. Steady
    BY <2>1, NothingStops DEF Steady
  <2>3. \/ Finished \/ (\E s : Keep(s)) \/ (\E g : Failing(g))
        \/ (\E s : op' = [op EXCEPT !.stage = s]) \/ (\E t : op' = [op EXCEPT !.todo = t])
    BY <1>12 DEF ImportStore, ImportRestore, ImportBankBack, ImportListensBack, ResetSaves, ResetBank,
                ResetSrvBack, ResetMapsBack, ResetServerBack, ResetEnds
  <2>4. IsOp(op')
    BY <1>0, <2>3, OpGoesOn
  <2> QED BY <2>2, <2>4, SteadyKeeps
<1>13. CASE ImportBank \/ ImportListens
  <2>1. op.stage # "draining" /\ op.kind # "none"
    BY <1>13 DEF ImportBank, ImportListens
  <2>2. CASE UndoForModbus
    BY <2>1, <2>2, UndoKeeps
  <2>3. CASE ~UndoForModbus
    <3>1. UNCHANGED polling /\ (Finished \/ \E s : Keep(s))
      BY <1>13, <2>3 DEF ImportBank, ImportListens
    <3>2. Steady
      BY <2>1, <3>1, NothingStops DEF Steady
    <3> QED BY <1>0, <3>1, <3>2, OpGoesOn, SteadyKeeps
  <2> QED BY <2>2, <2>3
<1>14. CASE \/ ServerListens \/ ServerUnstored \/ ServerBack
            \/ MappingReloads \/ MappingUnstored \/ MappingBack
            \/ (\E v \in {0, 1} : ApplyServer(v) \/ EditMapping(v))
  <2>1. UNCHANGED <<op, polling>>
    BY <1>14 DEF ServerListens, ServerUnstored, ServerBack, MappingReloads, MappingUnstored, MappingBack,
                ApplyServer, EditMapping, CollectionUnchanged
  <2> QED BY <2>1 DEF PollingInv, WaitsForStop
<1>15. CASE (\E v \in Times : SaveTime(v)) \/ AdoptTime \/ UnstoreTime
  <2>1. UNCHANGED <<op, polling>>
    BY <1>15 DEF SaveTime, AdoptTime, UnstoreTime
  <2> QED BY <2>1 DEF PollingInv, WaitsForStop
<1>16. CASE RestartConfig
  <2>1. Steady /\ op' = NoOp
    BY <1>16 DEF RestartConfig, Loaded, Steady, IsPolling
  <2> QED BY <2>1, NoOpIsOp, SteadyKeeps
<1> QED
  BY <1>1, <1>2, <1>3, <1>4, <1>5, <1>6, <1>7, <1>8, <1>9, <1>10, <1>11, <1>12, <1>13, <1>14, <1>15,
     <1>16 DEF ConfigNext

LEMMA PollingHolds == ConfigSpec => []PollingInv
  BY PollingStart, PollingStep, PTL DEF ConfigSpec

(* However edits, imports, factory resets, starts, stops, failures and     *)
(* restarts follow one another, no polling service is started while one    *)
(* before it still talks to the devices.                                   *)
THEOREM PollingStaysExclusive == ConfigSpec => []PollingIsExclusive
<1>1. PollingInv => PollingIsExclusive
  BY DEF PollingInv, WaitsForStop, PollingIsExclusive
<1> QED BY <1>1, PollingHolds, PTL

-----------------------------------------------------------------------------
(* Configurations, and what is read of them.                               *)
Fields == {"time", "masters", "channels", "srv", "maps"}

IsConfig(c) ==
  /\ c = [masters |-> c.masters, channels |-> c.channels, time |-> c.time, srv |-> c.srv, maps |-> c.maps]
  /\ c.masters \in {0, 1}

IsCollected(c) ==
  /\ c = [masters |-> c.masters, channels |-> c.channels, time |-> c.time]
  /\ c.masters \in {0, 1}

IsNorth(n) == n = [srv |-> n.srv, maps |-> n.maps, bank |-> n.bank]
IsServer(s) == s = [listening |-> s.listening, srv |-> s.srv, bank |-> s.bank]
IsMgmt(g) == g = [by |-> g.by, stage |-> g.stage, next |-> g.next, prev |-> g.prev]

(* Which operations have which stages, and what they may have to undo.     *)
Undoing == {"reload", "start", "modbus"}

StageInv(o, g) ==
  /\ o.kind \in {"none", "stop", "edit", "import", "reset"}
  /\ o.kind = "none" <=> o.stage = "none"
  /\ o.kind = "stop" => o.stage = "draining"
  /\ o.kind = "edit" =>
       o.stage \in {"draining", "save", "reload", "adopt", "start", "restore", "fail"}
  /\ o.kind = "import" =>
       \/ /\ o.stage \in {"draining", "save", "reload", "adopt", "start", "bank", "listen", "fail"}
          /\ o.cause = "none"
       \/ o.stage \in {"restore", "reloadBack", "adoptBack", "fail"} /\ o.cause \in Undoing
       \/ o.stage \in {"draining", "bankBack", "listenBack"} /\ o.cause = "modbus"
  /\ o.kind = "reset" =>
       o.stage \in {"draining", "save", "reload", "adopt", "cleanup", "srvBack", "mapsBack",
                    "serverBack", "fail"}
  /\ o.kind # "import" => o.cause = "none"
  /\ o.kind \in {"import", "reset"} \/ g.by \in {"import", "reset"} => g.by = o.kind
  /\ \/ g.by \in {"nobody", "import", "reset"}
     \/ g.by = "server" /\ g.stage \in {"listen", "undo", "back"}
     \/ g.by = "mapping" /\ g.stage \in {"bank", "undo", "back"}

ConfigShape ==
  /\ IsConfig(stored) /\ IsCollected(running) /\ IsPolling(polling) /\ IsNorth(north)
  /\ IsServer(server) /\ IsOp(op) /\ IsMgmt(mgmt)
  /\ IsConfig(op.next) /\ IsConfig(op.prev) /\ IsCollected(op.read)
  /\ op.todo \in Seq(Fields)
  /\ op.good \in BOOLEAN /\ op.was \in BOOLEAN /\ polling.wanted \in BOOLEAN
  /\ server.listening \in BOOLEAN

-----------------------------------------------------------------------------
(* What is collected.  Between two operations, before one has stored       *)
(* anything and after it has taken over what it stored, what runs is what  *)
(* is stored; in between, an edit and an import know what ran before.      *)
InForce == running.masters = stored.masters /\ running.channels = stored.channels

Early == op.stage \in {"draining", "save"} /\ op.cause = "none"

Kept ==
  \/ op.kind \in {"none", "stop"}
  \/ op.kind \in {"edit", "import"} /\ Early
  \/ op.stage \in {"start", "bank", "listen", "cleanup"}
  \/ op.stage \in {"bankBack", "listenBack", "fail"} /\ op.good

(* Before an import takes over what it has stored.                         *)
Unadopted ==
  Early \/ op.stage \in {"reload", "adopt"} \/ (op.stage = "restore" /\ op.cause = "reload")

CollectionInv ==
  /\ Kept /\ "collection" \notin unsettled => InForce
  /\ op.stage \in {"adopt", "adoptBack"} =>
       op.read.masters = stored.masters /\ op.read.channels = stored.channels
  /\ op.kind = "edit" /\ (Early \/ op.stage \in {"reload", "adopt", "restore"}) =>
       /\ running.masters = op.prev.masters
       /\ "collection" \notin unsettled => running.channels = stored.channels
  /\ op.kind = "import" /\ Unadopted =>
       running.masters = op.prev.masters /\ running.channels = op.prev.channels
  /\ op.stage = "reloadBack" /\ op.cause = "reload" => InForce

(* The service that runs.                                                  *)
ServiceInv ==
  /\ IF op.kind = "none" \/ op.stage \in {"bank", "listen"}
     THEN /\ polling.active \in {NoService, running.masters}
          /\ polling.wanted /\ "polling" \notin unsettled => polling.active # NoService
     ELSE polling.active = NoService
  /\ op.kind \in {"stop", "reset"} => ~polling.wanted

-----------------------------------------------------------------------------
(* The Modbus server.  Once an operator was told of it, nothing is claimed *)
(* before the next start.                                                  *)
ServedAs(srv, maps) ==
  /\ north.srv = srv /\ north.maps = maps /\ fed.maps = maps
  /\ server.listening <=> srv # 0
  /\ north.bank = fed
  /\ server.listening => server.bank = fed /\ server.srv = srv

Mapped(maps) == north.maps = maps /\ fed.maps = maps /\ north.bank = fed

ServerInv ==
  mgmt.by = "server" =>
    /\ Mapped(stored.maps)
    /\ mgmt.stage \in {"listen", "undo"} => stored.srv = mgmt.next
    /\ mgmt.stage = "back" => stored.srv = mgmt.prev

MappingInv ==
  mgmt.by = "mapping" =>
    /\ mgmt.stage \in {"bank", "undo"} => ServedAs(stored.srv, mgmt.prev)
    /\ mgmt.stage = "back" => ServedAs(stored.srv, stored.maps)

ImportInv ==
  op.kind = "import" =>
    /\ Early => ServedAs(stored.srv, stored.maps) /\ north.srv = op.prev.srv /\ north.maps = op.prev.maps
    /\ \/ op.stage \in {"reload", "adopt", "start", "bank"}
       \/ op.stage = "restore" /\ op.cause # "modbus"
       => ServedAs(op.prev.srv, op.prev.maps)
    /\ op.stage \in {"reload", "adopt", "start", "bank", "listen"} =>
         stored.srv = op.next.srv /\ stored.maps = op.next.maps
    /\ op.stage = "listen" => Mapped(stored.maps) /\ north.srv = stored.srv
    /\ op.stage \in {"reloadBack", "adoptBack"} /\ op.cause # "modbus" =>
         ServedAs(stored.srv, stored.maps)
    /\ op.stage \in {"reloadBack", "adoptBack", "bankBack", "listenBack"} /\ op.cause = "modbus" =>
         stored.srv = op.prev.srv /\ north.srv = stored.srv
    /\ op.stage = "listenBack" => Mapped(stored.maps)
    /\ op.stage = "fail" => ServedAs(stored.srv, stored.maps)

In(field, todo) == \E i \in 1 .. Len(todo) : todo[i] = field

Left(field) == In(field, op.todo)

ResetInv ==
  op.kind = "reset" =>
    /\ op.stage \in {"draining", "save", "srvBack", "mapsBack", "serverBack"} =>
         Mapped(op.prev.maps) /\ north.srv = op.prev.srv
    /\ op.stage \in {"draining", "save"} =>
         /\ ~Left("srv") => stored.srv = 0
         /\ ~Left("maps") => stored.maps = 0
    /\ op.stage \in {"mapsBack", "serverBack"} => stored.srv = op.prev.srv
    /\ op.stage = "serverBack" => stored.maps = op.prev.maps
    /\ op.stage \in {"reload", "adopt", "cleanup"} =>
         stored.srv = 0 /\ stored.maps = 0 /\ fed.maps = 0 /\ ~server.listening
    /\ op.stage = "fail" => ServedAs(stored.srv, stored.maps)

ModbusInv ==
  "modbus" \notin unsettled =>
    /\ mgmt.by = "nobody" => ServedAs(stored.srv, stored.maps)
    /\ ServerInv /\ MappingInv /\ ImportInv /\ ResetInv

ConfigInv ==
  ConfigShape /\ StageInv(op, mgmt) /\ CollectionInv /\ ServiceInv /\ ModbusInv

-----------------------------------------------------------------------------
(* What the parts of actions do.                                           *)
OpGoes(s, c, g) ==
  /\ IsOp(op') /\ op'.kind = op.kind /\ op'.was = op.was /\ op'.next = op.next /\ op'.prev = op.prev
  /\ op'.read = op.read /\ op'.todo = op.todo
  /\ op'.stage = s /\ op'.cause = c /\ op'.good = g

LEMMA KeepIs ==
  ASSUME IsOp(op), NEW s, Keep(s) \/ op' = [op EXCEPT !.stage = s]
  PROVE  OpGoes(s, op.cause, op.good)
<1>1. op' = [op EXCEPT !.stage = s]
  BY DEF Keep
<1> QED BY <1>1 DEF IsOp, OpGoes

LEMMA FailingIs ==
  ASSUME IsOp(op), NEW g, Failing(g)
  PROVE  OpGoes("fail", op.cause, g)
<1>1. op' = [op EXCEPT !.stage = "fail", !.good = g]
  BY DEF Failing
<1> QED BY <1>1 DEF IsOp, OpGoes

LEMMA CausedIs ==
  ASSUME IsOp(op), NEW s, NEW c, op' = [op EXCEPT !.stage = s, !.cause = c]
  PROVE  OpGoes(s, c, op.good)
BY DEF IsOp, OpGoes

LEMMA FailedIs ==
  ASSUME IsOp(op), NEW s, NEW g, op' = [op EXCEPT !.stage = s, !.good = g]
  PROVE  OpGoes(s, op.cause, g)
BY DEF IsOp, OpGoes

LEMMA NoOpIs ==
  /\ IsOp(NoOp) /\ NoOp.kind = "none" /\ NoOp.stage = "none" /\ NoOp.cause = "none"
  /\ NoOp.good = TRUE /\ NoOp.was = FALSE /\ NoOp.todo = <<>> /\ <<>> \in Seq(Fields)
  /\ IsConfig(NoOp.next) /\ IsConfig(NoOp.prev) /\ IsCollected(NoOp.read)
<1>1. IsConfig(Factory) /\ IsCollected(Collected(Factory))
  BY DEF Factory, Collected, IsConfig, IsCollected
<1>2. <<>> \in Seq(Fields)
  OBVIOUS
<1> HIDE DEF Factory, Collected
<1> QED BY <1>1, <1>2 DEF NoOp, IsOp

LEMMA NoMgmtIs == IsMgmt(NoMgmt) /\ NoMgmt.by = "nobody"
BY DEF NoMgmt, IsMgmt

LEMMA MgmtIs ==
  ASSUME NEW by, mgmt' = [NoMgmt EXCEPT !.by = by]
  PROVE  IsMgmt(mgmt') /\ mgmt'.by = by
BY DEF NoMgmt, IsMgmt

LEMMA StartedIs ==
  ASSUME IsPolling(polling), Started
  PROVE  /\ IsPolling(polling') /\ polling'.active = running.masters /\ polling'.wanted = TRUE
         /\ unsettled' = unsettled \ {"polling"} /\ running.masters # 0
BY DEF Started, IsPolling, HasTarget

LEMMA NotStartedIs ==
  ASSUME NotStarted
  PROVE  UNCHANGED polling /\ unsettled' = unsettled \cup {"polling"}
BY DEF NotStarted

LEMMA WantedIs ==
  ASSUME IsPolling(polling), NEW w, polling' = [polling EXCEPT !.wanted = w]
  PROVE  IsPolling(polling') /\ polling'.active = polling.active /\ polling'.wanted = w
BY DEF IsPolling

LEMMA DetachedIs ==
  ASSUME IsPolling(polling)
  PROVE  /\ IsPolling(Detached) /\ Detached.active = NoService /\ Detached.wanted = polling.wanted
         /\ \A w, p : p = [Detached EXCEPT !.wanted = w] =>
              IsPolling(p) /\ p.active = NoService /\ p.wanted = w
<1> DEFINE d == Detached
           stop == polling.stopping \cup ({polling.active} \ {NoService})
<1>1. d = [polling EXCEPT !.active = NoService, !.stopping = stop]
  BY DEF Detached, IsPolling
<1> HIDE DEF d, stop
<1>2. IsPolling(d) /\ d.active = NoService /\ d.wanted = polling.wanted
  BY <1>1 DEF IsPolling
<1>3. ASSUME NEW w, NEW p, p = [d EXCEPT !.wanted = w]
      PROVE  IsPolling(p) /\ p.active = NoService /\ p.wanted = w
  BY <1>2, <1>3 DEF IsPolling
<1>4. d = Detached
  BY DEF d
<1> QED BY <1>2, <1>3, <1>4

IsBegun(b, kind, next, prev) ==
  /\ IsOp(b) /\ b.kind = kind /\ b.next = next /\ b.prev = prev /\ b.read = NoOp.read
  /\ b.cause = "none" /\ b.good = TRUE /\ b.todo = <<>> /\ b.was \in BOOLEAN
  /\ b.stage \in {"draining", "save"}

LEMMA BegunIs ==
  ASSUME NEW kind, NEW next, NEW prev
  PROVE  IsBegun(Begun(kind, next, prev), kind, next, prev)
BY DEF Begun, IsOp, NoOp, IsBegun

LEMMA FormerIs ==
  ASSUME ConfigShape
  PROVE  /\ IsConfig(Former) /\ Former.masters = running.masters /\ Former.channels = running.channels
         /\ Former.srv = north.srv /\ Former.maps = north.maps
BY DEF Former, IsConfig, ConfigShape, IsCollected

LEMMA FactoryIs ==
  /\ IsConfig(Factory)
  /\ \A v \in {0, 1} : \A f : f = [Factory EXCEPT !.masters = v] => IsConfig(f) /\ f.masters = v
BY DEF Factory, IsConfig

LEMMA CollectedIs ==
  ASSUME NEW c, IsConfig(c)
  PROVE  /\ IsCollected(Collected(c)) /\ Collected(c).masters = c.masters
         /\ Collected(c).channels = c.channels
BY DEF IsConfig, IsCollected, Collected

LEMMA NewBankIs == ASSUME NEW maps PROVE NewBank(maps).maps = maps
BY DEF NewBank

LEMMA ListensIs ==
  ASSUME NEW srv, NEW bank, Listens(srv, bank)
  PROVE  /\ IsServer(server') /\ server'.listening \in BOOLEAN
         /\ server'.listening <=> srv # 0
         /\ server'.srv = srv /\ server'.bank = bank
BY DEF Listens, IsServer

LEMMA ListenFailsIs ==
  ASSUME NEW srv, NEW bank, ListenFails(srv, bank)
  PROVE  IsServer(server') /\ server'.listening = FALSE /\ srv # 0
BY DEF ListenFails, IsServer

LEMMA StoppedIs ==
  ASSUME IsServer(server), Stopped
  PROVE  IsServer(server') /\ server'.listening = FALSE
BY DEF Stopped, IsServer

LEMMA BankReloadedIs ==
  ASSUME IsServer(server), IsNorth(north), BankReloaded
  PROVE  /\ IsServer(server') /\ server'.listening = server.listening /\ server'.srv = server.srv
         /\ server'.bank = fed'
         /\ IsNorth(north') /\ north'.srv = north.srv /\ north'.maps = stored.maps /\ north'.bank = fed'
         /\ fed'.maps = stored.maps
<1>1. PICK bank : bank = NewBank(stored.maps)
  OBVIOUS
<1>2. bank.maps = stored.maps
  BY <1>1, NewBankIs
<1>3. /\ fed' = bank
      /\ server' = [server EXCEPT !.bank = bank]
      /\ north' = [north EXCEPT !.maps = stored.maps, !.bank = bank]
  BY <1>1 DEF BankReloaded
<1> QED BY <1>2, <1>3 DEF IsServer, IsNorth

(* What the settings of the server and of the time do not touch, ...       *)
LEMMA CollectionAside ==
  ASSUME CollectionInv, ServiceInv, UNCHANGED <<op, polling>>,
         running'.masters = running.masters, running'.channels = running.channels,
         stored'.masters = stored.masters, stored'.channels = stored.channels,
         unsettled \subseteq unsettled'
  PROVE  CollectionInv' /\ ServiceInv'
BY DEF CollectionInv, ServiceInv, Kept, Unadopted, Early, InForce

(* ... and what edits do not.                                              *)
LEMMA ModbusAside ==
  ASSUME ModbusInv, UNCHANGED <<north, fed, server, mgmt>>,
         op.kind \notin {"import", "reset"}, op'.kind \notin {"import", "reset"},
         stored'.srv = stored.srv, stored'.maps = stored.maps,
         "modbus" \notin unsettled' => "modbus" \notin unsettled
  PROVE  ModbusInv'
BY DEF ModbusInv, ServerInv, MappingInv, ImportInv, ResetInv, ServedAs, Mapped

LEMMA InTail ==
  ASSUME NEW t \in Seq(Fields), t # <<>>
  PROVE  /\ Head(t) \in Fields /\ Tail(t) \in Seq(Fields)
         /\ \A field : In(field, t) /\ Head(t) # field => In(field, Tail(t))
<1>1. /\ Head(t) \in Fields /\ Tail(t) \in Seq(Fields) /\ Len(Tail(t)) = Len(t) - 1
      /\ \A i \in 1 .. Len(Tail(t)) : Tail(t)[i] = t[i + 1]
  BY HeadTailProperties
<1>2. Head(t) = t[1] /\ Len(t) \in Nat
  OBVIOUS
<1>3. ASSUME NEW field, In(field, t), Head(t) # field
      PROVE  In(field, Tail(t))
  <2>1. PICK i \in 1 .. Len(t) : t[i] = field
    BY <1>3 DEF In
  <2>2. i - 1 \in 1 .. Len(Tail(t)) /\ Tail(t)[i - 1] = field
    BY <1>1, <1>2, <1>3, <2>1
  <2> QED BY <2>2 DEF In
<1> QED BY <1>1, <1>3


(* Starting and stopping polling.                                          *)
LEMMA PollingKeeps ==
  ASSUME ConfigInv,
         \/ StartPolling
         \/ StopPolling
         \/ ServiceStops
         \/ Drained
  PROVE  ConfigInv'
<1>0. /\ ConfigShape /\ StageInv(op, mgmt) /\ CollectionInv /\ ServiceInv /\ ModbusInv
      /\ IsConfig(stored) /\ IsCollected(running) /\ IsPolling(polling) /\ IsNorth(north)
      /\ IsServer(server) /\ IsOp(op) /\ IsMgmt(mgmt)
  BY DEF ConfigInv, ConfigShape
<1>1. CASE StartPolling
  <2>1. op.kind = "none" /\ Started /\ UNCHANGED <<stored, running, op, mgmt, north, fed, server>>
    BY <1>1 DEF StartPolling, NorthUnchanged
  <2>2. /\ IsPolling(polling') /\ polling'.active = running.masters /\ polling'.wanted = TRUE
        /\ unsettled' = unsettled \ {"polling"}
    BY <1>0, <2>1, StartedIs
  <2>3. ConfigShape'
    BY <1>0, <2>1, <2>2 DEF ConfigShape
  <2>4. StageInv(op', mgmt')
    BY <1>0, <2>1
  <2>5. CollectionInv'
    BY <1>0, <2>1, <2>2 DEF CollectionInv, Kept, InForce
  <2>6. ServiceInv'
    BY <1>0, <2>1, <2>2 DEF ServiceInv, NoService, IsCollected
  <2>7. ModbusInv'
    BY <1>0, <2>1, <2>2
       DEF ModbusInv, ServerInv, MappingInv, ImportInv, ResetInv, ServedAs, Mapped
  <2> QED BY <2>3, <2>4, <2>5, <2>6, <2>7 DEF ConfigInv
<1>2. CASE StopPolling
  <2>1. op.kind = "none" /\ UNCHANGED <<stored, running, mgmt, unsettled, north, fed, server>>
    BY <1>2 DEF StopPolling, NorthUnchanged
  <2>2. IsPolling(polling') /\ polling'.active = NoService /\ polling'.wanted = FALSE
    BY <1>0, <1>2, DetachedIs DEF StopPolling
  <2>3. op' = [NoOp EXCEPT !.kind = "stop", !.stage = "draining"]
    BY <1>2 DEF StopPolling
  <2>4. /\ IsOp(op') /\ op'.kind = "stop" /\ op'.stage = "draining" /\ op'.cause = "none"
        /\ op'.good = TRUE /\ op'.was = FALSE /\ op'.todo = <<>> /\ <<>> \in Seq(Fields)
        /\ IsConfig(op'.next) /\ IsConfig(op'.prev) /\ IsCollected(op'.read)
    BY <2>3, NoOpIs DEF IsOp
  <2>5. ConfigShape'
    BY <1>0, <2>1, <2>2, <2>4 DEF ConfigShape
  <2>6. StageInv(op', mgmt')
    BY <1>0, <2>1, <2>4 DEF StageInv
  <2>7. CollectionInv'
    BY <1>0, <2>1, <2>3 DEF CollectionInv, Kept, InForce
  <2>8. ServiceInv'
    BY <2>2 DEF ServiceInv
  <2>9. ModbusInv'
    BY <1>0, <2>1, <2>3, ModbusAside
  <2> QED BY <2>5, <2>6, <2>7, <2>8, <2>9 DEF ConfigInv
<1>3. CASE ServiceStops
  <2>1. UNCHANGED <<stored, running, op, mgmt, unsettled, north, fed, server>>
    BY <1>3 DEF ServiceStops, NorthUnchanged
  <2>2. IsPolling(polling') /\ polling'.active = polling.active /\ polling'.wanted = polling.wanted
    BY <1>0, <1>3 DEF ServiceStops, IsPolling
  <2>3. /\ Left("srv")' <=> Left("srv")
        /\ Left("maps")' <=> Left("maps")
    BY <2>1 DEF Left
  <2>4. ConfigShape'
    BY <1>0, <2>1, <2>2 DEF ConfigShape
  <2>5. StageInv(op', mgmt')
    BY <1>0, <2>1
  <2>6. CollectionInv'
    BY <1>0, <2>1 DEF CollectionInv, Kept, Unadopted, Early, InForce
  <2>7. ServiceInv'
    BY <1>0, <2>1, <2>2 DEF ServiceInv
  <2>8. ModbusInv'
    BY <1>0, <2>1, <2>3
       DEF ModbusInv, ServerInv, MappingInv, ImportInv, ResetInv, Early, ServedAs, Mapped
  <2> QED BY <2>4, <2>5, <2>6, <2>7, <2>8 DEF ConfigInv
<1>4. CASE Drained
  <2>1. /\ op.stage = "draining" /\ UNCHANGED <<stored, running, polling, mgmt, unsettled, north, fed, server>>
    BY <1>4 DEF Drained, NorthUnchanged
  <2>2. \/ op.kind = "stop" /\ op' = NoOp
        \/ op.kind # "stop" /\ op.cause = "modbus" /\ OpGoes("restore", op.cause, op.good)
        \/ op.kind # "stop" /\ op.cause # "modbus" /\ OpGoes("save", op.cause, op.good)
    BY <1>0, <1>4, KeepIs DEF Drained
  <2>3. NoOpIs
    BY NoOpIs
  <2>4. op.kind # "stop" => op'.todo = op.todo
    BY <2>2 DEF OpGoes
  <2>5. op.kind # "stop" => (Left("srv")' <=> Left("srv")) /\ (Left("maps")' <=> Left("maps"))
    BY <2>4 DEF Left
  <2>6. ConfigShape'
    BY <1>0, <2>1, <2>2, <2>3 DEF ConfigShape, OpGoes
  <2>7. StageInv(op', mgmt')
    BY <1>0, <2>1, <2>2, <2>3 DEF StageInv, OpGoes, Undoing
  <2>8. CollectionInv'
    BY <1>0, <2>1, <2>2, <2>3
       DEF StageInv, OpGoes, CollectionInv, Kept, Unadopted, Early, InForce
  <2>9. ServiceInv'
    BY <1>0, <2>1, <2>2 DEF OpGoes, ServiceInv
  <2>10. ModbusInv'
    BY <1>0, <2>1, <2>2, <2>3, <2>5
       DEF OpGoes, ModbusInv, ServerInv, MappingInv, ImportInv, ResetInv, Early, ServedAs,
           Mapped
  <2> QED BY <2>6, <2>7, <2>8, <2>9, <2>10 DEF ConfigInv
<1> QED BY <1>1, <1>2, <1>3, <1>4

(* The stages all operations share.                                        *)
LEMMA ApplyingKeeps ==
  ASSUME ConfigInv,
         \/ FailApply
         \/ Prepare
         \/ ReloadFails
         \/ Adopt
         \/ AdoptBack
         \/ ReloadBackFails
         \/ StartAgain
  PROVE  ConfigInv'
<1>0. /\ ConfigShape /\ StageInv(op, mgmt) /\ CollectionInv /\ ServiceInv /\ ModbusInv
      /\ IsConfig(stored) /\ IsCollected(running) /\ IsPolling(polling) /\ IsNorth(north)
      /\ IsServer(server) /\ IsOp(op) /\ IsMgmt(mgmt)
  BY DEF ConfigInv, ConfigShape
<1>1. CASE FailApply
  <2>1. /\ op.stage = "fail" /\ Finished /\ UNCHANGED <<stored, running, north, fed, server>>
        /\ op' = NoOp /\ mgmt' = IF mgmt.by \in {"import", "reset"} THEN NoMgmt ELSE mgmt
    BY <1>1 DEF FailApply, Finished, NorthUnchanged
  <2>2. \/ /\ ~op.good /\ unsettled' = unsettled \cup {"collection", "polling"} /\ UNCHANGED polling
        \/ op.good /\ (Started \/ NotStarted)
        \/ op.good /\ polling' = [polling EXCEPT !.wanted = FALSE] /\ UNCHANGED unsettled
    BY <1>1 DEF FailApply
  <2>3. /\ IsPolling(polling') /\ polling'.wanted \in BOOLEAN
        /\ \/ ~op.good /\ unsettled' = unsettled \cup {"collection", "polling"} /\ UNCHANGED polling
           \/ op.good /\ polling'.active = running.masters /\ unsettled' = unsettled \ {"polling"}
           \/ op.good /\ UNCHANGED polling /\ unsettled' = unsettled \cup {"polling"}
           \/ /\ op.good /\ polling'.active = polling.active /\ polling'.wanted = FALSE
              /\ UNCHANGED unsettled
    BY <1>0, <2>2, StartedIs, NotStartedIs, WantedIs DEF ConfigShape
  <2>4. NoOpIs /\ NoMgmtIs
    BY NoOpIs, NoMgmtIs
  <2>5. ConfigShape'
    BY <1>0, <2>1, <2>3, <2>4 DEF ConfigShape
  <2>6. StageInv(op', mgmt')
    BY <1>0, <2>1, <2>4 DEF StageInv
  <2>7. CollectionInv'
    BY <1>0, <2>1, <2>3, <2>4 DEF CollectionInv, Kept, InForce
  <2>8. ServiceInv'
    BY <1>0, <2>1, <2>3, <2>4 DEF ServiceInv, NoService, IsCollected
  <2>9. ModbusInv'
    BY <1>0, <2>1, <2>3, <2>4
       DEF StageInv, ModbusInv, ServerInv, MappingInv, ImportInv, ResetInv, ServedAs,
           Mapped
  <2> QED BY <2>5, <2>6, <2>7, <2>8, <2>9 DEF ConfigInv
<1>2. CASE Prepare
  <2>1. UNCHANGED <<stored, running, polling, mgmt, unsettled, north, fed, server>>
    BY <1>2 DEF Prepare, NorthUnchanged
  <2>2. /\ IsOp(op') /\ op'.kind = op.kind /\ op'.was = op.was /\ op'.next = op.next /\ op'.prev = op.prev
        /\ op'.todo = op.todo /\ op'.cause = op.cause /\ op'.good = op.good /\ op'.read = Collected(stored)
        /\ \/ op.stage = "reload" /\ op'.stage = "adopt"
           \/ op.stage = "reloadBack" /\ op'.stage = "adoptBack"
    BY <1>0, <1>2 DEF Prepare, IsOp
  <2>3. /\ IsCollected(op'.read) /\ op'.read.masters = stored.masters
        /\ op'.read.channels = stored.channels
    BY <1>0, <2>2, CollectedIs
  <2>4. ConfigShape'
    BY <1>0, <2>1, <2>2, <2>3 DEF ConfigShape
  <2>5. StageInv(op', mgmt')
    BY <1>0, <2>1, <2>2 DEF StageInv
  <2>6. CollectionInv'
    BY <1>0, <2>1, <2>2, <2>3 DEF CollectionInv, Kept, Unadopted, Early, InForce
  <2>7. ServiceInv'
    BY <1>0, <2>1, <2>2 DEF ServiceInv
  <2>8. ModbusInv'
    BY <1>0, <2>1, <2>2
       DEF ModbusInv, ServerInv, MappingInv, ImportInv, ResetInv, Early, ServedAs, Mapped
  <2> QED BY <2>4, <2>5, <2>6, <2>7, <2>8 DEF ConfigInv
<1>3. CASE ReloadFails
  <2>1. op.stage = "reload" /\ UNCHANGED <<stored, running, polling, mgmt, north, fed, server>>
    BY <1>3 DEF ReloadFails, Keep, NorthUnchanged
  <2>2. \/ op.kind = "edit" /\ OpGoes("restore", op.cause, op.good)
        \/ op.kind = "import" /\ OpGoes("restore", "reload", op.good)
        \/ op.kind = "reset" /\ OpGoes("fail", op.cause, FALSE)
    BY <1>0, <1>3, KeepIs, CausedIs, FailingIs DEF ReloadFails
  <2>3. unsettled' = IF op.kind = "reset" THEN unsettled \cup {"modbus"} ELSE unsettled
    BY <1>3 DEF ReloadFails
  <2>4. ConfigShape'
    BY <1>0, <2>1, <2>2 DEF ConfigShape, OpGoes
  <2>5. StageInv(op', mgmt')
    BY <1>0, <2>1, <2>2 DEF StageInv, OpGoes, Undoing
  <2>6. CollectionInv'
    BY <1>0, <2>1, <2>2, <2>3 DEF OpGoes, CollectionInv, Kept, Unadopted, Early
  <2>7. ServiceInv'
    BY <1>0, <2>1, <2>2 DEF OpGoes, ServiceInv
  <2>8. ModbusInv'
    BY <1>0, <2>1, <2>2, <2>3
       DEF OpGoes, ModbusInv, ServerInv, MappingInv, ImportInv, ResetInv, Early, ServedAs,
           Mapped
  <2> QED BY <2>4, <2>5, <2>6, <2>7, <2>8 DEF ConfigInv
<1>4. CASE Adopt
  <2>1. /\ op.stage = "adopt" /\ UNCHANGED <<stored, polling, mgmt, north, fed, server>>
        /\ running' = op.read /\ unsettled' = unsettled \ {"collection"}
    BY <1>4 DEF Adopt, Adopted, Keep, NorthUnchanged
  <2>2. \/ op.kind = "reset" /\ OpGoes("cleanup", op.cause, op.good)
        \/ op.kind # "reset" /\ OpGoes("start", op.cause, op.good)
    BY <1>0, <1>4, KeepIs DEF Adopt
  <2>3. ConfigShape'
    BY <1>0, <2>1, <2>2 DEF ConfigShape, OpGoes
  <2>4. StageInv(op', mgmt')
    BY <1>0, <2>1, <2>2 DEF StageInv, OpGoes
  <2>5. CollectionInv'
    BY <1>0, <2>1, <2>2 DEF OpGoes, CollectionInv, Unadopted, Early, InForce
  <2>6. ServiceInv'
    BY <1>0, <2>1, <2>2 DEF StageInv, OpGoes, ServiceInv
  <2>7. ModbusInv'
    BY <1>0, <2>1, <2>2
       DEF OpGoes, ModbusInv, ServerInv, MappingInv, ImportInv, ResetInv, Early, ServedAs,
           Mapped
  <2> QED BY <2>3, <2>4, <2>5, <2>6, <2>7 DEF ConfigInv
<1>5. CASE AdoptBack
  <2>1. /\ op.stage = "adoptBack" /\ UNCHANGED <<stored, polling, mgmt, north, fed, server>>
        /\ running' = op.read /\ unsettled' = unsettled \ {"collection"}
    BY <1>5 DEF AdoptBack, Adopted, Keep, NorthUnchanged
  <2>2. \/ op.cause = "modbus" /\ OpGoes("bankBack", op.cause, op.good)
        \/ op.cause # "modbus" /\ OpGoes("fail", op.cause, TRUE)
    BY <1>0, <1>5, KeepIs, FailingIs DEF AdoptBack
  <2>3. ConfigShape'
    BY <1>0, <2>1, <2>2 DEF ConfigShape, OpGoes
  <2>4. StageInv(op', mgmt')
    BY <1>0, <2>1, <2>2 DEF StageInv, OpGoes
  <2>5. CollectionInv'
    BY <1>0, <2>1, <2>2 DEF OpGoes, CollectionInv, Unadopted, Early, InForce
  <2>6. ServiceInv'
    BY <1>0, <2>1, <2>2 DEF StageInv, OpGoes, ServiceInv
  <2>7. ModbusInv'
    BY <1>0, <2>1, <2>2
       DEF StageInv, OpGoes, ModbusInv, ServerInv, MappingInv, ImportInv, ResetInv, Early,
           ServedAs
  <2> QED BY <2>3, <2>4, <2>5, <2>6, <2>7 DEF ConfigInv
<1>6. CASE ReloadBackFails
  <2>1. /\ op.stage = "reloadBack"
        /\ UNCHANGED <<stored, running, polling, mgmt, unsettled, north, fed, server>>
    BY <1>6 DEF ReloadBackFails, NorthUnchanged
  <2>2. \/ op.cause = "reload" /\ OpGoes("fail", op.cause, TRUE)
        \/ op.cause = "start" /\ OpGoes("fail", op.cause, FALSE)
        \/ op.cause = "modbus" /\ OpGoes("bankBack", op.cause, FALSE)
    BY <1>0, <1>6, FailedIs, FailingIs DEF ReloadBackFails
  <2>3. ConfigShape'
    BY <1>0, <2>1, <2>2 DEF ConfigShape, OpGoes
  <2>4. StageInv(op', mgmt')
    BY <1>0, <2>1, <2>2 DEF StageInv, OpGoes
  <2>5. CollectionInv'
    BY <1>0, <2>1, <2>2 DEF OpGoes, CollectionInv, Kept, Unadopted, Early, InForce
  <2>6. ServiceInv'
    BY <1>0, <2>1, <2>2 DEF OpGoes, ServiceInv
  <2>7. ModbusInv'
    BY <1>0, <2>1, <2>2
       DEF StageInv, OpGoes, ModbusInv, ServerInv, MappingInv, ImportInv, ResetInv, Early,
           ServedAs
  <2> QED BY <2>3, <2>4, <2>5, <2>6, <2>7 DEF ConfigInv
<1>7. CASE StartAgain
  <2>1. op.stage = "start" /\ UNCHANGED <<stored, running, north, fed, server>>
    BY <1>7 DEF StartAgain, NorthUnchanged
  <2>2. \/ Started
        \/ NotStarted
        \/ polling' = [polling EXCEPT !.wanted = FALSE] /\ UNCHANGED unsettled
    BY <1>7 DEF StartAgain
  <2>3. /\ IsPolling(polling') /\ polling'.wanted \in BOOLEAN
        /\ \/ polling'.active = running.masters /\ unsettled' = unsettled \ {"polling"}
           \/ UNCHANGED polling /\ unsettled' = unsettled \cup {"polling"}
           \/ polling'.active = polling.active /\ polling'.wanted = FALSE /\ UNCHANGED unsettled
    BY <1>0, <2>2, StartedIs, NotStartedIs, WantedIs DEF ConfigShape
  <2>4. \/ op.kind = "import" /\ OpGoes("bank", op.cause, op.good) /\ UNCHANGED mgmt
        \/ /\ op.kind = "import" /\ OpGoes("restore", "start", op.good) /\ UNCHANGED <<mgmt, polling>>
        \/ /\ op.kind # "import" /\ op' = NoOp
           /\ mgmt' = IF mgmt.by \in {"import", "reset"} THEN NoMgmt ELSE mgmt
    BY <1>0, <1>7, CausedIs DEF StartAgain, Keep, Finished, NotStarted
  <2>5. NoOpIs /\ NoMgmtIs
    BY NoOpIs, NoMgmtIs
  <2>6. ConfigShape'
    BY <1>0, <2>1, <2>3, <2>4, <2>5 DEF ConfigShape, OpGoes
  <2>7. StageInv(op', mgmt')
    BY <1>0, <2>1, <2>4, <2>5 DEF StageInv, OpGoes, Undoing
  <2>8. CollectionInv'
    BY <1>0, <2>1, <2>3, <2>4, <2>5
       DEF OpGoes, CollectionInv, Kept, Unadopted, Early, InForce
  <2>9. ServiceInv'
    BY <1>0, <2>1, <2>3, <2>4, <2>5 DEF OpGoes, ServiceInv, NoService, IsCollected
  <2>10. ModbusInv'
    BY <1>0, <2>1, <2>3, <2>4, <2>5
       DEF StageInv, OpGoes, ModbusInv, ServerInv, MappingInv, ImportInv, ResetInv, Early,
           ServedAs, Mapped
  <2> QED BY <2>6, <2>7, <2>8, <2>9, <2>10 DEF ConfigInv
<1> QED BY <1>1, <1>2, <1>3, <1>4, <1>5, <1>6, <1>7

(* Edits of masters and channels.                                          *)
LEMMA EditKeeps ==
  ASSUME ConfigInv,
         \/ \E v \in {0, 1} : BeginEdit(v)
         \/ SaveMasters
         \/ RestoreMasters
         \/ \E v \in {0, 1} : EditChannels(v)
  PROVE  ConfigInv'
<1>0. /\ ConfigShape /\ StageInv(op, mgmt) /\ CollectionInv /\ ServiceInv /\ ModbusInv
      /\ IsConfig(stored) /\ IsCollected(running) /\ IsPolling(polling) /\ IsNorth(north)
      /\ IsServer(server) /\ IsOp(op) /\ IsMgmt(mgmt)
  BY DEF ConfigInv, ConfigShape
<1>1. ASSUME NEW v \in {0, 1}, BeginEdit(v) PROVE ConfigInv'
  <2>1. /\ op.kind = "none" /\ polling' = Detached
        /\ UNCHANGED <<stored, running, mgmt, unsettled, north, fed, server>>
    BY <1>1 DEF BeginEdit, ReadyToChange, NorthUnchanged
  <2>2. IsPolling(polling') /\ polling'.active = NoService /\ polling'.wanted = polling.wanted
    BY <1>0, <2>1, DetachedIs
  <2>3. PICK n, p : /\ n = [Factory EXCEPT !.masters = v] /\ p = [Factory EXCEPT !.masters = running.masters]
                   /\ op' = Begun("edit", n, p)
    BY <1>1 DEF BeginEdit
  <2>4. IsConfig(n) /\ IsConfig(p) /\ p.masters = running.masters
    BY <1>0, <2>3, FactoryIs DEF IsCollected
  <2>a. IsBegun(op', "edit", n, p)
    BY <2>3, BegunIs
  <2>5. /\ IsOp(op') /\ op'.kind = "edit" /\ op'.next = n /\ op'.prev = p /\ op'.read = NoOp.read
        /\ op'.cause = "none" /\ op'.good = TRUE /\ op'.todo = <<>> /\ op'.was \in BOOLEAN
        /\ op'.stage \in {"draining", "save"}
    BY <2>a DEF IsBegun
  <2>6. NoOpIs
    BY NoOpIs
  <2>7. ConfigShape'
    BY <1>0, <2>1, <2>2, <2>4, <2>5, <2>6 DEF ConfigShape
  <2>8. StageInv(op', mgmt')
    BY <1>0, <2>1, <2>5 DEF StageInv
  <2>9. CollectionInv'
    BY <1>0, <2>1, <2>4, <2>5 DEF CollectionInv, Kept, InForce
  <2>10. ServiceInv'
    BY <2>2, <2>5 DEF ServiceInv
  <2>11. ModbusInv'
    BY <1>0, <2>1, <2>5, ModbusAside
  <2> QED BY <2>7, <2>8, <2>9, <2>10, <2>11 DEF ConfigInv
<1>2. CASE SaveMasters
  <2>1. /\ op.kind = "edit" /\ op.stage = "save"
        /\ UNCHANGED <<running, polling, mgmt, unsettled, north, fed, server>>
    BY <1>2 DEF SaveMasters, At, Keep, NorthUnchanged
  <2>2. \/ stored' = [stored EXCEPT !.masters = op.next.masters] /\ OpGoes("reload", op.cause, op.good)
        \/ UNCHANGED stored /\ OpGoes("fail", op.cause, TRUE)
    BY <1>0, <1>2, KeepIs, FailingIs DEF SaveMasters
  <2>3. /\ IsConfig(stored') /\ stored'.channels = stored.channels /\ stored'.srv = stored.srv
        /\ stored'.maps = stored.maps
    BY <1>0, <2>2 DEF ConfigShape, IsConfig
  <2>4. ConfigShape'
    BY <1>0, <2>1, <2>2, <2>3 DEF ConfigShape, OpGoes
  <2>5. StageInv(op', mgmt')
    BY <1>0, <2>1, <2>2 DEF StageInv, OpGoes
  <2>6. CollectionInv'
    BY <1>0, <2>1, <2>2, <2>3 DEF StageInv, OpGoes, CollectionInv, Kept, Early, InForce
  <2>7. ServiceInv'
    BY <1>0, <2>1, <2>2 DEF OpGoes, ServiceInv
  <2>8. ModbusInv'
    BY <1>0, <2>1, <2>2, <2>3, ModbusAside DEF OpGoes
  <2> QED BY <2>4, <2>5, <2>6, <2>7, <2>8 DEF ConfigInv
<1>3. CASE RestoreMasters
  <2>1. /\ op.kind = "edit" /\ op.stage = "restore"
        /\ UNCHANGED <<running, polling, mgmt, unsettled, north, fed, server>>
    BY <1>3 DEF RestoreMasters, At, NorthUnchanged
  <2>2. \/ stored' = [stored EXCEPT !.masters = op.prev.masters] /\ OpGoes("fail", op.cause, TRUE)
        \/ UNCHANGED stored /\ OpGoes("fail", op.cause, FALSE)
    BY <1>0, <1>3, FailingIs DEF RestoreMasters
  <2>3. /\ IsConfig(stored') /\ stored'.channels = stored.channels /\ stored'.srv = stored.srv
        /\ stored'.maps = stored.maps
        /\ \/ stored'.masters = op.prev.masters
           \/ OpGoes("fail", op.cause, FALSE)
    BY <1>0, <2>2 DEF ConfigShape, IsConfig
  <2>4. ConfigShape'
    BY <1>0, <2>1, <2>2, <2>3 DEF ConfigShape, OpGoes
  <2>5. StageInv(op', mgmt')
    BY <1>0, <2>1, <2>2 DEF StageInv, OpGoes
  <2>6. CollectionInv'
    BY <1>0, <2>1, <2>2, <2>3 DEF OpGoes, CollectionInv, Kept, Early, InForce
  <2>7. ServiceInv'
    BY <1>0, <2>1, <2>2 DEF OpGoes, ServiceInv
  <2>8. ModbusInv'
    BY <1>0, <2>1, <2>2, <2>3, ModbusAside DEF OpGoes
  <2> QED BY <2>4, <2>5, <2>6, <2>7, <2>8 DEF ConfigInv
<1>4. ASSUME NEW v \in {0, 1}, EditChannels(v) PROVE ConfigInv'
  <2>1. op.kind = "none" /\ UNCHANGED <<op, mgmt, unsettled, north, fed, server>>
    BY <1>4 DEF EditChannels, ReadyToChange, NorthUnchanged
  <2>2. /\ IsConfig(stored') /\ stored'.channels = v /\ stored'.masters = stored.masters
        /\ stored'.srv = stored.srv /\ stored'.maps = stored.maps
    BY <1>0, <1>4 DEF EditChannels, IsConfig
  <2>3. /\ IsCollected(running') /\ running'.channels = v /\ running'.masters = running.masters
    BY <1>0, <1>4 DEF EditChannels, IsCollected
  <2>4. polling' = [polling EXCEPT !.wanted = polling.wanted /\ polling.active # NoService]
    BY <1>4 DEF EditChannels
  <2>5. /\ IsPolling(polling') /\ polling'.active = polling.active
        /\ polling'.wanted = (polling.wanted /\ polling.active # NoService) /\ polling'.wanted \in BOOLEAN
    BY <1>0, <2>4, WantedIs
  <2>6. ConfigShape'
    BY <1>0, <2>1, <2>2, <2>3, <2>5 DEF ConfigShape
  <2>7. StageInv(op', mgmt')
    BY <1>0, <2>1
  <2>8. CollectionInv'
    BY <1>0, <2>1, <2>2, <2>3 DEF StageInv, CollectionInv, Kept, InForce
  <2>9. ServiceInv'
    BY <1>0, <2>1, <2>3, <2>5 DEF ServiceInv
  <2>10. ModbusInv'
    BY <1>0, <2>1, <2>2, ModbusAside
  <2> QED BY <2>6, <2>7, <2>8, <2>9, <2>10 DEF ConfigInv
<1> QED BY <1>1, <1>2, <1>3, <1>4

(* The Modbus server and its mappings.                                     *)
LEMMA ServerKeeps ==
  ASSUME ConfigInv,
         \/ \E v \in {0, 1} : ApplyServer(v)
         \/ ServerListens
         \/ ServerUnstored
         \/ ServerBack
         \/ \E v \in {0, 1} : EditMapping(v)
         \/ MappingReloads
         \/ MappingUnstored
         \/ MappingBack
  PROVE  ConfigInv'
<1>0. /\ ConfigShape /\ StageInv(op, mgmt) /\ CollectionInv /\ ServiceInv /\ ModbusInv
      /\ IsConfig(stored) /\ IsCollected(running) /\ IsPolling(polling) /\ IsNorth(north)
      /\ IsServer(server) /\ IsOp(op) /\ IsMgmt(mgmt)
  BY DEF ConfigInv, ConfigShape
<1>1. ASSUME NEW v \in {0, 1}, ApplyServer(v) PROVE ConfigInv'
  <2>1. UNCHANGED <<running, polling, op>>
    BY <1>1 DEF ApplyServer, CollectionUnchanged
  <2>2. /\ mgmt.by = "nobody" /\ UNCHANGED <<unsettled, north, fed, server>>
        /\ IsConfig(stored') /\ stored'.channels = stored.channels /\ stored'.masters = stored.masters
        /\ stored'.srv = v /\ stored'.maps = stored.maps
    BY <1>0, <1>1 DEF ApplyServer, IsConfig, NorthUnchanged
  <2>3. /\ IsMgmt(mgmt') /\ mgmt'.by = "server" /\ mgmt'.stage = "listen" /\ mgmt'.next = v
    BY <1>1 DEF ApplyServer, IsMgmt
  <2>4. ConfigShape'
    BY <1>0, <2>1, <2>2, <2>3 DEF ConfigShape
  <2>5. StageInv(op', mgmt')
    BY <1>0, <2>1, <2>2, <2>3 DEF StageInv
  <2>6. CollectionInv' /\ ServiceInv'
    BY <1>0, <2>1, <2>2, CollectionAside
  <2>7. ModbusInv'
    BY <1>0, <2>1, <2>2, <2>3
       DEF StageInv, ModbusInv, ServerInv, MappingInv, ImportInv, ResetInv, ServedAs,
           Mapped
  <2> QED BY <2>4, <2>5, <2>6, <2>7 DEF ConfigInv
<1>2. CASE ServerListens
  <2>1. UNCHANGED <<running, polling, op>>
    BY <1>2 DEF ServerListens, CollectionUnchanged
  <2>2. /\ mgmt.by = "server" /\ mgmt.stage = "listen" /\ UNCHANGED <<stored, fed, unsettled>>
        /\ \/ /\ Listens(mgmt.next, north.bank) /\ north' = [north EXCEPT !.srv = mgmt.next] /\ mgmt' = NoMgmt
           \/ /\ ListenFails(mgmt.next, north.bank) /\ mgmt' = [mgmt EXCEPT !.stage = "undo"]
              /\ UNCHANGED north
    BY <1>2 DEF ServerListens
  <2>3. IsServer(server') /\ server'.listening \in BOOLEAN
    BY <2>2, ListensIs, ListenFailsIs
  <2>4. \/ /\ IsNorth(north') /\ north'.srv = mgmt.next /\ north'.maps = north.maps /\ north'.bank = north.bank
           /\ server'.listening <=> mgmt.next # 0
           /\ server'.srv = mgmt.next /\ server'.bank = north.bank /\ mgmt' = NoMgmt
        \/ /\ IsMgmt(mgmt') /\ mgmt'.by = "server" /\ mgmt'.stage = "undo" /\ mgmt'.next = mgmt.next
           /\ UNCHANGED north
    BY <1>0, <2>2, ListensIs DEF IsNorth, IsMgmt
  <2>5. NoMgmtIs
    BY NoMgmtIs
  <2>6. ConfigShape'
    BY <1>0, <2>1, <2>2, <2>3, <2>4, <2>5 DEF ConfigShape
  <2>7. StageInv(op', mgmt')
    BY <1>0, <2>1, <2>2, <2>4, <2>5 DEF StageInv
  <2>8. CollectionInv' /\ ServiceInv'
    BY <1>0, <2>1, <2>2, CollectionAside
  <2>9. ModbusInv'
    BY <1>0, <2>1, <2>2, <2>4, <2>5
       DEF StageInv, ModbusInv, ServerInv, MappingInv, ImportInv, ResetInv, ServedAs,
           Mapped
  <2> QED BY <2>6, <2>7, <2>8, <2>9 DEF ConfigInv
<1>3. CASE ServerUnstored
  <2>1. UNCHANGED <<running, polling, op>>
    BY <1>3 DEF ServerUnstored, CollectionUnchanged
  <2>2. /\ mgmt.by = "server" /\ mgmt.stage = "undo" /\ UNCHANGED <<north, fed, server>>
        /\ IsMgmt(mgmt') /\ mgmt'.by = "server" /\ mgmt'.stage = "back" /\ mgmt'.prev = mgmt.prev
    BY <1>0, <1>3 DEF ServerUnstored, IsMgmt, NorthUnchanged
  <2>3. /\ IsConfig(stored') /\ stored'.channels = stored.channels /\ stored'.masters = stored.masters
        /\ stored'.maps = stored.maps
        /\ \/ stored'.srv = mgmt.prev /\ UNCHANGED unsettled
           \/ UNCHANGED stored /\ unsettled' = unsettled \cup {"modbus"}
    BY <1>0, <1>3 DEF ServerUnstored, IsConfig
  <2>4. ConfigShape'
    BY <1>0, <2>1, <2>2, <2>3 DEF ConfigShape
  <2>5. StageInv(op', mgmt')
    BY <1>0, <2>1, <2>2 DEF StageInv
  <2>6. CollectionInv' /\ ServiceInv'
    BY <1>0, <2>1, <2>3, CollectionAside
  <2>7. ModbusInv'
    BY <1>0, <2>1, <2>2, <2>3
       DEF StageInv, ModbusInv, ServerInv, MappingInv, ImportInv, ResetInv, Mapped
  <2> QED BY <2>4, <2>5, <2>6, <2>7 DEF ConfigInv
<1>4. CASE ServerBack
  <2>1. UNCHANGED <<running, polling, op>>
    BY <1>4 DEF ServerBack, CollectionUnchanged
  <2>2. /\ mgmt.by = "server" /\ mgmt.stage = "back" /\ UNCHANGED <<stored, fed>> /\ mgmt' = NoMgmt
        /\ IsNorth(north') /\ north'.srv = mgmt.prev /\ north'.maps = north.maps /\ north'.bank = north.bank
        /\ \/ Listens(mgmt.prev, north.bank) /\ UNCHANGED unsettled
           \/ ListenFails(mgmt.prev, north.bank) /\ unsettled' = unsettled \cup {"modbus"}
    BY <1>0, <1>4 DEF ServerBack, IsNorth
  <2>3. IsServer(server') /\ server'.listening \in BOOLEAN
    BY <2>2, ListensIs, ListenFailsIs
  <2>4. \/ /\ server'.listening <=> mgmt.prev # 0
           /\ server'.srv = mgmt.prev /\ server'.bank = north.bank /\ UNCHANGED unsettled
        \/ unsettled' = unsettled \cup {"modbus"}
    BY <2>2, ListensIs
  <2>5. NoMgmtIs
    BY NoMgmtIs
  <2>6. ConfigShape'
    BY <1>0, <2>1, <2>2, <2>3, <2>5 DEF ConfigShape
  <2>7. StageInv(op', mgmt')
    BY <1>0, <2>1, <2>2, <2>5 DEF StageInv
  <2>8. CollectionInv' /\ ServiceInv'
    BY <1>0, <2>1, <2>2, CollectionAside
  <2>9. ModbusInv'
    BY <1>0, <2>1, <2>2, <2>4, <2>5
       DEF StageInv, ModbusInv, ServerInv, MappingInv, ImportInv, ResetInv, ServedAs,
           Mapped
  <2> QED BY <2>6, <2>7, <2>8, <2>9 DEF ConfigInv
<1>5. ASSUME NEW v \in {0, 1}, EditMapping(v) PROVE ConfigInv'
  <2>1. UNCHANGED <<running, polling, op>>
    BY <1>5 DEF EditMapping, CollectionUnchanged
  <2>2. /\ mgmt.by = "nobody" /\ UNCHANGED <<unsettled, north, fed, server>>
        /\ IsConfig(stored') /\ stored'.channels = stored.channels /\ stored'.masters = stored.masters
        /\ stored'.maps = v /\ stored'.srv = stored.srv
    BY <1>0, <1>5 DEF EditMapping, IsConfig, NorthUnchanged
  <2>3. /\ IsMgmt(mgmt') /\ mgmt'.by = "mapping" /\ mgmt'.stage = "bank" /\ mgmt'.prev = stored.maps
    BY <1>5 DEF EditMapping, IsMgmt
  <2>4. ConfigShape'
    BY <1>0, <2>1, <2>2, <2>3 DEF ConfigShape
  <2>5. StageInv(op', mgmt')
    BY <1>0, <2>1, <2>2, <2>3 DEF StageInv
  <2>6. CollectionInv' /\ ServiceInv'
    BY <1>0, <2>1, <2>2, CollectionAside
  <2>7. ModbusInv'
    BY <1>0, <2>1, <2>2, <2>3
       DEF StageInv, ModbusInv, ServerInv, MappingInv, ImportInv, ResetInv, ServedAs
  <2> QED BY <2>4, <2>5, <2>6, <2>7 DEF ConfigInv
<1>6. CASE MappingReloads
  <2>1. UNCHANGED <<running, polling, op>>
    BY <1>6 DEF MappingReloads, CollectionUnchanged
  <2>2. /\ mgmt.by = "mapping" /\ mgmt.stage = "bank" /\ UNCHANGED <<stored, unsettled>>
        /\ \/ BankReloaded /\ mgmt' = NoMgmt
           \/ /\ IsMgmt(mgmt') /\ mgmt'.by = "mapping" /\ mgmt'.stage = "undo" /\ mgmt'.prev = mgmt.prev
              /\ UNCHANGED <<north, fed, server>>
    BY <1>0, <1>6 DEF MappingReloads, IsMgmt, NorthUnchanged
  <2>3. \/ /\ mgmt' = NoMgmt /\ IsServer(server') /\ server'.listening = server.listening
           /\ server'.srv = server.srv /\ server'.bank = fed'
           /\ IsNorth(north') /\ north'.srv = north.srv /\ north'.maps = stored.maps /\ north'.bank = fed'
           /\ fed'.maps = stored.maps
        \/ /\ IsMgmt(mgmt') /\ mgmt'.by = "mapping" /\ mgmt'.stage = "undo" /\ mgmt'.prev = mgmt.prev
           /\ UNCHANGED <<north, fed, server>>
    BY <1>0, <2>2, BankReloadedIs
  <2>4. NoMgmtIs
    BY NoMgmtIs
  <2>5. ConfigShape'
    BY <1>0, <2>1, <2>2, <2>3, <2>4 DEF ConfigShape
  <2>6. StageInv(op', mgmt')
    BY <1>0, <2>1, <2>2, <2>4 DEF StageInv
  <2>7. CollectionInv' /\ ServiceInv'
    BY <1>0, <2>1, <2>2, CollectionAside
  <2>8. ModbusInv'
    BY <1>0, <2>1, <2>2, <2>3, <2>4
       DEF StageInv, ModbusInv, ServerInv, MappingInv, ImportInv, ResetInv, ServedAs
  <2> QED BY <2>5, <2>6, <2>7, <2>8 DEF ConfigInv
<1>7. CASE MappingUnstored
  <2>1. UNCHANGED <<running, polling, op>>
    BY <1>7 DEF MappingUnstored, CollectionUnchanged
  <2>2. /\ mgmt.by = "mapping" /\ mgmt.stage = "undo" /\ UNCHANGED <<north, fed, server>>
        /\ IsConfig(stored') /\ stored'.channels = stored.channels /\ stored'.masters = stored.masters
        /\ stored'.srv = stored.srv
    BY <1>0, <1>7 DEF MappingUnstored, IsConfig, NorthUnchanged
  <2>3. \/ /\ stored'.maps = mgmt.prev /\ UNCHANGED unsettled
           /\ IsMgmt(mgmt') /\ mgmt'.by = "mapping" /\ mgmt'.stage = "back"
        \/ mgmt' = NoMgmt /\ unsettled' = unsettled \cup {"modbus"}
    BY <1>0, <1>7 DEF MappingUnstored, IsMgmt, IsConfig
  <2>4. NoMgmtIs
    BY NoMgmtIs
  <2>5. ConfigShape'
    BY <1>0, <2>1, <2>2, <2>3, <2>4 DEF ConfigShape
  <2>6. StageInv(op', mgmt')
    BY <1>0, <2>1, <2>2, <2>3, <2>4 DEF StageInv
  <2>7. CollectionInv' /\ ServiceInv'
    BY <1>0, <2>1, <2>2, <2>3, CollectionAside
  <2>8. ModbusInv'
    BY <1>0, <2>1, <2>2, <2>3
       DEF StageInv, ModbusInv, ServerInv, MappingInv, ImportInv, ResetInv, ServedAs
  <2> QED BY <2>5, <2>6, <2>7, <2>8 DEF ConfigInv
<1>8. CASE MappingBack
  <2>1. UNCHANGED <<running, polling, op>>
    BY <1>8 DEF MappingBack, CollectionUnchanged
  <2>2. /\ mgmt.by = "mapping" /\ mgmt.stage = "back" /\ UNCHANGED stored /\ mgmt' = NoMgmt
        /\ \/ BankReloaded /\ UNCHANGED unsettled
           \/ UNCHANGED <<north, fed, server>> /\ unsettled' = unsettled \cup {"modbus"}
    BY <1>8 DEF MappingBack, NorthUnchanged
  <2>3. \/ /\ UNCHANGED unsettled /\ IsServer(server') /\ server'.listening = server.listening
           /\ server'.srv = server.srv /\ server'.bank = fed'
           /\ IsNorth(north') /\ north'.srv = north.srv /\ north'.maps = stored.maps /\ north'.bank = fed'
           /\ fed'.maps = stored.maps
        \/ UNCHANGED <<north, fed, server>> /\ unsettled' = unsettled \cup {"modbus"}
    BY <1>0, <2>2, BankReloadedIs
  <2>4. NoMgmtIs
    BY NoMgmtIs
  <2>5. ConfigShape'
    BY <1>0, <2>1, <2>2, <2>3, <2>4 DEF ConfigShape
  <2>6. StageInv(op', mgmt')
    BY <1>0, <2>1, <2>2, <2>4 DEF StageInv
  <2>7. CollectionInv' /\ ServiceInv'
    BY <1>0, <2>1, <2>2, CollectionAside
  <2>8. ModbusInv'
    BY <1>0, <2>1, <2>2, <2>3, <2>4
       DEF StageInv, ModbusInv, ServerInv, MappingInv, ImportInv, ResetInv, ServedAs
  <2> QED BY <2>5, <2>6, <2>7, <2>8 DEF ConfigInv
<1> QED BY <1>1, <1>2, <1>3, <1>4, <1>5, <1>6, <1>7, <1>8

(* An import.                                                              *)
LEMMA ImportKeeps ==
  ASSUME ConfigInv,
         \/ \E c \in Configs : BeginImport(c)
         \/ ImportStore
         \/ ImportRestore
         \/ ImportBank
         \/ ImportListens
         \/ ImportBankBack
         \/ ImportListensBack
  PROVE  ConfigInv'
<1>0. /\ ConfigShape /\ StageInv(op, mgmt) /\ CollectionInv /\ ServiceInv /\ ModbusInv
      /\ IsConfig(stored) /\ IsCollected(running) /\ IsPolling(polling) /\ IsNorth(north)
      /\ IsServer(server) /\ IsOp(op) /\ IsMgmt(mgmt)
  BY DEF ConfigInv, ConfigShape
<1>1. ASSUME NEW c \in Configs, BeginImport(c) PROVE ConfigInv'
  <2>1. /\ op.kind = "none" /\ mgmt.by = "nobody" /\ polling' = Detached
        /\ UNCHANGED <<stored, running, unsettled, north, fed, server>>
        /\ mgmt' = [NoMgmt EXCEPT !.by = "import"]
    BY <1>1 DEF BeginImport, AllFree, NorthUnchanged
  <2>2. IsPolling(polling') /\ polling'.active = NoService /\ polling'.wanted = polling.wanted
    BY <1>0, <2>1, DetachedIs
  <2>3. IsMgmt(mgmt') /\ mgmt'.by = "import"
    BY <2>1, MgmtIs
  <2>4. IsConfig(c)
    BY DEF Configs, IsConfig
  <2>a. IsBegun(op', "import", c, Former)
    BY <1>1, BegunIs DEF BeginImport
  <2>5. /\ IsOp(op') /\ op'.kind = "import" /\ op'.next = c /\ op'.prev = Former /\ op'.read = NoOp.read
        /\ op'.cause = "none" /\ op'.good = TRUE /\ op'.todo = <<>> /\ op'.was \in BOOLEAN
        /\ op'.stage \in {"draining", "save"}
    BY <2>a DEF IsBegun
  <2>6. NoOpIs
    BY NoOpIs
  <2>7. /\ IsConfig(Former) /\ Former.masters = running.masters /\ Former.channels = running.channels
        /\ Former.srv = north.srv /\ Former.maps = north.maps
    BY <1>0, FormerIs
  <2>8. ConfigShape'
    BY <1>0, <2>1, <2>2, <2>3, <2>4, <2>5, <2>6, <2>7 DEF ConfigShape
  <2>9. StageInv(op', mgmt')
    BY <2>1, <2>5 DEF StageInv
  <2>10. CollectionInv'
    BY <1>0, <2>1, <2>5, <2>7 DEF CollectionInv, Kept, InForce
  <2>11. ServiceInv'
    BY <2>2, <2>5 DEF ServiceInv
  <2>12. ModbusInv'
    BY <1>0, <2>1, <2>5, <2>7
       DEF ModbusInv, ServerInv, MappingInv, ImportInv, ResetInv, ServedAs
  <2> QED BY <2>8, <2>9, <2>10, <2>11, <2>12 DEF ConfigInv
<1>2. CASE ImportStore
  <2>1. op.kind = "import" /\ op.stage = "save" /\ UNCHANGED <<running, polling, mgmt, unsettled, north, fed, server>>
    BY <1>2 DEF ImportStore, At, Keep, NorthUnchanged
  <2>2. \/ stored' = op.next /\ OpGoes("reload", op.cause, op.good)
        \/ UNCHANGED stored /\ OpGoes("fail", op.cause, TRUE)
    BY <1>0, <1>2, KeepIs, FailingIs DEF ImportStore
  <2>3. ConfigShape'
    BY <1>0, <2>1, <2>2 DEF ConfigShape, OpGoes
  <2>4. StageInv(op', mgmt')
    BY <1>0, <2>1, <2>2 DEF StageInv, OpGoes
  <2>5. CollectionInv'
    BY <1>0, <2>1, <2>2 DEF StageInv, OpGoes, CollectionInv, Kept, Unadopted, Early, InForce
  <2>6. ServiceInv'
    BY <1>0, <2>1, <2>2 DEF OpGoes, ServiceInv
  <2>7. ModbusInv'
    BY <1>0, <2>1, <2>2
       DEF StageInv, OpGoes, ModbusInv, ServerInv, MappingInv, ImportInv, ResetInv, Early,
           ServedAs
  <2> QED BY <2>3, <2>4, <2>5, <2>6, <2>7 DEF ConfigInv
<1>3. CASE ImportRestore
  <2>1. op.kind = "import" /\ op.stage = "restore" /\ UNCHANGED <<running, polling, mgmt, fed>>
    BY <1>3 DEF ImportRestore, At, Keep
  <2>2. /\ IsNorth(north') /\ north'.maps = north.maps /\ north'.bank = north.bank
        /\ op.cause = "modbus" => north'.srv = op.prev.srv
        /\ op.cause # "modbus" => UNCHANGED north
    BY <1>0, <1>3 DEF ImportRestore, IsNorth
  <2>3. IsServer(server') /\ server'.listening \in BOOLEAN
    BY <1>0, <1>3, StoppedIs DEF ImportRestore, ConfigShape
  <2>4. \/ stored' = op.prev /\ OpGoes("reloadBack", op.cause, op.good) /\ UNCHANGED <<unsettled, server>>
        \/ /\ UNCHANGED stored /\ OpGoes("fail", op.cause, FALSE)
           /\ unsettled' = unsettled \cup {"modbus"}
    BY <1>0, <1>3, KeepIs, FailingIs DEF ImportRestore
  <2>5. ConfigShape'
    BY <1>0, <2>1, <2>2, <2>3, <2>4 DEF ConfigShape, OpGoes
  <2>6. StageInv(op', mgmt')
    BY <1>0, <2>1, <2>4 DEF StageInv, OpGoes
  <2>7. CollectionInv'
    BY <1>0, <2>1, <2>4 DEF OpGoes, CollectionInv, Kept, Unadopted, Early, InForce
  <2>8. ServiceInv'
    BY <1>0, <2>1, <2>4 DEF OpGoes, ServiceInv
  <2>9. ModbusInv'
    BY <1>0, <2>1, <2>2, <2>4
       DEF StageInv, OpGoes, ModbusInv, ServerInv, MappingInv, ImportInv, ResetInv, Early,
           ServedAs
  <2> QED BY <2>5, <2>6, <2>7, <2>8, <2>9 DEF ConfigInv
<1>4. CASE ImportBank
  <2>1. op.kind = "import" /\ op.stage = "bank" /\ UNCHANGED <<stored, running, mgmt, unsettled>>
    BY <1>4 DEF ImportBank, At, Keep
  <2>2. \/ /\ OpGoes("listen", op.cause, op.good) /\ UNCHANGED polling
           /\ IsNorth(north') /\ north'.srv = op.next.srv /\ north'.maps = stored.maps /\ north'.bank = fed'
           /\ fed'.maps = stored.maps /\ IsServer(server') /\ server'.listening = server.listening
        \/ /\ polling' = Detached /\ UNCHANGED <<fed, server>>
           /\ OpGoes("draining", "modbus", op.good) \/ OpGoes("restore", "modbus", op.good)
           /\ IsNorth(north') /\ north'.srv = op.next.srv /\ north'.maps = north.maps
           /\ north'.bank = north.bank
    <3>1. CASE \E bank : /\ bank = NewBank(stored.maps) /\ fed' = bank
                         /\ server' = [server EXCEPT !.bank = bank]
                         /\ north' = [srv |-> op.next.srv, maps |-> stored.maps, bank |-> bank]
                         /\ Keep("listen") /\ UNCHANGED polling
      <4>1. PICK bank : /\ bank = NewBank(stored.maps) /\ fed' = bank
                        /\ server' = [server EXCEPT !.bank = bank]
                        /\ north' = [srv |-> op.next.srv, maps |-> stored.maps, bank |-> bank]
                        /\ Keep("listen") /\ UNCHANGED polling
        BY <3>1
      <4>2. OpGoes("listen", op.cause, op.good) /\ bank.maps = stored.maps
        BY <1>0, <4>1, KeepIs, NewBankIs
      <4> QED BY <1>0, <4>1, <4>2 DEF IsNorth, IsServer
    <3>2. CASE UndoForModbus /\ north' = [north EXCEPT !.srv = op.next.srv] /\ UNCHANGED <<fed, server>>
      <4>1. OpGoes("draining", "modbus", op.good) \/ OpGoes("restore", "modbus", op.good)
        BY <1>0, <3>2, CausedIs DEF UndoForModbus
      <4>2. polling' = Detached
        BY <3>2 DEF UndoForModbus
      <4> QED BY <1>0, <3>2, <4>1, <4>2 DEF IsNorth
    <3> QED BY <1>4, <3>1, <3>2 DEF ImportBank
  <2>3. /\ IsPolling(polling') /\ polling'.wanted \in BOOLEAN
        /\ polling' = Detached => polling'.active = NoService
    BY <1>0, <2>2, DetachedIs DEF ConfigShape
  <2>4. ConfigShape'
    BY <1>0, <2>1, <2>2, <2>3 DEF ConfigShape, OpGoes
  <2>5. StageInv(op', mgmt')
    BY <1>0, <2>1, <2>2 DEF StageInv, OpGoes, Undoing
  <2>6. CollectionInv'
    BY <1>0, <2>1, <2>2 DEF OpGoes, CollectionInv, Kept, Unadopted, Early, InForce
  <2>7. ServiceInv'
    BY <1>0, <2>1, <2>2, <2>3 DEF OpGoes, ServiceInv
  <2>8. ModbusInv'
    BY <1>0, <2>1, <2>2
       DEF StageInv, OpGoes, ModbusInv, ServerInv, MappingInv, ImportInv, ResetInv, Early,
           Mapped
  <2> QED BY <2>4, <2>5, <2>6, <2>7, <2>8 DEF ConfigInv
<1>5. CASE ImportListens
  <2>1. op.kind = "import" /\ op.stage = "listen" /\ UNCHANGED <<stored, running, north, fed, unsettled>>
    BY <1>5 DEF ImportListens, At
  <2>2. \/ /\ Listens(op.next.srv, north.bank) /\ UNCHANGED polling /\ op' = NoOp
           /\ mgmt' = IF mgmt.by \in {"import", "reset"} THEN NoMgmt ELSE mgmt
        \/ /\ ListenFails(op.next.srv, north.bank) /\ polling' = Detached /\ UNCHANGED mgmt
           /\ OpGoes("draining", "modbus", op.good) \/ OpGoes("restore", "modbus", op.good)
    BY <1>0, <1>5, CausedIs DEF ImportListens, UndoForModbus, Finished
  <2>3. /\ IsPolling(polling') /\ polling'.wanted \in BOOLEAN
        /\ polling' = Detached => polling'.active = NoService
    BY <1>0, <2>2, DetachedIs DEF ConfigShape
  <2>4. /\ IsServer(server') /\ server'.listening \in BOOLEAN
        /\ op' = NoOp => /\ server'.listening <=> op.next.srv # 0
                        /\ server'.srv = op.next.srv /\ server'.bank = north.bank
    BY <2>2, ListensIs, ListenFailsIs, NoOpIs DEF OpGoes
  <2>5. NoOpIs /\ NoMgmtIs
    BY NoOpIs, NoMgmtIs
  <2>6. ConfigShape'
    BY <1>0, <2>1, <2>2, <2>3, <2>4, <2>5 DEF ConfigShape, OpGoes
  <2>7. StageInv(op', mgmt')
    BY <1>0, <2>1, <2>2, <2>5 DEF StageInv, OpGoes, Undoing
  <2>8. CollectionInv'
    BY <1>0, <2>1, <2>2, <2>5 DEF OpGoes, CollectionInv, Kept, Unadopted, Early, InForce
  <2>9. ServiceInv'
    BY <1>0, <2>1, <2>2, <2>3, <2>5 DEF OpGoes, ServiceInv
  <2>10. ModbusInv'
    BY <1>0, <2>1, <2>2, <2>4, <2>5
       DEF StageInv, OpGoes, ModbusInv, ServerInv, MappingInv, ImportInv, ResetInv, Early,
           ServedAs, Mapped
  <2> QED BY <2>6, <2>7, <2>8, <2>9, <2>10 DEF ConfigInv
<1>6. CASE ImportBankBack
  <2>1. op.kind = "import" /\ op.stage = "bankBack" /\ UNCHANGED <<stored, running, polling, mgmt>>
    BY <1>6 DEF ImportBankBack, At, Keep
  <2>2. \/ BankReloaded /\ OpGoes("listenBack", op.cause, op.good) /\ UNCHANGED unsettled
        \/ /\ OpGoes("fail", op.cause, FALSE) /\ UNCHANGED <<north, fed>> /\ Stopped
           /\ unsettled' = unsettled \cup {"modbus"}
    BY <1>0, <1>6, KeepIs, FailingIs DEF ImportBankBack
  <2>3. /\ IsServer(server') /\ server'.listening \in BOOLEAN /\ IsNorth(north')
        /\ \/ /\ north'.srv = north.srv /\ north'.maps = stored.maps /\ north'.bank = fed'
              /\ fed'.maps = stored.maps /\ OpGoes("listenBack", op.cause, op.good) /\ UNCHANGED unsettled
           \/ OpGoes("fail", op.cause, FALSE) /\ unsettled' = unsettled \cup {"modbus"}
    BY <1>0, <2>2, BankReloadedIs, StoppedIs DEF ConfigShape
  <2>4. ConfigShape'
    BY <1>0, <2>1, <2>3 DEF ConfigShape, OpGoes
  <2>5. StageInv(op', mgmt')
    BY <1>0, <2>1, <2>2 DEF StageInv, OpGoes, Undoing
  <2>6. CollectionInv'
    BY <1>0, <2>1, <2>2 DEF OpGoes, CollectionInv, Kept, Unadopted, Early, InForce
  <2>7. ServiceInv'
    BY <1>0, <2>1, <2>2 DEF OpGoes, ServiceInv
  <2>8. ModbusInv'
    BY <1>0, <2>1, <2>3
       DEF StageInv, OpGoes, ModbusInv, ServerInv, MappingInv, ImportInv, ResetInv, Early,
           Mapped
  <2> QED BY <2>4, <2>5, <2>6, <2>7, <2>8 DEF ConfigInv
<1>7. CASE ImportListensBack
  <2>1. op.kind = "import" /\ op.stage = "listenBack" /\ UNCHANGED <<stored, running, polling, mgmt, north, fed>>
    BY <1>7 DEF ImportListensBack, At
  <2>2. \/ Listens(op.prev.srv, north.bank) /\ OpGoes("fail", op.cause, op.good) /\ UNCHANGED unsettled
        \/ /\ ListenFails(op.prev.srv, north.bank) /\ OpGoes("fail", op.cause, FALSE)
           /\ unsettled' = unsettled \cup {"modbus"}
    BY <1>0, <1>7, KeepIs, FailingIs DEF ImportListensBack
  <2>3. /\ IsServer(server') /\ server'.listening \in BOOLEAN
        /\ \/ /\ server'.listening <=> op.prev.srv # 0
              /\ server'.srv = op.prev.srv /\ server'.bank = north.bank
              /\ OpGoes("fail", op.cause, op.good) /\ UNCHANGED unsettled
           \/ OpGoes("fail", op.cause, FALSE) /\ unsettled' = unsettled \cup {"modbus"}
    BY <2>1, <2>2, ListensIs, ListenFailsIs
  <2>4. ConfigShape'
    BY <1>0, <2>1, <2>3 DEF ConfigShape, OpGoes
  <2>5. StageInv(op', mgmt')
    BY <1>0, <2>1, <2>2 DEF StageInv, OpGoes, Undoing
  <2>6. CollectionInv'
    BY <1>0, <2>1, <2>2 DEF OpGoes, CollectionInv, Kept, Unadopted, Early, InForce
  <2>7. ServiceInv'
    BY <1>0, <2>1, <2>2 DEF OpGoes, ServiceInv
  <2>8. ModbusInv'
    BY <1>0, <2>1, <2>3
       DEF StageInv, OpGoes, ModbusInv, ServerInv, MappingInv, ImportInv, ResetInv, Early,
           ServedAs, Mapped
  <2> QED BY <2>4, <2>5, <2>6, <2>7, <2>8 DEF ConfigInv
<1> QED BY <1>1, <1>2, <1>3, <1>4, <1>5, <1>6, <1>7

(* A factory reset.                                                        *)
LEMMA ResetKeeps ==
  ASSUME ConfigInv,
         \/ BeginReset
         \/ ResetSaves
         \/ ResetBank
         \/ ResetSrvBack
         \/ ResetMapsBack
         \/ ResetServerBack
         \/ ResetEnds
  PROVE  ConfigInv'
<1>0. /\ ConfigShape /\ StageInv(op, mgmt) /\ CollectionInv /\ ServiceInv /\ ModbusInv
      /\ IsConfig(stored) /\ IsCollected(running) /\ IsPolling(polling) /\ IsNorth(north)
      /\ IsServer(server) /\ IsOp(op) /\ IsMgmt(mgmt)
  BY DEF ConfigInv, ConfigShape
<1>1. CASE BeginReset
  <2>1. /\ op.kind = "none" /\ mgmt.by = "nobody"
        /\ UNCHANGED <<stored, running, unsettled, north, fed, server>>
        /\ mgmt' = [NoMgmt EXCEPT !.by = "reset"] /\ polling' = [Detached EXCEPT !.wanted = FALSE]
    BY <1>1 DEF BeginReset, AllFree, NorthUnchanged
  <2>2. IsPolling(polling') /\ polling'.active = NoService /\ polling'.wanted = FALSE
    BY <1>0, <2>1, DetachedIs
  <2>3. IsMgmt(mgmt') /\ mgmt'.by = "reset"
    BY <2>1, MgmtIs
  <2>4. PICK b, t : /\ b = Begun("reset", Factory, Former) /\ t = <<"time", "masters", "channels", "srv", "maps">>
                   /\ op' = [b EXCEPT !.stage = "draining", !.todo = t]
    BY <1>1 DEF BeginReset
  <2>a. IsBegun(b, "reset", Factory, Former)
    BY <2>4, BegunIs
  <2>5. /\ IsOp(b) /\ b.kind = "reset" /\ b.next = Factory /\ b.prev = Former /\ b.read = NoOp.read
        /\ b.cause = "none" /\ b.good = TRUE /\ b.was \in BOOLEAN
    BY <2>a DEF IsBegun
  <2>6. /\ IsOp(op') /\ op'.kind = "reset" /\ op'.next = Factory /\ op'.prev = Former /\ op'.read = NoOp.read
        /\ op'.cause = "none" /\ op'.good = TRUE /\ op'.todo = t /\ op'.was \in BOOLEAN
        /\ op'.stage = "draining"
    BY <2>4, <2>5 DEF IsOp
  <2>7. t \in Seq(Fields) /\ Len(t) = 5 /\ t[4] = "srv" /\ t[5] = "maps"
    BY <2>4 DEF Fields
  <2>8. Left("srv")' /\ Left("maps")'
    BY <2>4 DEF Left, In
  <2>9. NoOpIs /\ IsConfig(Factory)
    BY NoOpIs, FactoryIs
  <2>10. /\ IsConfig(Former) /\ Former.masters = running.masters /\ Former.channels = running.channels
        /\ Former.srv = north.srv /\ Former.maps = north.maps
    BY <1>0, FormerIs
  <2>11. ConfigShape'
    BY <1>0, <2>1, <2>2, <2>3, <2>6, <2>7, <2>9, <2>10 DEF ConfigShape
  <2>12. StageInv(op', mgmt')
    BY <2>1, <2>4, <2>5 DEF StageInv
  <2>13. CollectionInv'
    BY <2>4, <2>5 DEF CollectionInv, Kept
  <2>14. ServiceInv'
    BY <2>2 DEF ServiceInv
  <2>15. ModbusInv'
    BY <1>0, <2>1, <2>4, <2>5, <2>8, <2>10
       DEF ModbusInv, ServerInv, MappingInv, ImportInv, ResetInv, ServedAs, Mapped
  <2> QED BY <2>11, <2>12, <2>13, <2>14, <2>15 DEF ConfigInv
<1>2. CASE ResetSaves
  <2>1. /\ op.kind = "reset" /\ op.stage = "save" /\ op.todo # <<>> /\ mgmt.by = "reset"
        /\ UNCHANGED <<running, polling, mgmt, north, fed, unsettled>>
        /\ IsServer(server')
    BY <1>0, <1>2, StoppedIs DEF ResetSaves, At, StageInv
  <2>2. server'.listening \in BOOLEAN
    BY <1>0, <1>2, StoppedIs DEF ResetSaves
  <2>3. CASE stored' = [stored EXCEPT ![Head(op.todo)] = 0] /\ op' = [op EXCEPT !.todo = Tail(op.todo)]
    <3>1. PICK t, h, r : t = op.todo /\ h = Head(t) /\ r = Tail(t)
      OBVIOUS
    <3>2. h \in Fields /\ r \in Seq(Fields) /\ \A field : In(field, t) /\ h # field => In(field, r)
      BY <1>0, <2>1, <3>1, InTail DEF ConfigShape
    <3>3. stored' = [stored EXCEPT ![h] = 0] /\ op' = [op EXCEPT !.todo = r]
      BY <2>3, <3>1
    <3>4. /\ IsOp(op') /\ op'.kind = op.kind /\ op'.was = op.was /\ op'.next = op.next
          /\ op'.prev = op.prev /\ op'.read = op.read /\ op'.stage = op.stage
          /\ op'.cause = op.cause /\ op'.good = op.good /\ op'.todo = r
      BY <1>0, <3>3 DEF IsOp
    <3>5. /\ IsConfig(stored')
          /\ stored'.srv = (IF h = "srv" THEN 0 ELSE stored.srv)
          /\ stored'.maps = (IF h = "maps" THEN 0 ELSE stored.maps)
      BY <1>0, <3>3 DEF IsConfig
    <3>6. /\ ~Left("srv")' => h = "srv" \/ ~Left("srv")
          /\ ~Left("maps")' => h = "maps" \/ ~Left("maps")
      BY <3>1, <3>2, <3>4 DEF Left
    <3>7. ConfigShape'
      BY <1>0, <2>1, <2>2, <3>2, <3>4, <3>5 DEF ConfigShape
    <3>8. StageInv(op', mgmt')
      BY <1>0, <2>1, <3>4 DEF StageInv
    <3>9. CollectionInv' /\ ServiceInv'
      BY <1>0, <2>1, <3>4 DEF CollectionInv, ServiceInv, Kept
    <3>10. ModbusInv'
      BY <1>0, <2>1, <3>4, <3>5, <3>6
         DEF ModbusInv, ServerInv, MappingInv, ImportInv, ResetInv, Mapped
    <3> QED BY <3>7, <3>8, <3>9, <3>10 DEF ConfigInv
  <2>4. CASE UNCHANGED stored /\ op' = [op EXCEPT !.stage = "srvBack"]
    <3>1. OpGoes("srvBack", op.cause, op.good)
      BY <1>0, <2>4, KeepIs
    <3>2. ConfigShape'
      BY <1>0, <2>1, <2>2, <2>4, <3>1 DEF ConfigShape, OpGoes
    <3>3. StageInv(op', mgmt')
      BY <1>0, <2>1, <3>1 DEF StageInv, OpGoes
    <3>4. CollectionInv' /\ ServiceInv'
      BY <1>0, <2>1, <2>4 DEF CollectionInv, ServiceInv, Kept
    <3>5. ModbusInv'
      BY <1>0, <2>1, <2>4 DEF ModbusInv, ServerInv, MappingInv, ImportInv, ResetInv, Mapped
    <3> QED BY <3>2, <3>3, <3>4, <3>5 DEF ConfigInv
  <2> QED BY <1>2, <2>3, <2>4 DEF ResetSaves
<1>3. CASE ResetBank
  <2>1. op.kind = "reset" /\ op.stage = "save" /\ op.todo = <<>>
        /\ UNCHANGED <<stored, running, polling, mgmt, north, unsettled>>
    BY <1>3 DEF ResetBank, At, Keep
  <2>2. /\ IsServer(server') /\ server'.listening \in BOOLEAN
        /\ \/ fed'.maps = 0 /\ server'.listening = FALSE /\ OpGoes("reload", op.cause, op.good)
           \/ UNCHANGED <<fed, server>> /\ OpGoes("srvBack", op.cause, op.good)
    <3>1. CASE \E bank : /\ bank = NewBank(0) /\ fed' = bank
                         /\ server' = [listening |-> FALSE, srv |-> 0, bank |-> bank]
                         /\ Keep("reload")
      <4>1. PICK bank : /\ bank = NewBank(0) /\ fed' = bank
                        /\ server' = [listening |-> FALSE, srv |-> 0, bank |-> bank]
                        /\ Keep("reload")
        BY <3>1
      <4>2. OpGoes("reload", op.cause, op.good) /\ bank.maps = 0
        BY <1>0, <4>1, KeepIs, NewBankIs
      <4> QED BY <4>1, <4>2 DEF IsServer
    <3>2. CASE Keep("srvBack") /\ UNCHANGED <<fed, server>>
      BY <1>0, <3>2, KeepIs DEF ConfigShape
    <3> QED BY <1>3, <3>1, <3>2 DEF ResetBank
  <2>3. ~Left("srv") /\ ~Left("maps")
    BY <2>1 DEF Left, In
  <2>4. ConfigShape'
    BY <1>0, <2>1, <2>2 DEF ConfigShape, OpGoes
  <2>5. StageInv(op', mgmt')
    BY <1>0, <2>1, <2>2 DEF StageInv, OpGoes
  <2>6. CollectionInv'
    BY <2>1, <2>2 DEF OpGoes, CollectionInv, Kept
  <2>7. ServiceInv'
    BY <1>0, <2>1 DEF ServiceInv
  <2>8. ModbusInv'
    BY <1>0, <2>1, <2>2, <2>3
       DEF StageInv, OpGoes, ModbusInv, ServerInv, MappingInv, ImportInv, ResetInv, Mapped
  <2> QED BY <2>4, <2>5, <2>6, <2>7, <2>8 DEF ConfigInv
<1>4. CASE ResetSrvBack
  <2>1. op.kind = "reset" /\ op.stage = "srvBack" /\ UNCHANGED <<running, polling, mgmt, north, fed, server>>
    BY <1>4 DEF ResetSrvBack, At, Keep, NorthUnchanged
  <2>2. /\ OpGoes("mapsBack", op.cause, op.good)
        /\ IsConfig(stored') /\ stored'.maps = stored.maps
        /\ \/ stored'.srv = op.prev.srv /\ UNCHANGED unsettled
           \/ unsettled' = unsettled \cup {"modbus"}
    BY <1>0, <1>4, KeepIs DEF ResetSrvBack, IsConfig
  <2>3. ConfigShape'
    BY <1>0, <2>1, <2>2 DEF ConfigShape, OpGoes
  <2>4. StageInv(op', mgmt')
    BY <1>0, <2>1, <2>2 DEF StageInv, OpGoes
  <2>5. CollectionInv'
    BY <2>1, <2>2 DEF OpGoes, CollectionInv, Kept
  <2>6. ServiceInv'
    BY <1>0, <2>1 DEF ServiceInv
  <2>7. ModbusInv'
    BY <1>0, <2>1, <2>2
       DEF StageInv, OpGoes, ModbusInv, ServerInv, MappingInv, ImportInv, ResetInv, Mapped
  <2> QED BY <2>3, <2>4, <2>5, <2>6, <2>7 DEF ConfigInv
<1>5. CASE ResetMapsBack
  <2>1. op.kind = "reset" /\ op.stage = "mapsBack" /\ UNCHANGED <<running, polling, mgmt, north, fed, server>>
    BY <1>5 DEF ResetMapsBack, At, Keep, NorthUnchanged
  <2>2. /\ OpGoes("serverBack", op.cause, op.good)
        /\ IsConfig(stored') /\ stored'.srv = stored.srv
        /\ \/ stored'.maps = op.prev.maps /\ UNCHANGED unsettled
           \/ unsettled' = unsettled \cup {"modbus"}
    BY <1>0, <1>5, KeepIs DEF ResetMapsBack, IsConfig
  <2>3. ConfigShape'
    BY <1>0, <2>1, <2>2 DEF ConfigShape, OpGoes
  <2>4. StageInv(op', mgmt')
    BY <1>0, <2>1, <2>2 DEF StageInv, OpGoes
  <2>5. CollectionInv'
    BY <2>1, <2>2 DEF OpGoes, CollectionInv, Kept
  <2>6. ServiceInv'
    BY <1>0, <2>1 DEF ServiceInv
  <2>7. ModbusInv'
    BY <1>0, <2>1, <2>2
       DEF OpGoes, ModbusInv, ServerInv, MappingInv, ImportInv, ResetInv, ServedAs, Mapped
  <2> QED BY <2>3, <2>4, <2>5, <2>6, <2>7 DEF ConfigInv
<1>6. CASE ResetServerBack
  <2>1. op.kind = "reset" /\ op.stage = "serverBack" /\ UNCHANGED <<stored, running, polling, mgmt, north, fed>>
        /\ OpGoes("fail", op.cause, FALSE)
    BY <1>0, <1>6, FailingIs DEF ResetServerBack, At
  <2>2. /\ IsServer(server') /\ server'.listening \in BOOLEAN
        /\ \/ /\ server'.listening <=> op.prev.srv # 0
              /\ server'.srv = op.prev.srv /\ server'.bank = north.bank /\ UNCHANGED unsettled
           \/ unsettled' = unsettled \cup {"modbus"}
           \/ (stored.srv # op.prev.srv \/ stored.maps # op.prev.maps) /\ UNCHANGED unsettled
    BY <1>0, <1>6, ListensIs, ListenFailsIs, StoppedIs DEF ResetServerBack
  <2>3. ConfigShape'
    BY <1>0, <2>1, <2>2 DEF ConfigShape, OpGoes
  <2>4. StageInv(op', mgmt')
    BY <1>0, <2>1 DEF StageInv, OpGoes
  <2>5. CollectionInv'
    BY <2>1 DEF OpGoes, CollectionInv, Kept
  <2>6. ServiceInv'
    BY <1>0, <2>1 DEF ServiceInv
  <2>7. ModbusInv'
    BY <1>0, <2>1, <2>2
       DEF OpGoes, ModbusInv, ServerInv, MappingInv, ImportInv, ResetInv, ServedAs, Mapped
  <2> QED BY <2>3, <2>4, <2>5, <2>6, <2>7 DEF ConfigInv
<1>7. CASE ResetEnds
  <2>1. op.kind = "reset" /\ op.stage = "cleanup" /\ UNCHANGED <<stored, running, polling, fed, server, unsettled>>
        /\ IsNorth(north') /\ north'.srv = 0 /\ north'.maps = 0 /\ north'.bank = fed
    BY <1>7 DEF ResetEnds, At, IsNorth
  <2>2. \/ /\ op' = NoOp
           /\ mgmt' = IF mgmt.by \in {"import", "reset"} THEN NoMgmt ELSE mgmt
        \/ OpGoes("fail", op.cause, FALSE) /\ UNCHANGED mgmt
    BY <1>0, <1>7, FailingIs DEF ResetEnds, Finished
  <2>3. NoOpIs /\ NoMgmtIs
    BY NoOpIs, NoMgmtIs
  <2>4. ConfigShape'
    BY <1>0, <2>1, <2>2, <2>3 DEF ConfigShape, OpGoes
  <2>5. StageInv(op', mgmt')
    BY <1>0, <2>1, <2>2, <2>3 DEF StageInv, OpGoes
  <2>6. CollectionInv'
    BY <1>0, <2>1, <2>2, <2>3 DEF OpGoes, CollectionInv, Kept, InForce
  <2>7. ServiceInv'
    BY <1>0, <2>1 DEF ServiceInv
  <2>8. ModbusInv'
    BY <1>0, <2>1, <2>2, <2>3
       DEF OpGoes, ModbusInv, ServerInv, MappingInv, ImportInv, ResetInv, ServedAs, Mapped
  <2> QED BY <2>4, <2>5, <2>6, <2>7, <2>8 DEF ConfigInv
<1> QED BY <1>1, <1>2, <1>3, <1>4, <1>5, <1>6, <1>7

(* The settings of the time.                                               *)
LEMMA TimeKeeps ==
  ASSUME ConfigInv,
         \/ \E v \in Times : SaveTime(v)
         \/ AdoptTime
         \/ UnstoreTime
  PROVE  ConfigInv'
<1>0. /\ ConfigShape /\ StageInv(op, mgmt) /\ CollectionInv /\ ServiceInv /\ ModbusInv
      /\ IsConfig(stored) /\ IsCollected(running) /\ IsPolling(polling) /\ IsNorth(north)
      /\ IsServer(server) /\ IsOp(op) /\ IsMgmt(mgmt)
  BY DEF ConfigInv, ConfigShape
<1>1. ASSUME NEW v \in Times, SaveTime(v) PROVE ConfigInv'
  <2>1. /\ UNCHANGED <<running, polling, op, mgmt, unsettled, north, fed, server>>
        /\ IsConfig(stored') /\ stored'.channels = stored.channels /\ stored'.masters = stored.masters
        /\ stored'.srv = stored.srv /\ stored'.maps = stored.maps
    BY <1>0, <1>1 DEF SaveTime, IsConfig, NorthUnchanged
  <2>2. /\ Left("srv")' <=> Left("srv")
        /\ Left("maps")' <=> Left("maps")
    BY <2>1 DEF Left
  <2>3. ConfigShape'
    BY <1>0, <2>1 DEF ConfigShape
  <2>4. StageInv(op', mgmt')
    BY <1>0, <2>1
  <2>5. CollectionInv' /\ ServiceInv'
    BY <1>0, <2>1, CollectionAside
  <2>6. ModbusInv'
    BY <1>0, <2>1, <2>2
       DEF ModbusInv, ServerInv, MappingInv, ImportInv, ResetInv, Early, ServedAs, Mapped
  <2> QED BY <2>3, <2>4, <2>5, <2>6 DEF ConfigInv
<1>2. CASE AdoptTime
  <2>1. /\ UNCHANGED <<stored, polling, op, mgmt, unsettled, north, fed, server>>
        /\ IsCollected(running') /\ running'.channels = running.channels /\ running'.masters = running.masters
    BY <1>0, <1>2 DEF AdoptTime, IsCollected, NorthUnchanged
  <2>2. /\ Left("srv")' <=> Left("srv")
        /\ Left("maps")' <=> Left("maps")
    BY <2>1 DEF Left
  <2>3. ConfigShape'
    BY <1>0, <2>1 DEF ConfigShape
  <2>4. StageInv(op', mgmt')
    BY <1>0, <2>1
  <2>5. CollectionInv' /\ ServiceInv'
    BY <1>0, <2>1, CollectionAside
  <2>6. ModbusInv'
    BY <1>0, <2>1, <2>2
       DEF ModbusInv, ServerInv, MappingInv, ImportInv, ResetInv, Early, ServedAs, Mapped
  <2> QED BY <2>3, <2>4, <2>5, <2>6 DEF ConfigInv
<1>3. CASE UnstoreTime
  <2>1. /\ UNCHANGED <<running, polling, op, mgmt, north, fed, server>>
        /\ IsConfig(stored') /\ stored'.channels = stored.channels /\ stored'.masters = stored.masters
        /\ stored'.srv = stored.srv /\ stored'.maps = stored.maps
        /\ unsettled' \in {unsettled, unsettled \cup {"time"}}
    BY <1>0, <1>3 DEF UnstoreTime, IsConfig, NorthUnchanged
  <2>2. /\ Left("srv")' <=> Left("srv")
        /\ Left("maps")' <=> Left("maps")
    BY <2>1 DEF Left
  <2>3. ConfigShape'
    BY <1>0, <2>1 DEF ConfigShape
  <2>4. StageInv(op', mgmt')
    BY <1>0, <2>1
  <2>5. CollectionInv' /\ ServiceInv'
    BY <1>0, <2>1, CollectionAside
  <2>6. ModbusInv'
    BY <1>0, <2>1, <2>2
       DEF ModbusInv, ServerInv, MappingInv, ImportInv, ResetInv, Early, ServedAs, Mapped
  <2> QED BY <2>3, <2>4, <2>5, <2>6 DEF ConfigInv
<1> QED BY <1>1, <1>2, <1>3

(* The process starts.                                                     *)
LEMMA StartIs ==
  ASSUME ConfigInit
  PROVE  ConfigInv
<1>1. PICK bank : bank = [id |-> 1, maps |-> stored.maps]
  OBVIOUS
<1>2. /\ stored \in Configs /\ running = Collected(stored)
      /\ polling = [active |-> NoService, stopping |-> {}, wanted |-> FALSE]
      /\ fed = bank /\ north = [srv |-> stored.srv, maps |-> stored.maps, bank |-> bank]
      /\ server = [listening |-> stored.srv # 0, srv |-> stored.srv, bank |-> bank]
      /\ op = NoOp /\ mgmt = NoMgmt
  BY <1>1 DEF ConfigInit
<1>3. IsConfig(stored)
  BY <1>2 DEF Configs, IsConfig
<1>4. /\ IsCollected(running) /\ running.masters = stored.masters
      /\ running.channels = stored.channels
  BY <1>2, <1>3, CollectedIs
<1>5. /\ NoOpIs /\ NoMgmtIs
  BY NoOpIs, NoMgmtIs
<1>6. /\ IsPolling(polling) /\ polling.active = NoService /\ polling.wanted = FALSE
      /\ IsNorth(north) /\ IsServer(server) /\ server.listening \in BOOLEAN
  BY <1>2 DEF IsPolling, IsNorth, IsServer
<1>7. ServedAs(stored.srv, stored.maps)
  BY <1>1, <1>2 DEF ServedAs
<1>8. ConfigShape
  BY <1>2, <1>3, <1>4, <1>5, <1>6 DEF ConfigShape
<1>9. StageInv(op, mgmt)
  BY <1>2, <1>5 DEF StageInv
<1>10. CollectionInv /\ ServiceInv
  BY <1>2, <1>4, <1>5, <1>6 DEF CollectionInv, ServiceInv, Unadopted, Early, InForce
<1>11. ModbusInv
  BY <1>2, <1>5, <1>7 DEF ModbusInv, ServerInv, MappingInv, ImportInv, ResetInv
<1> QED BY <1>8, <1>9, <1>10, <1>11 DEF ConfigInv

LEMMA RestartKeeps ==
  ASSUME ConfigInv, RestartConfig
  PROVE  ConfigInv'
<1>1. PICK bank : bank = [id |-> 1, maps |-> stored.maps]
  OBVIOUS
<1>2. /\ Loaded /\ UNCHANGED stored
      /\ \/ /\ fed' = bank /\ north' = [srv |-> stored.srv, maps |-> stored.maps, bank |-> bank]
            /\ \/ Listens(stored.srv, bank)
               \/ ListenFails(stored.srv, bank) /\ unsettled' = {"modbus"}
         \/ /\ north' = [srv |-> 0, maps |-> 0, bank |-> NoBank]
            /\ server' = [listening |-> FALSE, srv |-> 0, bank |-> NoBank]
            /\ unsettled' = {"modbus"}
  BY <1>1 DEF RestartConfig
<1>3. IsConfig(stored) /\ IsConfig(stored')
  BY <1>2 DEF ConfigInv, ConfigShape
<1>4. /\ running' = Collected(stored) /\ op' = NoOp /\ mgmt' = NoMgmt
      /\ polling' = [active |-> NoService, stopping |-> {}, wanted |-> FALSE]
  BY <1>2 DEF Loaded
<1>5. /\ IsCollected(running') /\ running'.masters = stored'.masters
      /\ running'.channels = stored'.channels
  BY <1>2, <1>3, <1>4, CollectedIs
<1>6. IsPolling(polling') /\ polling'.active = NoService /\ polling'.wanted = FALSE
  BY <1>4 DEF IsPolling
<1>7. /\ IsNorth(north') /\ IsServer(server') /\ server'.listening \in BOOLEAN
      /\ ServedAs(stored.srv, stored.maps)' \/ unsettled' = {"modbus"}
  <2>1. CASE /\ fed' = bank /\ north' = [srv |-> stored.srv, maps |-> stored.maps, bank |-> bank]
             /\ Listens(stored.srv, bank)
    <3>1. /\ IsServer(server') /\ server'.listening \in BOOLEAN
          /\ server'.listening <=> stored.srv # 0
          /\ server'.srv = stored.srv /\ server'.bank = bank
      BY <2>1, ListensIs
    <3> QED BY <1>1, <1>2, <2>1, <3>1 DEF IsNorth, ServedAs
  <2>2. CASE /\ north' = [srv |-> stored.srv, maps |-> stored.maps, bank |-> bank]
             /\ ListenFails(stored.srv, bank) /\ unsettled' = {"modbus"}
    <3>1. IsServer(server') /\ server'.listening = FALSE
      BY <2>2, ListenFailsIs
    <3> QED BY <2>2, <3>1 DEF IsNorth
  <2>3. CASE /\ north' = [srv |-> 0, maps |-> 0, bank |-> NoBank]
             /\ server' = [listening |-> FALSE, srv |-> 0, bank |-> NoBank]
             /\ unsettled' = {"modbus"}
    BY <2>3 DEF IsNorth, IsServer
  <2> QED BY <1>2, <2>1, <2>2, <2>3
<1>8. ConfigShape'
  BY <1>3, <1>4, <1>5, <1>6, <1>7, NoOpIs, NoMgmtIs DEF ConfigShape
<1>9. StageInv(op', mgmt')
  BY <1>4, NoOpIs, NoMgmtIs DEF StageInv
<1>10. CollectionInv' /\ ServiceInv'
  BY <1>4, <1>5, <1>6, NoOpIs DEF CollectionInv, ServiceInv, Unadopted, Early, InForce
<1>11. ModbusInv'
  BY <1>4, <1>7, NoOpIs, NoMgmtIs DEF ModbusInv, ServerInv, MappingInv, ImportInv, ResetInv
<1> QED BY <1>8, <1>9, <1>10, <1>11 DEF ConfigInv

LEMMA ConfigStep ==
  ASSUME ConfigInv, [ConfigNext]_configVars
  PROVE  ConfigInv'
<1>1. CASE StartPolling \/ StopPolling \/ ServiceStops \/ Drained
  BY <1>1, PollingKeeps
<1>2. CASE \/ FailApply \/ Prepare \/ ReloadFails \/ Adopt \/ AdoptBack \/ ReloadBackFails
           \/ StartAgain
  BY <1>2, ApplyingKeeps
<1>3. CASE SaveMasters \/ RestoreMasters \/ \E v \in {0, 1} : BeginEdit(v) \/ EditChannels(v)
  BY <1>3, EditKeeps
<1>4. CASE \/ \E v \in {0, 1} : ApplyServer(v) \/ EditMapping(v)
           \/ ServerListens \/ ServerUnstored \/ ServerBack
           \/ MappingReloads \/ MappingUnstored \/ MappingBack
  BY <1>4, ServerKeeps
<1>5. CASE \/ \E c \in Configs : BeginImport(c)
           \/ ImportStore \/ ImportRestore \/ ImportBank \/ ImportListens
           \/ ImportBankBack \/ ImportListensBack
  BY <1>5, ImportKeeps
<1>6. CASE \/ BeginReset \/ ResetSaves \/ ResetBank \/ ResetSrvBack \/ ResetMapsBack
           \/ ResetServerBack \/ ResetEnds
  BY <1>6, ResetKeeps
<1>7. CASE (\E v \in Times : SaveTime(v)) \/ AdoptTime \/ UnstoreTime
  BY <1>7, TimeKeeps
<1>8. CASE RestartConfig
  BY <1>8, RestartKeeps
<1>9. CASE UNCHANGED configVars
  BY <1>9 DEF configVars, ConfigInv, ConfigShape, StageInv, CollectionInv, ServiceInv, ModbusInv,
              Kept, Unadopted, Early, InForce, ServerInv, MappingInv, ImportInv, ResetInv,
              ServedAs, Mapped, Left
<1> QED BY <1>1, <1>2, <1>3, <1>4, <1>5, <1>6, <1>7, <1>8, <1>9 DEF ConfigNext

(* However an operation ends, the configuration that runs is the stored    *)
(* one, the service polls by it and polls again if it did before, and the  *)
(* Modbus server, its mappings and its bank are the stored ones too,       *)
(* unless the operator was told that the former state could not be         *)
(* restored.                                                               *)
THEOREM RunningStaysStored == ConfigSpec => []RunningIsStored
<1>1. ConfigInv => RunningIsStored
  BY DEF ConfigInv, CollectionInv, ServiceInv, ModbusInv, Kept, InForce, ServedAs, RunningIsStored
<1> QED BY StartIs, ConfigStep, <1>1, PTL DEF ConfigSpec

(***************************************************************************)
(* DeviceTemplates, for any types, forms and fields.                       *)
(***************************************************************************)
-----------------------------------------------------------------------------
(* The tables: a type is stored when it has fields, and only then it may   *)
(* be one that is shipped.  A shipped type has a preference for each of    *)
(* its fields and for no other, and what is not stored has none.           *)
IsRow(r) ==
  /\ r = [builtin |-> r.builtin, keys |-> r.keys]
  /\ r.builtin \in BOOLEAN /\ r.keys \subseteq Keys
  /\ r.keys = {} => ~r.builtin

ChosenFor(chosen, r) ==
  /\ chosen = [k \in Keys |-> chosen[k]]
  /\ r.keys = {} => chosen = Unset
  /\ r.builtin => \A k \in Keys : chosen[k] = "unset" <=> k \notin r.keys

TablesShape(t) ==
  /\ t = [row |-> t.row, show |-> t.show, keep |-> t.keep, grouping |-> t.grouping,
          grouped |-> t.grouped, bound |-> t.bound]
  /\ DOMAIN t.row = Types /\ DOMAIN t.show = Types /\ DOMAIN t.keep = Types
  /\ t.row = [id \in Types |-> t.row[id]] /\ t.show = [id \in Types |-> t.show[id]]
  /\ t.keep = [id \in Types |-> t.keep[id]]

TablesInv(t) ==
  /\ TablesShape(t)
  /\ \A id \in Types : /\ IsRow(t.row[id])
                       /\ ChosenFor(t.show[id], t.row[id]) /\ ChosenFor(t.keep[id], t.row[id])

(* What is published has the types that are stored.                        *)
Published(list, t) == \A id \in Types : list[id] # NoForm <=> t.row[id].keys # {}

HasType(t, id) == id # NoType => id \in Types /\ t.row[id].keys # {}

(* A package leaves its master a type.                                     *)
PackageInv(package, t) ==
  /\ package.bound # NoType =>
       package.bound \in Types /\ (t.row[package.bound].builtin \/ package.forms[package.bound] # NoForm)
  /\ \A id \in Types : package.forms[id] # NoForm =>
       package.forms[id].keys # {} /\ package.forms[id].keys \subseteq Keys

TemplatesShape ==
  /\ registry = [list |-> registry.list, moved |-> registry.moved] /\ registry.moved \in Nat \ {0}
  /\ publishing = [at |-> publishing.at, list |-> publishing.list]
  /\ publishing.at \in {"no", "stored", "listed"}
  /\ request = [kind |-> request.kind, at |-> request.at, id |-> request.id,
                form |-> request.form, package |-> request.package]
  /\ plan = [form |-> plan.form, gen |-> plan.gen, seen |-> plan.seen]
  /\ plan.gen \in Nat /\ plan.seen \in Nat
  /\ templateBounds = [edits |-> templateBounds.edits, starts |-> templateBounds.starts,
                       faults |-> templateBounds.faults]
  /\ templateBounds.starts \in Nat
  /\ program.up \in BOOLEAN /\ untold \in BOOLEAN

RequestInv ==
  /\ request.at \in {"no", "begun", "stored", "imported", "restored"}
  /\ request.kind = "none" <=> request.at = "no"
  /\ request.kind = "master" => request.at = "begun" /\ HasType(tables, request.id)
  /\ request.at \in {"imported", "restored"} => request.kind = "import"
  /\ request.at = "stored" => request.kind \in {"create", "update", "delete"}
  /\ request.kind \in {"create", "update", "delete"} => request.id \in Types
  /\ request.kind \in {"create", "update"} => request.form \in Forms
  /\ request.kind = "delete" /\ request.at = "begun" => request.id # binding
  /\ request.kind = "import" => PackageInv(request.package, tables)

(* The master goes over to another type with the last step of an import.   *)
Importing == request.at \in {"imported", "restored"}

RegistryInv ==
  /\ ~(publishing.at = "stored" /\ request.at \in {"stored", "imported", "restored"}) =>
       Published(registry.list, tables)
  /\ publishing.at = "stored" => publishing.list = LoadedTypes(tables)
  /\ publishing.at = "listed" \/ (publishing.at = "no" /\ untold) =>
       registry.list = LoadedTypes(tables)

BindingInv == HasType(tables, tables.bound) /\ (~Importing => binding = tables.bound)

(* A plan of the present generation is of the present types, until the     *)
(* next are listed.                                                        *)
PlanInv ==
  plan.seen = 0 /\ plan.gen = registry.moved /\ publishing.at # "listed" =>
    plan = Planned(registry.list, registry.moved, binding)

TemplatesInv ==
  /\ TablesInv(tables) /\ TemplatesShape
  /\ plan.gen <= registry.moved /\ plan.seen <= registry.moved
  /\ IF program.up THEN RequestInv /\ RegistryInv /\ BindingInv /\ PlanInv
     ELSE publishing.at = "no"

-----------------------------------------------------------------------------
(* What the operations on the tables do to them.                           *)
LEMMA RowsAre ==
  /\ IsRow(NoRow) /\ NoRow.keys = {} /\ NoRow.builtin = FALSE
  /\ \A builtin, form : Row(builtin, form).keys = form.keys /\ Row(builtin, form).builtin = builtin
  /\ \A builtin \in BOOLEAN : \A form :
       form.keys # {} /\ form.keys \subseteq Keys => IsRow(Row(builtin, form))
BY DEF IsRow, NoRow, Row, NoForm

LEMMA StoredAre ==
  ASSUME NEW t, TablesInv(t), NEW id \in Types
  PROVE  id \in Stored(t) <=> t.row[id].keys # {}
<1>1. PICK r : r = t.row[id]
  OBVIOUS
<1>2. IsRow(r)
  BY <1>1 DEF TablesInv
<1>3. r # NoRow <=> r.keys # {}
  BY <1>2 DEF IsRow, NoRow, Row, NoForm
<1> QED BY <1>1, <1>3 DEF Stored

LEMMA LoadedAre ==
  ASSUME NEW t, TablesInv(t), NEW id \in Types
  PROVE  /\ LoadedTypes(t)[id] # NoForm <=> t.row[id].keys # {}
         /\ t.row[id].keys # {} => LoadedTypes(t)[id].keys = t.row[id].keys
BY DEF LoadedTypes, NoForm

LEMMA LoadedIsPublished ==
  ASSUME NEW t, TablesInv(t)
  PROVE  Published(LoadedTypes(t), t)
BY LoadedAre DEF Published

LEMMA FormsAre ==
  ASSUME NEW form \in Forms
  PROVE  form # NoForm /\ form.keys # {} /\ form.keys \subseteq Keys
BY TemplatesAssumption DEF Valid, NoForm

LEMMA AnswersAre == \A k, chosen : Answer(k, chosen) \in {"yes", "no"}
BY DEF Answer

(* One type of the tables is replaced.                                     *)
Others(t, w, id) ==
  /\ TablesShape(w) /\ w.bound = t.bound
  /\ \A j \in Types \ {id} : w.row[j] = t.row[j] /\ w.show[j] = t.show[j] /\ w.keep[j] = t.keep[j]

LEMMA GroupedIs ==
  ASSUME NEW t, TablesShape(t), NEW id \in Types, NEW form, NEW w, w = Grouped(t, id, form)
  PROVE  /\ TablesShape(w) /\ w.bound = t.bound
         /\ w.row = t.row /\ w.show = t.show /\ w.keep = t.keep
<1>1. PICK grouping, grouped : w = [t EXCEPT !.grouping = grouping, !.grouped = grouped]
  BY DEF Grouped
<1> QED BY <1>1 DEF TablesShape

Replacing(t, w, id, row, show, keep) ==
  w = [t EXCEPT !.row = [t.row EXCEPT ![id] = row], !.show = [t.show EXCEPT ![id] = show],
                !.keep = [t.keep EXCEPT ![id] = keep]]

LEMMA TypeReplaced ==
  ASSUME NEW t, TablesShape(t), NEW id \in Types, NEW row, NEW show, NEW keep, NEW w,
         Replacing(t, w, id, row, show, keep)
  PROVE  /\ Others(t, w, id)
         /\ w.row[id] = row /\ w.show[id] = show /\ w.keep[id] = keep
<1>1. PICK rows, shows, keeps : /\ rows = [t.row EXCEPT ![id] = row]
                                /\ shows = [t.show EXCEPT ![id] = show]
                                /\ keeps = [t.keep EXCEPT ![id] = keep]
  OBVIOUS
<1>2. /\ rows = [j \in Types |-> rows[j]] /\ DOMAIN rows = Types /\ rows[id] = row
      /\ shows = [j \in Types |-> shows[j]] /\ DOMAIN shows = Types /\ shows[id] = show
      /\ keeps = [j \in Types |-> keeps[j]] /\ DOMAIN keeps = Types /\ keeps[id] = keep
      /\ \A j \in Types \ {id} : rows[j] = t.row[j] /\ shows[j] = t.show[j] /\ keeps[j] = t.keep[j]
  BY <1>1 DEF TablesShape
<1>3. w = [t EXCEPT !.row = rows, !.show = shows, !.keep = keeps]
  BY <1>1 DEF Replacing
<1>4. /\ w.row = rows /\ w.show = shows /\ w.keep = keeps /\ w.bound = t.bound
      /\ w.grouping = t.grouping /\ w.grouped = t.grouped
      /\ w = [row |-> rows, show |-> shows, keep |-> keeps, grouping |-> w.grouping,
              grouped |-> w.grouped, bound |-> w.bound]
  BY <1>3 DEF TablesShape
<1> QED BY <1>2, <1>4 DEF TablesShape, Others

IsWritten(t, w, id, form, builtin) ==
  /\ Others(t, w, id)
  /\ w.row[id] = [builtin |-> builtin, keys |-> form.keys]
  /\ w.show[id] = [k \in Keys |-> IF k \in form.keys THEN Answer(k, form.shown)
                                  ELSE t.show[id][k]]
  /\ w.keep[id] = [k \in Keys |-> IF k \in form.keys THEN Answer(k, form.kept)
                                  ELSE t.keep[id][k]]

LEMMA WrittenIs ==
  ASSUME NEW t, TablesShape(t), NEW id \in Types, NEW form, NEW builtin
  PROVE  IsWritten(t, Written(t, id, form, builtin), id, form, builtin)
<1>0. PICK w : w = Written(t, id, form, builtin)
  OBVIOUS
<1>1. PICK row, show, keep :
        /\ row = Row(builtin, form)
        /\ show = [k \in Keys |-> IF k \in form.keys THEN Answer(k, form.shown) ELSE t.show[id][k]]
        /\ keep = [k \in Keys |-> IF k \in form.keys THEN Answer(k, form.kept) ELSE t.keep[id][k]]
  OBVIOUS
<1>2. PICK u : Replacing(t, u, id, row, show, keep)
  BY DEF Replacing
<1>3. w = Grouped(u, id, form)
  BY <1>0, <1>1, <1>2 DEF Written, TablesShape, Replacing
<1>4. Others(t, u, id) /\ u.row[id] = row /\ u.show[id] = show /\ u.keep[id] = keep
  BY <1>2, TypeReplaced
<1>5. TablesShape(w) /\ w.bound = u.bound /\ w.row = u.row /\ w.show = u.show /\ w.keep = u.keep
  BY <1>3, <1>4, GroupedIs DEF Others
<1> QED BY <1>0, <1>1, <1>4, <1>5 DEF Others, IsWritten, Row

LEMMA RemovedIs ==
  ASSUME NEW t, TablesShape(t), NEW id \in Types, NEW w, w = Removed(t, id)
  PROVE  Others(t, w, id) /\ w.row[id] = NoRow /\ w.show[id] = Unset /\ w.keep[id] = Unset
<1>1. PICK u : Replacing(t, u, id, NoRow, Unset, Unset)
  BY DEF Replacing
<1>2. Others(t, u, id) /\ u.row[id] = NoRow /\ u.show[id] = Unset /\ u.keep[id] = Unset
  BY <1>1, TypeReplaced
<1>3. PICK grouping, grouped : w = [u EXCEPT !.grouping = grouping, !.grouped = grouped]
  BY <1>1 DEF Removed, TablesShape, Replacing
<1>4. TablesShape(w) /\ w.bound = u.bound /\ w.row = u.row /\ w.show = u.show /\ w.keep = u.keep
  BY <1>2, <1>3 DEF TablesShape, Others
<1> QED BY <1>2, <1>4 DEF Others

IsSynced(t, w, id, form) ==
  /\ Others(t, w, id)
  /\ w.row[id] = [builtin |-> TRUE, keys |-> form.keys]
  /\ w.show[id] = Refill(t.show[id], form, form.shown)
  /\ w.keep[id] = Refill(t.keep[id], form, form.kept)

LEMMA SyncedIs ==
  ASSUME NEW t, TablesShape(t), NEW id \in Types, NEW form
  PROVE  IsSynced(t, Synced(t, id, form), id, form)
<1>0. PICK w : w = Synced(t, id, form)
  OBVIOUS
<1>1. PICK row, show, keep :
        /\ row = [builtin |-> TRUE, keys |-> form.keys]
        /\ show = Refill(t.show[id], form, form.shown) /\ keep = Refill(t.keep[id], form, form.kept)
  OBVIOUS
<1>2. PICK u : Replacing(t, u, id, row, show, keep)
  BY DEF Replacing
<1>3. w = Grouped(u, id, form)
  BY <1>0, <1>1, <1>2 DEF Synced, Row, TablesShape, Replacing
<1>4. Others(t, u, id) /\ u.row[id] = row /\ u.show[id] = show /\ u.keep[id] = keep
  BY <1>2, TypeReplaced
<1>5. TablesShape(w) /\ w.bound = u.bound /\ w.row = u.row /\ w.show = u.show /\ w.keep = u.keep
  BY <1>3, <1>4, GroupedIs DEF Others
<1> QED BY <1>0, <1>1, <1>4, <1>5 DEF Others, IsSynced

-----------------------------------------------------------------------------
(* ... and that they keep them in order.                                   *)
Entry(t, id) ==
  IsRow(t.row[id]) /\ ChosenFor(t.show[id], t.row[id]) /\ ChosenFor(t.keep[id], t.row[id])

LEMMA OthersKeep ==
  ASSUME NEW t, TablesInv(t), NEW id \in Types, NEW w, Others(t, w, id), Entry(w, id)
  PROVE  TablesInv(w)
BY DEF TablesInv, Others, Entry

LEMMA WrittenHere ==
  ASSUME NEW t, TablesInv(t), NEW id \in Types, NEW form \in Forms, NEW builtin \in BOOLEAN,
         builtin => t.row[id].keys = {}, NEW w, w = Written(t, id, form, builtin)
  PROVE  Entry(w, id) /\ w.row[id].keys # {}
<1>1. PICK row, show, keep : row = w.row[id] /\ show = w.show[id] /\ keep = w.keep[id]
  OBVIOUS
<1>2. /\ row = [builtin |-> builtin, keys |-> form.keys]
      /\ show = [k \in Keys |-> IF k \in form.keys THEN Answer(k, form.shown) ELSE t.show[id][k]]
      /\ keep = [k \in Keys |-> IF k \in form.keys THEN Answer(k, form.kept) ELSE t.keep[id][k]]
  <2>1. IsWritten(t, w, id, form, builtin)
    BY WrittenIs DEF TablesInv
  <2> QED BY <1>1, <2>1 DEF IsWritten
<1>3. IsRow(row) /\ row.keys = form.keys /\ row.builtin = builtin /\ form.keys # {}
  BY <1>2, FormsAre DEF IsRow
<1>4. builtin => \A k \in Keys : t.show[id][k] = "unset" /\ t.keep[id][k] = "unset"
  <2>1. /\ t.row[id].keys = {} => t.show[id] = Unset
        /\ t.row[id].keys = {} => t.keep[id] = Unset
    BY DEF TablesInv, ChosenFor
  <2> QED BY <2>1 DEF Unset
<1>5. ChosenFor(show, row) /\ ChosenFor(keep, row)
  BY <1>2, <1>3, <1>4, AnswersAre DEF ChosenFor
<1> QED BY <1>1, <1>3, <1>5 DEF Entry

LEMMA RemovedHere ==
  ASSUME NEW t, TablesInv(t), NEW id \in Types, NEW w, w = Removed(t, id)
  PROVE  Entry(w, id)
BY RemovedIs, RowsAre DEF TablesInv, Entry, ChosenFor, Unset

LEMMA RefillIs ==
  ASSUME NEW chosen, NEW form, NEW shipped, NEW r, r = Refill(chosen, form, shipped)
  PROVE  /\ r = [k \in Keys |-> r[k]]
         /\ \A k \in Keys : /\ r[k] = "unset" <=> k \notin form.keys
                            /\ k \in form.keys => r[k] = IF chosen[k] # "unset" THEN chosen[k]
                                                         ELSE Answer(k, shipped)
BY AnswersAre DEF Refill

LEMMA SyncedHere ==
  ASSUME NEW t, TablesInv(t), NEW id \in Types, NEW form \in Forms, NEW w, w = Synced(t, id, form)
  PROVE  Entry(w, id)
<1>1. PICK row, show, keep : row = w.row[id] /\ show = w.show[id] /\ keep = w.keep[id]
  OBVIOUS
<1>2. /\ row = [builtin |-> TRUE, keys |-> form.keys]
      /\ show = Refill(t.show[id], form, form.shown) /\ keep = Refill(t.keep[id], form, form.kept)
  <2>1. IsSynced(t, w, id, form)
    BY SyncedIs DEF TablesInv
  <2> QED BY <1>1, <2>1 DEF IsSynced
<1>3. IsRow(row) /\ row.keys = form.keys /\ row.builtin = TRUE /\ form.keys # {}
  BY <1>2, FormsAre DEF IsRow
<1>4. /\ show = [k \in Keys |-> show[k]] /\ \A k \in Keys : show[k] = "unset" <=> k \notin form.keys
      /\ keep = [k \in Keys |-> keep[k]] /\ \A k \in Keys : keep[k] = "unset" <=> k \notin form.keys
  BY <1>2, RefillIs
<1>5. ChosenFor(show, row) /\ ChosenFor(keep, row)
  BY <1>3, <1>4 DEF ChosenFor
<1> QED BY <1>1, <1>3, <1>5 DEF Entry

LEMMA WrittenKeeps ==
  ASSUME NEW t, TablesInv(t), NEW id \in Types, NEW form \in Forms,
         NEW w, w = Written(t, id, form, FALSE)
  PROVE  TablesInv(w) /\ Others(t, w, id) /\ w.row[id].keys # {}
<1>1. Entry(w, id) /\ w.row[id].keys # {}
  BY WrittenHere
<1>2. Others(t, w, id)
  <2>1. PICK builtin : builtin = FALSE /\ w = Written(t, id, form, builtin)
    OBVIOUS
  <2>2. IsWritten(t, w, id, form, builtin)
    BY <2>1, WrittenIs DEF TablesInv
  <2> QED BY <2>2 DEF IsWritten
<1> QED BY <1>1, <1>2, OthersKeep

LEMMA RemovedKeeps ==
  ASSUME NEW t, TablesInv(t), NEW id \in Types, NEW w, w = Removed(t, id)
  PROVE  TablesInv(w) /\ Others(t, w, id)
BY RemovedHere, RemovedIs, OthersKeep DEF TablesInv

LEMMA ReplacedHere ==
  ASSUME NEW t, TablesInv(t), NEW id \in Types, NEW form, form.keys # {}, form.keys \subseteq Keys,
         NEW w, w = Replaced(t, id, form)
  PROVE  Entry(w, id) /\ w.row[id] = [builtin |-> FALSE, keys |-> form.keys]
<1>1. PICK u : u = Removed(t, id)
  OBVIOUS
<1>2. PICK builtin \in BOOLEAN : ~builtin /\ w = Written(u, id, form, builtin) /\ TablesShape(u)
  BY <1>1, RemovedKeeps DEF Replaced, TablesInv
<1>3. PICK row, show, keep : row = w.row[id] /\ show = w.show[id] /\ keep = w.keep[id]
  OBVIOUS
<1>4. /\ row = [builtin |-> FALSE, keys |-> form.keys]
      /\ show = [k \in Keys |-> IF k \in form.keys THEN Answer(k, form.shown) ELSE u.show[id][k]]
      /\ keep = [k \in Keys |-> IF k \in form.keys THEN Answer(k, form.kept) ELSE u.keep[id][k]]
  <2>1. IsWritten(u, w, id, form, builtin)
    BY <1>2, WrittenIs
  <2> QED BY <1>2, <1>3, <2>1 DEF IsWritten
<1>5. IsRow(row) /\ row.keys = form.keys /\ row.builtin = FALSE
  BY <1>4 DEF IsRow
<1>6. ChosenFor(show, row) /\ ChosenFor(keep, row)
  BY <1>4, <1>5 DEF ChosenFor
<1> QED BY <1>3, <1>4, <1>5, <1>6 DEF Entry

(* A start keeps of a shipped type what was chosen.                        *)
LEMMA SeededIs ==
  ASSUME NEW t, TablesInv(t), NEW release \in [Types -> Forms \cup {NoForm}],
         NEW w, w = Seeded(t, release)
  PROVE  /\ TablesInv(w) /\ w.bound = t.bound
         /\ \A id \in Types : t.row[id].builtin =>
              IF release[id] = NoForm THEN w.row[id] = NoRow
              ELSE /\ w.row[id] = [builtin |-> TRUE, keys |-> release[id].keys]
                   /\ w.show[id] = Refill(t.show[id], release[id], release[id].shown)
                   /\ w.keep[id] = Refill(t.keep[id], release[id], release[id].kept)
<1> DEFINE after(id) == IF t.row[id].builtin /\ release[id] = NoForm THEN Removed(t, id)
                        ELSE IF release[id] = NoForm THEN t
                        ELSE IF id \in Stored(t) THEN Synced(t, id, release[id])
                        ELSE Written(t, id, release[id], TRUE)
           row == [id \in Types |-> after(id).row[id]]
           show == [id \in Types |-> after(id).show[id]]
           keep == [id \in Types |-> after(id).keep[id]]
<1>1. PICK grouping, grouped : w = [t EXCEPT !.row = row, !.show = show, !.keep = keep,
                                             !.grouping = grouping, !.grouped = grouped]
  BY DEF Seeded
<1>2. \A id \in Types : /\ row[id] = after(id).row[id]
                        /\ show[id] = after(id).show[id] /\ keep[id] = after(id).keep[id]
  OBVIOUS
<1>3. /\ row = [id \in Types |-> row[id]] /\ DOMAIN row = Types
      /\ show = [id \in Types |-> show[id]] /\ DOMAIN show = Types
      /\ keep = [id \in Types |-> keep[id]] /\ DOMAIN keep = Types
  OBVIOUS
<1>4. ASSUME NEW id \in Types
      PROVE  /\ Entry(after(id), id)
             /\ t.row[id].builtin =>
                  IF release[id] = NoForm THEN after(id).row[id] = NoRow
                  ELSE /\ after(id).row[id] = [builtin |-> TRUE, keys |-> release[id].keys]
                       /\ after(id).show[id] = Refill(t.show[id], release[id], release[id].shown)
                       /\ after(id).keep[id] = Refill(t.keep[id], release[id], release[id].kept)
  <2>1. PICK a : a = after(id)
    OBVIOUS
  <2>2. CASE t.row[id].builtin /\ release[id] = NoForm
    <3>1. a = Removed(t, id)
      BY <2>1, <2>2
    <3>2. Entry(a, id) /\ a.row[id] = NoRow
      BY <3>1, RemovedHere, RemovedIs DEF TablesInv
    <3> QED BY <2>1, <2>2, <3>2
  <2>3. CASE ~t.row[id].builtin /\ release[id] = NoForm
    <3>1. a = t
      BY <2>1, <2>3
    <3> QED BY <2>1, <2>3, <3>1 DEF TablesInv, Entry
  <2>4. CASE release[id] # NoForm /\ id \in Stored(t)
    <3>1. PICK form \in Forms : form = release[id] /\ a = Synced(t, id, form)
      BY <2>1, <2>4
    <3>2. Entry(a, id)
      BY <3>1, SyncedHere
    <3>3. /\ a.row[id] = [builtin |-> TRUE, keys |-> release[id].keys]
          /\ a.show[id] = Refill(t.show[id], release[id], release[id].shown)
          /\ a.keep[id] = Refill(t.keep[id], release[id], release[id].kept)
      <4>1. IsSynced(t, a, id, form)
        BY <3>1, SyncedIs DEF TablesInv
      <4> QED BY <3>1, <4>1 DEF IsSynced
    <3> QED BY <2>1, <2>4, <3>2, <3>3
  <2>5. CASE release[id] # NoForm /\ id \notin Stored(t)
    <3>1. a = Written(t, id, release[id], TRUE) /\ release[id] \in Forms
      BY <2>1, <2>5
    <3>2. t.row[id].keys = {} /\ ~t.row[id].builtin
      BY <2>5, StoredAre DEF TablesInv, IsRow
    <3>3. Entry(a, id)
      BY <3>1, <3>2, WrittenHere
    <3> QED BY <2>1, <3>2, <3>3
  <2> QED BY <2>2, <2>3, <2>4, <2>5
<1> HIDE DEF after, row, show, keep
<1>5. TablesShape(w) /\ w.row = row /\ w.show = show /\ w.keep = keep /\ w.bound = t.bound
  BY <1>1, <1>3 DEF TablesInv, TablesShape
<1>6. TablesInv(w)
  BY <1>2, <1>4, <1>5 DEF TablesInv, Entry
<1> QED BY <1>2, <1>4, <1>5, <1>6

(* An import leaves the shipped types alone, and its master a type.        *)
LEMMA ImportedIs ==
  ASSUME NEW t, TablesInv(t), NEW package, PackageInv(package, t),
         NEW w, w = Imported(t, package)
  PROVE  /\ TablesInv(w) /\ w.bound = package.bound /\ HasType(w, w.bound)
         /\ \A id \in Types : t.row[id].builtin => w.row[id] = t.row[id]
         /\ \A id \in Types : w.row[id].builtin => t.row[id].builtin
<1> DEFINE after(id) == IF t.row[id].builtin THEN t
                        ELSE IF package.forms[id] = NoForm THEN Removed(t, id)
                        ELSE Replaced(t, id, package.forms[id])
           row == [id \in Types |-> after(id).row[id]]
           show == [id \in Types |-> after(id).show[id]]
           keep == [id \in Types |-> after(id).keep[id]]
<1>1. PICK grouping, grouped : w = [row |-> row, show |-> show, keep |-> keep, grouping |-> grouping,
                                    grouped |-> grouped, bound |-> package.bound]
  BY DEF Imported
<1>2. \A id \in Types : /\ row[id] = after(id).row[id]
                        /\ show[id] = after(id).show[id] /\ keep[id] = after(id).keep[id]
  OBVIOUS
<1>3. /\ row = [id \in Types |-> row[id]] /\ DOMAIN row = Types
      /\ show = [id \in Types |-> show[id]] /\ DOMAIN show = Types
      /\ keep = [id \in Types |-> keep[id]] /\ DOMAIN keep = Types
  OBVIOUS
<1>4. ASSUME NEW id \in Types
      PROVE  /\ Entry(after(id), id)
             /\ t.row[id].builtin => after(id).row[id] = t.row[id]
             /\ ~t.row[id].builtin => ~after(id).row[id].builtin
             /\ ~t.row[id].builtin /\ package.forms[id] # NoForm => after(id).row[id].keys # {}
  <2>1. PICK a : a = after(id)
    OBVIOUS
  <2>2. CASE t.row[id].builtin
    <3>1. a = t
      BY <2>1, <2>2
    <3> QED BY <2>1, <2>2, <3>1 DEF TablesInv, Entry
  <2>3. CASE ~t.row[id].builtin /\ package.forms[id] = NoForm
    <3>1. a = Removed(t, id)
      BY <2>1, <2>3
    <3>2. Entry(a, id) /\ a.row[id] = NoRow
      BY <3>1, RemovedHere, RemovedIs DEF TablesInv
    <3> QED BY <2>1, <2>3, <3>2, RowsAre
  <2>4. CASE ~t.row[id].builtin /\ package.forms[id] # NoForm
    <3>1. PICK form : form = package.forms[id]
      OBVIOUS
    <3>2. a = Replaced(t, id, form) /\ form.keys # {} /\ form.keys \subseteq Keys
      BY <2>1, <2>4, <3>1 DEF PackageInv
    <3>3. Entry(a, id) /\ a.row[id] = [builtin |-> FALSE, keys |-> form.keys]
      BY <3>2, ReplacedHere
    <3>4. a.row[id].keys # {} /\ a.row[id].builtin = FALSE
      BY <3>2, <3>3, RowsAre
    <3> QED BY <2>1, <2>4, <3>3, <3>4
  <2> QED BY <2>2, <2>3, <2>4
<1> HIDE DEF after, row, show, keep
<1>5. TablesShape(w) /\ w.row = row /\ w.show = show /\ w.keep = keep /\ w.bound = package.bound
  BY <1>1, <1>3 DEF TablesShape
<1>6. TablesInv(w)
  BY <1>2, <1>4, <1>5 DEF TablesInv, Entry
<1>7. /\ \A id \in Types : t.row[id].builtin => w.row[id] = t.row[id]
      /\ \A id \in Types : w.row[id].builtin => t.row[id].builtin
  BY <1>2, <1>4, <1>5
<1>8. ASSUME package.bound # NoType
      PROVE  package.bound \in Types /\ w.row[package.bound].keys # {}
  <2>1. PICK id \in Types : /\ id = package.bound
                            /\ t.row[id].builtin \/ package.forms[id] # NoForm
    BY <1>8 DEF PackageInv
  <2>2. t.row[id].builtin => t.row[id].keys # {}
    BY DEF TablesInv, IsRow
  <2> QED BY <1>2, <1>4, <1>5, <2>1, <2>2
<1> QED BY <1>5, <1>6, <1>7, <1>8 DEF HasType

-----------------------------------------------------------------------------
(* The invariant of a program that is up, in parts.                        *)
UpInv ==
  /\ program.up /\ TablesInv(tables) /\ TemplatesShape
  /\ plan.gen <= registry.moved /\ plan.seen <= registry.moved
  /\ RequestInv /\ RegistryInv /\ BindingInv /\ PlanInv

LEMMA NothingIs ==
  /\ NoRequest.kind = "none" /\ NoRequest.at = "no"
  /\ NothingToPublish.at = "no"
  /\ NothingToPublish = [at |-> NothingToPublish.at, list |-> NothingToPublish.list]
  /\ NoRequest = [kind |-> NoRequest.kind, at |-> NoRequest.at, id |-> NoRequest.id,
                  form |-> NoRequest.form, package |-> NoRequest.package]
BY DEF NoRequest, NothingToPublish

CountShape(b) == b = [edits |-> b.edits, starts |-> b.starts, faults |-> b.faults]

LEMMA CountsAre ==
  ASSUME CountShape(templateBounds), templateBounds.starts \in Nat,
         UNCHANGED templateBounds \/ CountsTemplates("edits") \/ CountsTemplates("faults")
  PROVE  CountShape(templateBounds') /\ templateBounds'.starts = templateBounds.starts
<1>1. CASE UNCHANGED templateBounds
  BY <1>1
<1>2. CASE CountsTemplates("edits")
  BY <1>2 DEF CountsTemplates, CountShape
<1>3. CASE CountsTemplates("faults")
  BY <1>3 DEF CountsTemplates, CountShape
<1> QED BY <1>1, <1>2, <1>3

PublishedSince(t) ==
  publishing' = [at |-> "stored", list |-> LoadedTypes(t)]

(* The types that are published.                                           *)
LEMMA PublicationKeeps ==
  ASSUME UpInv, PublishList \/ MoveGeneration
  PROVE  UpInv'
<1>0. /\ program.up /\ TablesInv(tables) /\ TemplatesShape
      /\ plan.gen <= registry.moved /\ plan.seen <= registry.moved
      /\ RequestInv /\ RegistryInv /\ BindingInv /\ PlanInv
  BY DEF UpInv
<1>1. CASE PublishList
  <2>1. /\ publishing.at = "stored" /\ UNCHANGED <<tables, binding, request, program, plan, templateBounds>>
        /\ untold' = TRUE
        /\ publishing' = [publishing EXCEPT !.at = "listed"]
        /\ registry' = [registry EXCEPT !.list = publishing.list]
    BY <1>1 DEF PublishList
  <2>2. /\ publishing' = [at |-> "listed", list |-> publishing.list]
        /\ registry' = [list |-> publishing.list, moved |-> registry.moved]
    BY <1>0, <2>1 DEF TemplatesShape
  <2>3. registry'.list = LoadedTypes(tables)
    BY <1>0, <2>1, <2>2 DEF RegistryInv
  <2>4. TemplatesShape'
    BY <1>0, <2>1, <2>2 DEF TemplatesShape
  <2>5. RequestInv' /\ BindingInv'
    BY <1>0, <2>1 DEF RequestInv, BindingInv, HasType, PackageInv, Importing
  <2>6. Published(registry'.list, tables)
    BY <1>0, <2>3, LoadedIsPublished
  <2>7. RegistryInv'
    BY <2>1, <2>2, <2>3, <2>6 DEF RegistryInv
  <2>8. PlanInv'
    BY <2>2 DEF PlanInv
  <2> QED BY <1>0, <2>1, <2>2, <2>4, <2>5, <2>7, <2>8 DEF UpInv
<1>2. CASE MoveGeneration
  <2>1. /\ publishing.at = "listed" /\ UNCHANGED <<tables, binding, request, program, plan, untold, templateBounds>>
        /\ publishing' = NothingToPublish
        /\ registry' = [registry EXCEPT !.moved = registry.moved + 1]
    BY <1>2 DEF MoveGeneration
  <2>2. registry' = [list |-> registry.list, moved |-> registry.moved + 1]
    BY <1>0, <2>1 DEF TemplatesShape
  <2>a. /\ registry'.moved = registry.moved + 1 /\ registry'.list = registry.list
        /\ registry' = [list |-> registry'.list, moved |-> registry'.moved]
        /\ registry'.moved \in Nat \ {0}
    BY <1>0, <2>2 DEF TemplatesShape
  <2>b. publishing'.at = "no" /\ publishing' = [at |-> publishing'.at, list |-> publishing'.list]
    BY <2>1, NothingIs
  <2>3. TemplatesShape'
    BY <1>0, <2>1, <2>a, <2>b DEF TemplatesShape
  <2>4. RequestInv' /\ BindingInv'
    BY <1>0, <2>1 DEF RequestInv, BindingInv, HasType, PackageInv, Importing
  <2>5. RegistryInv'
    BY <1>0, <2>1, <2>2, NothingIs DEF RegistryInv, Published
  <2>6. plan.gen < registry'.moved /\ plan.seen < registry'.moved /\ PlanInv'
    BY <1>0, <2>1, <2>2 DEF PlanInv, TemplatesShape
  <2> QED BY <1>0, <2>1, <2>3, <2>4, <2>5, <2>6, NothingIs DEF UpInv, TemplatesShape
<1> QED BY <1>1, <1>2

(* A request begins.                                                       *)
LEMMA BeginKeeps ==
  ASSUME UpInv, BeginCreate \/ BeginUpdate \/ BeginDelete \/ BeginMaster \/ BeginTypesImport
  PROVE  UpInv'
<1>0. /\ program.up /\ TablesInv(tables) /\ TemplatesShape
      /\ plan.gen <= registry.moved /\ plan.seen <= registry.moved
      /\ RequestInv /\ RegistryInv /\ BindingInv /\ PlanInv
  BY DEF UpInv
<1>1. /\ request.kind = "none" /\ CountsTemplates("edits")
      /\ UNCHANGED <<tables, registry, publishing, binding, program, plan, untold>>
  BY DEF BeginCreate, BeginUpdate, BeginDelete, BeginMaster, BeginTypesImport, Begins, FlagFree
<1>2. \/ \E id \in Types, form \in Forms : \E kind \in {"create", "update"} :
           request' = Asked(kind, id, form)
      \/ \E id \in Types : binding # id /\ request' = Asked("delete", id, NoForm)
      \/ \E id \in Types \cup {NoType} : /\ id # NoType => registry.list[id] # NoForm
                                         /\ request' = Asked("master", id, NoForm)
      \/ BeginTypesImport
  BY DEF BeginCreate, BeginUpdate, BeginDelete, BeginMaster, Begins, Editable
<1>3. request.at = "no" /\ Published(registry.list, tables) /\ ~Importing /\ binding = tables.bound
  BY <1>0, <1>1 DEF RequestInv, RegistryInv, Importing, BindingInv
<1>4. CountShape(templateBounds') /\ templateBounds'.starts \in Nat
  BY <1>0, <1>1, CountsAre DEF TemplatesShape, CountShape
<1>5. ASSUME NEW r, request' = r, r.at = "begun",
             r = [kind |-> r.kind, at |-> r.at, id |-> r.id, form |-> r.form, package |-> r.package],
             r.kind \in {"create", "update", "delete", "master", "import"},
             r.kind = "master" => HasType(tables, r.id),
             r.kind \in {"create", "update", "delete"} => r.id \in Types,
             r.kind \in {"create", "update"} => r.form \in Forms,
             r.kind = "delete" => r.id # binding,
             r.kind = "import" => PackageInv(r.package, tables)
      PROVE  UpInv'
  <2>1. TemplatesShape'
    BY <1>0, <1>1, <1>4, <1>5 DEF TemplatesShape, CountShape
  <2>2. RequestInv'
    BY <1>0, <1>1, <1>5 DEF RequestInv, HasType, PackageInv
  <2>3. RegistryInv' /\ BindingInv' /\ PlanInv'
    BY <1>0, <1>1, <1>3, <1>5
       DEF RegistryInv, BindingInv, PlanInv, HasType, Importing, Published, Planned
  <2> QED BY <1>0, <1>1, <2>1, <2>2, <2>3 DEF UpInv
<1>6. ASSUME NEW kind, NEW id, NEW form, NEW r, r = Asked(kind, id, form)
      PROVE  /\ r.kind = kind /\ r.at = "begun" /\ r.id = id /\ r.form = form
             /\ r = [kind |-> r.kind, at |-> r.at, id |-> r.id, form |-> r.form, package |-> r.package]
  BY <1>6 DEF Asked, NoRequest
<1>7. ASSUME NEW id \in Types, NEW form \in Forms, NEW kind \in {"create", "update"},
             request' = Asked(kind, id, form)
      PROVE  UpInv'
  <2>1. PICK r : r = Asked(kind, id, form)
    OBVIOUS
  <2> QED BY <1>5, <1>6, <1>7, <2>1
<1>8. ASSUME NEW id \in Types, binding # id, request' = Asked("delete", id, NoForm)
      PROVE  UpInv'
  <2>1. PICK r, kind, form : kind = "delete" /\ form = NoForm /\ r = Asked(kind, id, form)
    OBVIOUS
  <2> QED BY <1>5, <1>6, <1>8, <2>1
<1>9. ASSUME NEW id \in Types \cup {NoType}, id # NoType => registry.list[id] # NoForm,
             request' = Asked("master", id, NoForm)
      PROVE  UpInv'
  <2>1. PICK r, kind, form : kind = "master" /\ form = NoForm /\ r = Asked(kind, id, form)
    OBVIOUS
  <2>2. HasType(tables, id)
    BY <1>3, <1>9 DEF HasType, Published
  <2> QED BY <1>5, <1>6, <1>9, <2>1, <2>2
<1>10. CASE BeginTypesImport
  <2>1. PICK forms \in [{i \in Types : ~tables.row[i].builtin} -> Forms \cup {NoForm}],
             type \in Types \cup {NoType} : \E all :
          /\ all = [id \in Types |-> IF id \in DOMAIN forms THEN forms[id] ELSE NoForm]
          /\ type # NoType => tables.row[type].builtin \/ all[type] # NoForm
          /\ request' = [NoRequest EXCEPT !.kind = "import", !.at = "begun",
                                          !.package = [forms |-> all, bound |-> type]]
    BY <1>10 DEF BeginTypesImport
  <2>a. PICK all :
          /\ all = [id \in Types |-> IF id \in DOMAIN forms THEN forms[id] ELSE NoForm]
          /\ type # NoType => tables.row[type].builtin \/ all[type] # NoForm
          /\ request' = [NoRequest EXCEPT !.kind = "import", !.at = "begun",
                                          !.package = [forms |-> all, bound |-> type]]
    BY <2>1
  <2>2. PICK package : package = [forms |-> all, bound |-> type]
    OBVIOUS
  <2>3. \A id \in Types : all[id] # NoForm => all[id] \in Forms
    BY <2>a
  <2>4. PackageInv(package, tables)
    BY <2>a, <2>2, <2>3, FormsAre DEF PackageInv
  <2>5. PICK r : r = [NoRequest EXCEPT !.kind = "import", !.at = "begun", !.package = package]
    OBVIOUS
  <2>6. /\ r.kind = "import" /\ r.at = "begun" /\ r.package = package
        /\ r = [kind |-> r.kind, at |-> r.at, id |-> r.id, form |-> r.form, package |-> r.package]
    BY <2>5, NothingIs
  <2> QED BY <1>5, <2>a, <2>2, <2>4, <2>5, <2>6
<1> QED BY <1>2, <1>7, <1>8, <1>9, <1>10

(* The store changes a type, or refuses to; and the request ends.          *)
LEMMA StoreKeeps ==
  ASSUME UpInv, CreateType \/ UpdateType \/ DeleteType \/ EndType
  PROVE  UpInv'
<1>0. /\ program.up /\ TablesInv(tables) /\ TemplatesShape
      /\ plan.gen <= registry.moved /\ plan.seen <= registry.moved
      /\ RequestInv /\ RegistryInv /\ BindingInv /\ PlanInv
  BY DEF UpInv
<1>1. /\ publishing.at = "no" /\ UNCHANGED <<registry, binding, program, plan, untold>>
      /\ request.at \in {"begun", "stored"} /\ request.kind \in {"create", "update", "delete"}
  BY <1>0 DEF CreateType, UpdateType, DeleteType, EndType, AtStore, StoreFree, RequestInv
<1>2. UNCHANGED templateBounds \/ CountsTemplates("edits") \/ CountsTemplates("faults")
  BY DEF CreateType, UpdateType, DeleteType, EndType, ChangeType, TypeStored, TemplateFault
<1>3. CountShape(templateBounds') /\ templateBounds'.starts \in Nat
  BY <1>0, <1>2, CountsAre DEF TemplatesShape, CountShape
<1>4. ~Importing /\ binding = tables.bound /\ HasType(tables, tables.bound)
      /\ Published(registry.list, tables)
  BY <1>0, <1>1 DEF Importing, BindingInv, RegistryInv
<1>5. ASSUME request' = NoRequest, UNCHANGED <<tables, publishing>>
      PROVE  UpInv'
  <2>1. PICK r : r = NoRequest
    OBVIOUS
  <2>2. request' = r /\ r.kind = "none" /\ r.at = "no"
        /\ r = [kind |-> r.kind, at |-> r.at, id |-> r.id, form |-> r.form, package |-> r.package]
    BY <1>5, <2>1, NothingIs
  <2>3. TemplatesShape'
    BY <1>0, <1>1, <1>3, <1>5, <2>2 DEF TemplatesShape, CountShape
  <2>4. RequestInv'
    BY <2>2 DEF RequestInv
  <2>5. RegistryInv' /\ BindingInv' /\ PlanInv'
    BY <1>0, <1>1, <1>4, <1>5, <2>2
       DEF RegistryInv, BindingInv, PlanInv, HasType, Importing, Published, Planned
  <2> QED BY <1>0, <1>1, <1>5, <2>3, <2>4, <2>5 DEF UpInv
<1>6. ASSUME request' = [request EXCEPT !.at = "stored"], TablesInv(tables'),
             tables'.bound = tables.bound, HasType(tables', tables.bound),
             UNCHANGED <<tables, publishing>> \/ publishing' = [at |-> "stored", list |-> LoadedTypes(tables')]
      PROVE  UpInv'
  <2>1. /\ request' = [kind |-> request.kind, at |-> "stored", id |-> request.id,
                       form |-> request.form, package |-> request.package]
    BY <1>0, <1>6 DEF TemplatesShape
  <2>a. publishing' = [at |-> publishing'.at, list |-> publishing'.list] /\ publishing'.at \in {"no", "stored"}
    BY <1>0, <1>1, <1>6 DEF TemplatesShape
  <2>2. TemplatesShape'
    BY <1>0, <1>1, <1>3, <2>1, <2>a DEF TemplatesShape, CountShape
  <2>3. RequestInv'
    BY <1>0, <1>1, <2>1 DEF RequestInv
  <2>4. BindingInv' /\ PlanInv'
    BY <1>0, <1>1, <1>4, <1>6, <2>1
       DEF BindingInv, PlanInv, HasType, Importing, Planned
  <2>5. RegistryInv'
    BY <1>0, <1>1, <1>4, <1>6, <2>1 DEF RegistryInv, Published
  <2> QED BY <1>0, <1>1, <1>6, <2>2, <2>3, <2>4, <2>5 DEF UpInv
<1>7. ASSUME NEW t, TablesInv(t), Others(tables, t, request.id), TypeStored, Publishes(t),
             t.row[request.id].keys # {} \/ request.id # tables.bound
      PROVE  UpInv'
  <2>1. tables' = t /\ t.bound = tables.bound
    BY <1>7 DEF Publishes, Others
  <2>2. HasType(t, tables.bound)
    BY <1>4, <1>7 DEF HasType, Others
  <2> QED BY <1>6, <1>7, <2>1, <2>2 DEF TypeStored, Publishes
<1>8. ASSUME NEW id \in Types, NEW form \in Forms, id = request.id,
             TypeStored, Publishes(Written(tables, id, form, FALSE))
      PROVE  UpInv'
  <2>1. PICK t : t = Written(tables, id, form, FALSE)
    OBVIOUS
  <2>2. TablesInv(t) /\ Others(tables, t, id) /\ t.row[id].keys # {}
    BY <1>0, <2>1, WrittenKeeps
  <2> QED BY <1>7, <1>8, <2>1, <2>2
<1>9. CASE CreateType
  <2>1. request.kind = "create" /\ request.id \in Types /\ request.form \in Forms
    BY <1>0, <1>9 DEF CreateType, AtStore, RequestInv
  <2>2. \/ request' = NoRequest /\ UNCHANGED <<tables, publishing>>
        \/ TypeStored /\ UNCHANGED <<tables, publishing>>
        \/ TypeStored /\ Publishes(Written(tables, request.id, request.form, FALSE))
    BY <1>9 DEF CreateType, TypeRefused
  <2> QED BY <1>0, <1>4, <1>5, <1>6, <1>8, <2>1, <2>2 DEF TypeStored
<1>10. CASE UpdateType
  <2>1. request.kind = "update" /\ request.id \in Types /\ request.form \in Forms
    BY <1>0, <1>10 DEF UpdateType, AtStore, RequestInv
  <2>2. \/ request' = NoRequest /\ UNCHANGED <<tables, publishing>>
        \/ TypeStored /\ Publishes(Written(tables, request.id, request.form, FALSE))
    BY <1>10 DEF UpdateType, ChangeType, TypeRefused
  <2> QED BY <1>5, <1>8, <2>1, <2>2
<1>11. CASE DeleteType
  <2>1. request.kind = "delete" /\ request.id \in Types /\ request.id # tables.bound
    BY <1>0, <1>4, <1>11 DEF DeleteType, AtStore, RequestInv
  <2>2. \/ request' = NoRequest /\ UNCHANGED <<tables, publishing>>
        \/ TypeStored /\ Publishes(Removed(tables, request.id))
    BY <1>11 DEF DeleteType, ChangeType, TypeRefused
  <2>3. PICK t : t = Removed(tables, request.id)
    OBVIOUS
  <2>4. TablesInv(t) /\ Others(tables, t, request.id)
    BY <1>0, <2>1, <2>3, RemovedKeeps
  <2> QED BY <1>5, <1>7, <2>1, <2>2, <2>3, <2>4
<1>12. CASE EndType
  BY <1>5, <1>12 DEF EndType
<1> QED BY <1>9, <1>10, <1>11, <1>12

(* A preference is changed.                                                *)
LEMMA PreferredKeeps ==
  ASSUME NEW t, TablesInv(t), NEW id \in Types, NEW k \in Keys, k \in t.row[id].keys,
         NEW answer \in {"yes", "no"}, NEW w,
         \/ w = [t EXCEPT !.show[id][k] = answer]
         \/ w = [t EXCEPT !.keep[id][k] = answer]
  PROVE  TablesInv(w) /\ w.row = t.row /\ w.bound = t.bound
<1> DEFINE put(chosen) == [chosen EXCEPT ![k] = answer]
<1>1. TablesShape(t) /\ Entry(t, id)
  BY DEF TablesInv, Entry
<1>2. ASSUME NEW chosen, ChosenFor(chosen, t.row[id])
      PROVE  ChosenFor(put(chosen), t.row[id])
  BY <1>2 DEF ChosenFor
<1>3. CASE w = [t EXCEPT !.show[id][k] = answer]
  <2>1. PICK row, show, keep : row = t.row[id] /\ show = put(t.show[id]) /\ keep = t.keep[id]
    OBVIOUS
  <2>2. PICK u : Replacing(t, u, id, row, show, keep)
    BY DEF Replacing
  <2>3. u = w
    <3>1. [t.row EXCEPT ![id] = row] = t.row /\ [t.keep EXCEPT ![id] = keep] = t.keep
      BY <1>1, <2>1 DEF TablesShape
    <3>2. w = [t EXCEPT !.show = [t.show EXCEPT ![id] = show]]
      BY <1>3, <2>1
    <3> QED BY <1>1, <2>2, <3>1, <3>2 DEF Replacing, TablesShape
  <2>4. Others(t, w, id) /\ w.row[id] = row /\ w.show[id] = show /\ w.keep[id] = keep
    BY <1>1, <2>2, <2>3, TypeReplaced
  <2>5. ChosenFor(show, row) /\ ChosenFor(keep, row)
    BY <1>1, <1>2, <2>1 DEF Entry
  <2>6. Entry(w, id)
    BY <1>1, <2>1, <2>4, <2>5 DEF Entry
  <2>7. w.row = t.row
    BY <1>1, <1>3 DEF TablesShape
  <2> QED BY <2>4, <2>6, <2>7, OthersKeep DEF Others
<1>4. CASE w = [t EXCEPT !.keep[id][k] = answer]
  <2>1. PICK row, show, keep : row = t.row[id] /\ show = t.show[id] /\ keep = put(t.keep[id])
    OBVIOUS
  <2>2. PICK u : Replacing(t, u, id, row, show, keep)
    BY DEF Replacing
  <2>3. u = w
    <3>1. [t.row EXCEPT ![id] = row] = t.row /\ [t.show EXCEPT ![id] = show] = t.show
      BY <1>1, <2>1 DEF TablesShape
    <3>2. w = [t EXCEPT !.keep = [t.keep EXCEPT ![id] = keep]]
      BY <1>4, <2>1
    <3> QED BY <1>1, <2>2, <3>1, <3>2 DEF Replacing, TablesShape
  <2>4. Others(t, w, id) /\ w.row[id] = row /\ w.show[id] = show /\ w.keep[id] = keep
    BY <1>1, <2>2, <2>3, TypeReplaced
  <2>5. ChosenFor(show, row) /\ ChosenFor(keep, row)
    BY <1>1, <1>2, <2>1 DEF Entry
  <2>6. Entry(w, id)
    BY <1>1, <2>1, <2>4, <2>5 DEF Entry
  <2>7. w.row = t.row
    BY <1>1, <1>4 DEF TablesShape
  <2> QED BY <2>4, <2>6, <2>7, OthersKeep DEF Others
<1> QED BY <1>3, <1>4

LEMMA PreferenceKeeps ==
  ASSUME UpInv, ShowField \/ KeepField
  PROVE  UpInv'
<1>0. /\ program.up /\ TablesInv(tables) /\ TemplatesShape
      /\ plan.gen <= registry.moved /\ plan.seen <= registry.moved
      /\ RequestInv /\ RegistryInv /\ BindingInv /\ PlanInv
  BY DEF UpInv
<1>1. PICK id \in Types, k \in Keys, answer \in {"yes", "no"} : \E t :
        /\ k \in tables.row[id].keys /\ publishing.at = "no"
        /\ t = [tables EXCEPT !.show[id][k] = answer] \/ t = [tables EXCEPT !.keep[id][k] = answer]
        /\ StoresPreference(t)
  BY DEF ShowField, KeepField, MayPrefer, StoreFree
<1>2. PICK t :
        /\ k \in tables.row[id].keys /\ publishing.at = "no"
        /\ t = [tables EXCEPT !.show[id][k] = answer] \/ t = [tables EXCEPT !.keep[id][k] = answer]
        /\ StoresPreference(t)
  BY <1>1
<1>3. TablesInv(t) /\ t.row = tables.row /\ t.bound = tables.bound
  BY <1>0, <1>2, PreferredKeeps
<1>4. /\ tables' = t /\ UNCHANGED <<registry, binding, request, program, plan>>
      /\ \/ publishing' = [at |-> "stored", list |-> LoadedTypes(t)] /\ UNCHANGED untold
         \/ untold' = FALSE /\ UNCHANGED publishing
      /\ CountsTemplates("edits") \/ CountsTemplates("faults")
  BY <1>2 DEF StoresPreference, Publishes, TemplateFault
<1>5. CountShape(templateBounds') /\ templateBounds'.starts \in Nat
  BY <1>0, <1>4, CountsAre DEF TemplatesShape, CountShape
<1>a. publishing' = [at |-> publishing'.at, list |-> publishing'.list] /\ publishing'.at \in {"no", "stored"}
  BY <1>0, <1>2, <1>4 DEF TemplatesShape
<1>b. untold' \in BOOLEAN
  BY <1>0, <1>4 DEF TemplatesShape
<1>6. TemplatesShape'
  BY <1>0, <1>4, <1>5, <1>a, <1>b DEF TemplatesShape, CountShape
<1>7. RequestInv'
  BY <1>0, <1>3, <1>4 DEF RequestInv, HasType, PackageInv
<1>8. BindingInv' /\ PlanInv'
  BY <1>0, <1>2, <1>3, <1>4 DEF BindingInv, PlanInv, HasType, Importing, Planned
<1>9. RegistryInv'
  BY <1>0, <1>2, <1>3, <1>4 DEF RegistryInv, Published
<1> QED BY <1>0, <1>3, <1>4, <1>6, <1>7, <1>8, <1>9 DEF UpInv

(* The master, and imports.                                                *)
LEMMA MasterKeeps ==
  ASSUME UpInv, ApplyMaster
  PROVE  UpInv'
<1>0. /\ program.up /\ TablesInv(tables) /\ TemplatesShape
      /\ plan.gen <= registry.moved /\ plan.seen <= registry.moved
      /\ RequestInv /\ RegistryInv /\ BindingInv /\ PlanInv
  BY DEF UpInv
<1>1. /\ publishing.at # "listed" /\ request.kind = "master" /\ request' = NoRequest
      /\ UNCHANGED <<registry, publishing, program, untold>>
      /\ \/ /\ tables' = [tables EXCEPT !.bound = request.id] /\ binding' = request.id
            /\ plan' = Planned(registry.list, registry.moved, request.id)
         \/ /\ UNCHANGED <<tables, binding>>
            /\ plan' = Planned(registry.list, registry.moved, binding)
      /\ UNCHANGED templateBounds \/ CountsTemplates("faults")
  BY DEF ApplyMaster, TemplateFault
<1>2. request.at = "begun" /\ HasType(tables, request.id)
  BY <1>0, <1>1 DEF RequestInv
<1>3. binding = tables.bound /\ Published(registry.list, tables)
  BY <1>0, <1>2 DEF BindingInv, RegistryInv, Importing
<1>4. /\ TablesInv(tables') /\ tables'.row = tables.row /\ HasType(tables', tables'.bound)
      /\ binding' = tables'.bound /\ LoadedTypes(tables') = LoadedTypes(tables)
  <2>1. CASE tables' = [tables EXCEPT !.bound = request.id] /\ binding' = request.id
    <3>1. /\ tables'.row = tables.row /\ tables'.show = tables.show /\ tables'.keep = tables.keep
          /\ tables'.grouping = tables.grouping /\ tables'.grouped = tables.grouped
          /\ tables'.bound = request.id /\ TablesShape(tables')
      BY <1>0, <2>1 DEF TablesInv, TablesShape
    <3>2. TablesInv(tables')
      BY <1>0, <3>1 DEF TablesInv
    <3>3. LoadedTypes(tables') = LoadedTypes(tables)
      BY <3>1 DEF LoadedTypes
    <3> QED BY <1>2, <2>1, <3>1, <3>2, <3>3 DEF HasType
  <2>2. CASE UNCHANGED <<tables, binding>>
    BY <1>0, <1>3, <2>2 DEF BindingInv
  <2> QED BY <1>1, <2>1, <2>2
<1>5. /\ plan' = Planned(registry.list, registry.moved, binding')
      /\ plan'.gen = registry.moved /\ plan'.seen = 0
      /\ plan' = [form |-> plan'.form, gen |-> plan'.gen, seen |-> plan'.seen]
  BY <1>1 DEF Planned
<1>6. CountShape(templateBounds') /\ templateBounds'.starts \in Nat
  BY <1>0, <1>1, CountsAre DEF TemplatesShape, CountShape
<1>a. PICK r : r = NoRequest
  OBVIOUS
<1>b. request' = r /\ r = [kind |-> r.kind, at |-> r.at, id |-> r.id, form |-> r.form, package |-> r.package]
  BY <1>1, <1>a, NothingIs
<1>c. /\ UNCHANGED <<registry, publishing, program, untold>> /\ plan'.gen \in Nat /\ plan'.seen \in Nat
  BY <1>0, <1>1, <1>5 DEF TemplatesShape
<1>7. TemplatesShape'
  BY <1>0, <1>5, <1>6, <1>b, <1>c DEF TemplatesShape, CountShape
<1>8. RequestInv'
  BY <1>1, NothingIs DEF RequestInv
<1>9. BindingInv' /\ PlanInv'
  BY <1>1, <1>4, <1>5 DEF BindingInv, PlanInv
<1>10. RegistryInv'
  BY <1>0, <1>1, <1>3, <1>4 DEF RegistryInv, Published
<1>11. plan'.gen <= registry'.moved /\ plan'.seen <= registry'.moved
  BY <1>0, <1>1, <1>5 DEF TemplatesShape
<1> QED BY <1>0, <1>1, <1>4, <1>7, <1>8, <1>9, <1>10, <1>11 DEF UpInv

(* What is put back after an import is what was there before.              *)
LEMMA ExportedIs ==
  ASSUME TablesInv(tables), HasType(tables, tables.bound), NEW t,
         \A id \in Types : tables.row[id].builtin => t.row[id] = tables.row[id]
  PROVE  PackageInv(Exported, t)
<1>1. PICK package : package = Exported
  OBVIOUS
<1>2. /\ package.bound = tables.bound
      /\ \A id \in Types : package.forms[id] = IF tables.row[id].builtin THEN NoForm
                                               ELSE LoadedTypes(tables)[id]
  BY <1>1 DEF Exported
<1>3. \A id \in Types : /\ IsRow(tables.row[id])
                        /\ LoadedTypes(tables)[id] # NoForm => tables.row[id].keys # {}
                        /\ tables.row[id].keys # {} =>
                             /\ LoadedTypes(tables)[id] # NoForm
                             /\ LoadedTypes(tables)[id].keys = tables.row[id].keys
  BY LoadedAre DEF TablesInv
<1> QED BY <1>1, <1>2, <1>3 DEF PackageInv, HasType, IsRow

LEMMA ImportKeepsTypes ==
  ASSUME UpInv, ImportTypes \/ ImportApplies
  PROVE  UpInv'
<1>0. /\ program.up /\ TablesInv(tables) /\ TemplatesShape
      /\ plan.gen <= registry.moved /\ plan.seen <= registry.moved
      /\ RequestInv /\ RegistryInv /\ BindingInv /\ PlanInv
  BY DEF UpInv
<1>1. /\ publishing.at = "no" /\ request.kind = "import" /\ UNCHANGED <<registry, program, untold>>
      /\ UNCHANGED templateBounds \/ CountsTemplates("faults")
  BY <1>0 DEF ImportTypes, ImportApplies, StoreFree, TemplateFault, RequestInv
<1>2. CountShape(templateBounds') /\ templateBounds'.starts \in Nat
  BY <1>0, <1>1, CountsAre DEF TemplatesShape, CountShape
<1>3. PackageInv(request.package, tables) /\ Published(registry.list, tables)
      /\ HasType(tables, tables.bound)
  BY <1>0, <1>1 DEF RequestInv, RegistryInv, BindingInv
(* The request is over.                                                    *)
<1>4. ASSUME request' = NoRequest, UNCHANGED <<tables, publishing>>, binding' = tables.bound,
             \/ plan' = Planned(registry.list, registry.moved, tables.bound)
             \/ UNCHANGED <<binding, plan>>
      PROVE  UpInv'
  <2>1. PICK r : r = NoRequest
    OBVIOUS
  <2>2. request' = r /\ r.kind = "none" /\ r.at = "no"
        /\ r = [kind |-> r.kind, at |-> r.at, id |-> r.id, form |-> r.form, package |-> r.package]
    BY <1>4, <2>1, NothingIs
  <2>3. /\ plan' = [form |-> plan'.form, gen |-> plan'.gen, seen |-> plan'.seen]
        /\ plan'.gen \in Nat /\ plan'.seen \in Nat
        /\ plan'.gen <= registry.moved /\ plan'.seen <= registry.moved
    BY <1>0, <1>4 DEF TemplatesShape, Planned
  <2>4. TemplatesShape'
    BY <1>0, <1>1, <1>2, <1>4, <2>2, <2>3 DEF TemplatesShape, CountShape
  <2>5. RequestInv'
    BY <2>2 DEF RequestInv
  <2>6. RegistryInv' /\ BindingInv'
    BY <1>0, <1>1, <1>3, <1>4, <2>2 DEF RegistryInv, BindingInv, HasType, Published
  <2>7. PlanInv'
    BY <1>0, <1>1, <1>4 DEF PlanInv
  <2> QED BY <1>0, <1>1, <1>4, <2>3, <2>4, <2>5, <2>6, <2>7 DEF UpInv
(* The types of a package are taken over.                                  *)
<1>5. ASSUME NEW t, t = Imported(tables, request.package), Publishes(t), UNCHANGED <<binding, plan>>,
             \/ /\ request' = [request EXCEPT !.at = "imported", !.package = Exported]
             \/ /\ request' = [request EXCEPT !.at = "restored"] /\ request.at = "imported"
      PROVE  UpInv'
  <2>1. /\ TablesInv(t) /\ HasType(t, t.bound)
        /\ \A id \in Types : tables.row[id].builtin => t.row[id] = tables.row[id]
        /\ t.bound = request.package.bound
    BY <1>0, <1>3, <1>5, ImportedIs
  <2>2. tables' = t /\ publishing' = [at |-> "stored", list |-> LoadedTypes(t)]
    BY <1>5 DEF Publishes
  <2>3. PackageInv(Exported, t) /\ PackageInv(request.package, t)
    <3>1. PackageInv(Exported, t)
      BY <1>0, <1>3, <2>1, ExportedIs
    <3>2. PackageInv(request.package, t)
      BY <1>3, <2>1 DEF PackageInv
    <3> QED BY <3>1, <3>2
  <2>4. PICK package, at : /\ package \in {Exported, request.package} /\ at \in {"imported", "restored"}
                           /\ request' = [kind |-> request.kind, at |-> at, id |-> request.id,
                                          form |-> request.form, package |-> package]
    BY <1>0, <1>5 DEF TemplatesShape
  <2>5. TemplatesShape'
    BY <1>0, <1>1, <1>2, <1>5, <2>2, <2>4 DEF TemplatesShape, CountShape
  <2>6. RequestInv'
    BY <1>0, <1>1, <2>2, <2>3, <2>4 DEF RequestInv
  <2>7. BindingInv'
    BY <2>1, <2>2, <2>4 DEF BindingInv, Importing
  <2>8. RegistryInv'
    BY <2>2, <2>4 DEF RegistryInv
  <2>9. PlanInv'
    BY <1>0, <1>1, <1>5 DEF PlanInv
  <2> QED BY <1>0, <1>1, <1>5, <2>1, <2>2, <2>5, <2>6, <2>7, <2>8, <2>9 DEF UpInv
<1>6. CASE ImportTypes
  <2>1. request.at = "begun" /\ binding = tables.bound
    BY <1>0, <1>6 DEF ImportTypes, BindingInv, Importing
  <2>2. PICK t : t = Imported(tables, request.package)
    OBVIOUS
  <2>3. \/ Publishes(t) /\ request' = [request EXCEPT !.at = "imported", !.package = Exported]
        \/ request' = NoRequest /\ UNCHANGED <<tables, publishing>>
    BY <1>6, <2>2 DEF ImportTypes
  <2>4. UNCHANGED <<binding, plan>>
    BY <1>6 DEF ImportTypes
  <2> QED BY <1>4, <1>5, <2>1, <2>2, <2>3, <2>4
<1>7. CASE ImportApplies
  <2>1. PICK t : t = Imported(tables, request.package)
    OBVIOUS
  <2>2. \/ /\ request' = NoRequest /\ binding' = tables.bound /\ UNCHANGED <<tables, publishing>>
           /\ plan' = Planned(registry.list, registry.moved, tables.bound)
        \/ /\ request.at = "imported" /\ Publishes(t) /\ UNCHANGED <<binding, plan>>
           /\ request' = [request EXCEPT !.at = "restored"]
    BY <1>7, <2>1 DEF ImportApplies
  <2> QED BY <1>4, <1>5, <2>1, <2>2
<1> QED BY <1>6, <1>7

(* The poll.                                                               *)
LEMMA PollKeeps ==
  ASSUME UpInv, SeeGeneration \/ PlanAnew
  PROVE  UpInv'
<1>0. /\ program.up /\ TablesInv(tables) /\ TemplatesShape
      /\ plan.gen <= registry.moved /\ plan.seen <= registry.moved
      /\ RequestInv /\ RegistryInv /\ BindingInv /\ PlanInv
  BY DEF UpInv
<1>1. UNCHANGED <<tables, registry, publishing, binding, request, program, untold, templateBounds>>
  BY DEF SeeGeneration, PlanAnew
<1>2. /\ plan' = [form |-> plan'.form, gen |-> plan'.gen, seen |-> plan'.seen]
      /\ plan'.gen \in Nat /\ plan'.seen \in Nat
      /\ plan'.gen <= registry.moved /\ plan'.seen <= registry.moved
      /\ PlanInv'
  <2>1. CASE SeeGeneration
    <3>1. plan' = [plan EXCEPT !.seen = registry.moved]
      BY <2>1 DEF SeeGeneration
    <3>2. plan' = [form |-> plan.form, gen |-> plan.gen, seen |-> registry.moved]
      BY <1>0, <3>1 DEF TemplatesShape
    <3> QED BY <1>0, <1>1, <3>2 DEF TemplatesShape, PlanInv
  <2>2. CASE PlanAnew
    <3>1. plan' = Planned(registry.list, plan.seen, binding)
      BY <2>2 DEF PlanAnew
    <3> QED BY <1>0, <1>1, <3>1 DEF TemplatesShape, PlanInv, Planned
  <2> QED BY <2>1, <2>2
<1>3. TemplatesShape'
  BY <1>0, <1>1, <1>2 DEF TemplatesShape
<1>4. RequestInv' /\ RegistryInv' /\ BindingInv'
  BY <1>0, <1>1 DEF RequestInv, RegistryInv, BindingInv, Importing, HasType, PackageInv, Published
<1> QED BY <1>0, <1>1, <1>2, <1>3, <1>4 DEF UpInv

(* The program starts, for the first time and again.                       *)
LEMMA EmptyIs == TablesInv(Empty) /\ Empty.bound = NoType
<1>1. TablesShape(Empty)
  BY DEF TablesShape, Empty
<1>2. ASSUME NEW id \in Types
      PROVE  Empty.row[id] = NoRow /\ Empty.show[id] = Unset /\ Empty.keep[id] = Unset
  BY DEF Empty
<1>3. ChosenFor(Unset, NoRow)
  BY RowsAre DEF ChosenFor, Unset
<1> QED BY <1>1, <1>2, <1>3, RowsAre DEF TablesInv, Empty

LEMMA PlannedIs ==
  ASSUME NEW list, NEW moved, NEW type
  PROVE  /\ Planned(list, moved, type).gen = moved /\ Planned(list, moved, type).seen = 0
         /\ Planned(list, moved, type) =
              [form |-> Planned(list, moved, type).form, gen |-> moved, seen |-> 0]
BY DEF Planned

(* What a start leaves behind is in order.                                 *)
LEMMA StartedAfresh ==
  ASSUME NEW t, TablesInv(t), tables' = t, registry' = [list |-> LoadedTypes(t), moved |-> registry'.moved],
         registry'.moved \in Nat \ {0}, publishing' = NothingToPublish, request' = NoRequest,
         plan' = Planned(LoadedTypes(t), registry'.moved, binding'),
         untold' = TRUE, CountShape(templateBounds'), templateBounds'.starts \in Nat,
         program'.up \in BOOLEAN, program'.up => binding' = t.bound /\ HasType(t, t.bound)
  PROVE  TemplatesInv'
<1>1. PICK r, p, g, q : r = request' /\ p = publishing' /\ g = registry' /\ q = plan'
  OBVIOUS
<1>2. /\ r.kind = "none" /\ r.at = "no"
      /\ r = [kind |-> r.kind, at |-> r.at, id |-> r.id, form |-> r.form, package |-> r.package]
      /\ p.at = "no" /\ p = [at |-> p.at, list |-> p.list]
  BY <1>1, NothingIs
<1>3. /\ g = [list |-> g.list, moved |-> g.moved] /\ g.moved \in Nat \ {0}
      /\ g.list = LoadedTypes(t)
  BY <1>1
<1>4. /\ q.gen = g.moved /\ q.seen = 0 /\ q = [form |-> q.form, gen |-> q.gen, seen |-> q.seen]
      /\ q = Planned(g.list, g.moved, binding')
  BY <1>1, <1>3, PlannedIs
<1>5. TemplatesShape'
  BY <1>1, <1>2, <1>3, <1>4 DEF TemplatesShape, CountShape
<1>6. RequestInv'
  BY <1>1, <1>2 DEF RequestInv
<1>7. Published(g.list, t)
  BY <1>3, LoadedIsPublished
<1>8. RegistryInv'
  BY <1>1, <1>2, <1>3, <1>7 DEF RegistryInv
<1>9. PlanInv'
  BY <1>1, <1>4 DEF PlanInv
<1>10. program'.up => BindingInv'
  BY DEF BindingInv
<1>11. q.gen <= g.moved /\ q.seen <= g.moved
  BY <1>3, <1>4
<1> QED BY <1>1, <1>2, <1>5, <1>6, <1>8, <1>9, <1>10, <1>11 DEF TemplatesInv

LEMMA TemplatesStart == TemplatesInit => TemplatesInv
<1> SUFFICES ASSUME TemplatesInit PROVE TemplatesInv
  OBVIOUS
<1>1. PICK t : t = tables
  OBVIOUS
<1>2. /\ program.release \in [Types -> Forms \cup {NoForm}] /\ program.up = TRUE
      /\ t = Seeded(Empty, program.release)
      /\ registry = [list |-> LoadedTypes(t), moved |-> 1]
      /\ publishing = NothingToPublish /\ binding = NoType /\ request = NoRequest
      /\ plan = Planned(LoadedTypes(t), 1, NoType) /\ untold = TRUE
      /\ templateBounds = [edits |-> 0, starts |-> 0, faults |-> 0]
  BY <1>1, TemplatesAssumption DEF TemplatesInit
<1>3. TablesInv(t) /\ t.bound = NoType
  BY <1>2, EmptyIs, SeededIs
<1>4. PICK r, p : r = request /\ p = publishing
  OBVIOUS
<1>5. /\ r.kind = "none" /\ r.at = "no"
      /\ r = [kind |-> r.kind, at |-> r.at, id |-> r.id, form |-> r.form, package |-> r.package]
      /\ p.at = "no" /\ p = [at |-> p.at, list |-> p.list]
  BY <1>2, <1>4, NothingIs
<1>6. /\ plan.gen = 1 /\ plan.seen = 0 /\ plan = [form |-> plan.form, gen |-> plan.gen, seen |-> plan.seen]
  BY <1>2, PlannedIs
<1>7. registry.list = LoadedTypes(t) /\ registry.moved = 1 /\ Published(registry.list, t)
      /\ registry = [list |-> registry.list, moved |-> registry.moved]
  BY <1>2, <1>3, LoadedIsPublished
<1>a. CountShape(templateBounds) /\ templateBounds.starts = 0
  BY <1>2 DEF CountShape
<1>b. registry.moved \in Nat \ {0} /\ plan.gen \in Nat /\ plan.seen \in Nat
  BY <1>6, <1>7
<1>c. program.up \in BOOLEAN /\ untold \in BOOLEAN
  BY <1>2
<1>8. TemplatesShape
  BY <1>4, <1>5, <1>6, <1>7, <1>a, <1>b, <1>c DEF TemplatesShape, CountShape
<1>9. RequestInv /\ RegistryInv /\ BindingInv /\ PlanInv
  BY <1>1, <1>2, <1>3, <1>4, <1>5, <1>7
     DEF RequestInv, RegistryInv, BindingInv, PlanInv, Importing, HasType
<1> QED BY <1>1, <1>2, <1>3, <1>6, <1>7, <1>8, <1>9 DEF TemplatesInv

LEMMA StartProgramIs ==
  ASSUME StartProgram
  PROVE  /\ publishing' = NothingToPublish /\ request' = NoRequest /\ untold' = TRUE
         /\ \E release \in Releases : \E t :
              /\ t = Seeded(tables, release) /\ program'.release = release
              /\ \/ /\ tables' = t /\ program'.up = (t.bound = NoType \/ t.bound \in Stored(t))
                    /\ registry' = [list |-> LoadedTypes(t), moved |-> registry.moved + 1]
                    /\ binding' = IF program'.up THEN t.bound ELSE NoType
                    /\ plan' = Planned(LoadedTypes(t), registry.moved + 1, binding')
                    /\ CountsTemplates("starts")
                 \/ /\ UNCHANGED <<tables, registry, binding, plan>> /\ program'.up = FALSE
                    /\ templateBounds' = [templateBounds EXCEPT !.starts = @ + 1, !.faults = @ + 1]
<1>1. publishing' = NothingToPublish /\ request' = NoRequest /\ untold' = TRUE
  BY DEF StartProgram
<1>2. PICK release \in Releases : \E t, up, moved :
        /\ t = Seeded(tables, release) /\ up = (t.bound = NoType \/ t.bound \in Stored(t))
        /\ moved = registry.moved + 1
        /\ \/ /\ tables' = t /\ program' = [release |-> release, up |-> up]
              /\ registry' = [list |-> LoadedTypes(t), moved |-> moved]
              /\ binding' = IF up THEN t.bound ELSE NoType
              /\ plan' = Planned(LoadedTypes(t), moved, binding')
              /\ CountsTemplates("starts")
           \/ /\ UNCHANGED <<tables, registry, binding, plan>>
              /\ program' = [release |-> release, up |-> FALSE]
              /\ templateBounds' = [templateBounds EXCEPT !.starts = @ + 1, !.faults = @ + 1]
  BY DEF StartProgram
<1>3. program'.release = release
  BY <1>2
<1>4. \E t : /\ t = Seeded(tables, release)
             /\ \/ /\ tables' = t /\ program'.up = (t.bound = NoType \/ t.bound \in Stored(t))
                   /\ registry' = [list |-> LoadedTypes(t), moved |-> registry.moved + 1]
                   /\ binding' = IF program'.up THEN t.bound ELSE NoType
                   /\ plan' = Planned(LoadedTypes(t), registry.moved + 1, binding')
                   /\ CountsTemplates("starts")
                \/ /\ UNCHANGED <<tables, registry, binding, plan>> /\ program'.up = FALSE
                   /\ templateBounds' = [templateBounds EXCEPT !.starts = @ + 1, !.faults = @ + 1]
  BY <1>2
<1> QED BY <1>1, <1>3, <1>4

LEMMA StartKeeps ==
  ASSUME TemplatesInv, StartProgram
  PROVE  TemplatesInv'
<1>1. PICK release \in Releases : \E t :
        /\ t = Seeded(tables, release)
        /\ \/ /\ tables' = t /\ program'.up = (t.bound = NoType \/ t.bound \in Stored(t))
              /\ registry' = [list |-> LoadedTypes(t), moved |-> registry.moved + 1]
              /\ binding' = IF program'.up THEN t.bound ELSE NoType
              /\ plan' = Planned(LoadedTypes(t), registry.moved + 1, binding')
              /\ CountsTemplates("starts")
           \/ /\ UNCHANGED <<tables, registry, binding, plan>> /\ program'.up = FALSE
              /\ templateBounds' = [templateBounds EXCEPT !.starts = @ + 1, !.faults = @ + 1]
  BY StartProgramIs
<1>2. PICK t :
        /\ t = Seeded(tables, release)
        /\ \/ /\ tables' = t /\ program'.up = (t.bound = NoType \/ t.bound \in Stored(t))
              /\ registry' = [list |-> LoadedTypes(t), moved |-> registry.moved + 1]
              /\ binding' = IF program'.up THEN t.bound ELSE NoType
              /\ plan' = Planned(LoadedTypes(t), registry.moved + 1, binding')
              /\ CountsTemplates("starts")
           \/ /\ UNCHANGED <<tables, registry, binding, plan>> /\ program'.up = FALSE
              /\ templateBounds' = [templateBounds EXCEPT !.starts = @ + 1, !.faults = @ + 1]
  BY <1>1
<1>3. publishing' = NothingToPublish /\ request' = NoRequest /\ untold' = TRUE
  BY StartProgramIs
<1>4. /\ TablesInv(tables) /\ TemplatesShape
      /\ plan.gen <= registry.moved /\ plan.seen <= registry.moved
  BY DEF TemplatesInv
<1>5. TablesInv(t)
  BY <1>2, <1>4, SeededIs, TemplatesAssumption
<1>6. CountShape(templateBounds') /\ templateBounds'.starts \in Nat
  <2>1. PICK b : b = templateBounds /\ CountShape(b) /\ b.starts \in Nat
    BY <1>4 DEF TemplatesShape, CountShape
  <2>2. \/ templateBounds' = [b EXCEPT !.starts = b.starts + 1]
        \/ templateBounds' = [b EXCEPT !.starts = b.starts + 1, !.faults = b.faults + 1]
    BY <1>2, <2>1 DEF CountsTemplates
  <2>3. CASE templateBounds' = [b EXCEPT !.starts = b.starts + 1]
    BY <2>1, <2>3 DEF CountShape
  <2>4. CASE templateBounds' = [b EXCEPT !.starts = b.starts + 1, !.faults = b.faults + 1]
    <3>1. templateBounds' = [edits |-> b.edits, starts |-> b.starts + 1, faults |-> b.faults + 1]
      BY <2>1, <2>4 DEF CountShape
    <3> QED BY <2>1, <3>1 DEF CountShape
  <2> QED BY <2>2, <2>3, <2>4
<1>7. CASE /\ tables' = t /\ program'.up = (t.bound = NoType \/ t.bound \in Stored(t))
           /\ registry' = [list |-> LoadedTypes(t), moved |-> registry.moved + 1]
           /\ binding' = IF program'.up THEN t.bound ELSE NoType
           /\ plan' = Planned(LoadedTypes(t), registry.moved + 1, binding')
  <2>1. registry'.moved = registry.moved + 1 /\ registry'.moved \in Nat \ {0}
    BY <1>4, <1>7 DEF TemplatesShape
  <2>2. t.bound \in Stored(t) => HasType(t, t.bound)
    BY <1>5, StoredAre DEF HasType, Stored
  <2>3. /\ program'.up \in BOOLEAN
        /\ program'.up => binding' = t.bound /\ HasType(t, t.bound)
    BY <1>7, <2>2 DEF HasType
  <2> QED BY <1>3, <1>5, <1>6, <1>7, <2>1, <2>3, StartedAfresh
<1>8. CASE UNCHANGED <<tables, registry, binding, plan>> /\ program'.up = FALSE
  <2>1. PICK r, p : r = request' /\ p = publishing'
    OBVIOUS
  <2>2. /\ r = [kind |-> r.kind, at |-> r.at, id |-> r.id, form |-> r.form, package |-> r.package]
        /\ p.at = "no" /\ p = [at |-> p.at, list |-> p.list]
    BY <1>3, <2>1, NothingIs
  <2>3. TemplatesShape'
    BY <1>3, <1>4, <1>6, <1>8, <2>1, <2>2 DEF TemplatesShape, CountShape
  <2> QED BY <1>4, <1>8, <2>1, <2>2, <2>3 DEF TemplatesInv
<1> QED BY <1>2, <1>7, <1>8

LEMMA UpIs ==
  /\ UpInv <=> TemplatesInv /\ program.up
  /\ UpInv' <=> TemplatesInv' /\ program'.up
BY DEF UpInv, TemplatesInv

LEMMA TemplatesStep ==
  ASSUME TemplatesInv, [TemplatesNext]_templateVars
  PROVE  TemplatesInv'
<1>1. CASE StartProgram
  BY <1>1, StartKeeps
<1>2. CASE UNCHANGED templateVars
  BY <1>2 DEF templateVars, TemplatesInv, TemplatesShape, RequestInv, RegistryInv, BindingInv, PlanInv,
              Importing, HasType, PackageInv, Published
<1>3. CASE PublishList \/ MoveGeneration
  <2>1. program.up
    BY <1>3 DEF PublishList, MoveGeneration, TemplatesInv
  <2> QED BY <1>3, <2>1, PublicationKeeps, UpIs
<1>4. CASE BeginCreate \/ BeginUpdate \/ BeginDelete \/ BeginMaster \/ BeginTypesImport
  <2>1. program.up
    BY <1>4 DEF BeginCreate, BeginUpdate, BeginDelete, BeginMaster, BeginTypesImport, FlagFree
  <2> QED BY <1>4, <2>1, BeginKeeps, UpIs
<1>5. CASE CreateType \/ UpdateType \/ DeleteType \/ EndType
  <2>1. program.up
    BY <1>5 DEF CreateType, UpdateType, DeleteType, EndType, AtStore, StoreFree
  <2> QED BY <1>5, <2>1, StoreKeeps, UpIs
<1>6. CASE ShowField \/ KeepField
  <2>1. program.up
    BY <1>6 DEF ShowField, KeepField, MayPrefer, StoreFree
  <2> QED BY <1>6, <2>1, PreferenceKeeps, UpIs
<1>7. CASE ApplyMaster
  <2>1. program.up
    BY <1>7 DEF ApplyMaster
  <2> QED BY <1>7, <2>1, MasterKeeps, UpIs
<1>8. CASE ImportTypes \/ ImportApplies
  <2>1. program.up
    BY <1>8 DEF ImportTypes, ImportApplies, StoreFree
  <2> QED BY <1>8, <2>1, ImportKeepsTypes, UpIs
<1>9. CASE SeeGeneration \/ PlanAnew
  <2>1. program.up
    BY <1>9 DEF SeeGeneration, PlanAnew, Polls
  <2> QED BY <1>9, <2>1, PollKeeps, UpIs
<1> QED BY <1>1, <1>2, <1>3, <1>4, <1>5, <1>6, <1>7, <1>8, <1>9 DEF TemplatesNext

LEMMA TemplatesHold == TemplatesSpec => []TemplatesInv
BY TemplatesStart, TemplatesStep, PTL DEF TemplatesSpec

(* Between requests, the types that are published are those stored, the    *)
(* master is bound to one of them, and the plan it is polled by has the    *)
(* present fields once it has taken notice of the present generation.      *)
THEOREM TypesStayInForce == TemplatesSpec => []TypesAreInForce
<1>1. TemplatesInv => TypesAreInForce
  <2> SUFFICES ASSUME TemplatesInv, program.up, publishing.at = "no", untold
               PROVE  /\ registry.list = LoadedTypes(tables)
                      /\ request.kind = "none" =>
                           binding = tables.bound /\ (binding # NoType => registry.list[binding] # NoForm)
                      /\ plan.seen = 0 /\ plan.gen = registry.moved =>
                           plan = Planned(registry.list, registry.moved, binding)
    BY DEF TypesAreInForce
  <2>1. RequestInv /\ RegistryInv /\ BindingInv /\ PlanInv /\ TablesInv(tables)
    BY DEF TemplatesInv
  <2>2. registry.list = LoadedTypes(tables) /\ Published(registry.list, tables)
    BY <2>1 DEF RegistryInv
  <2>3. ASSUME request.kind = "none"
        PROVE  binding = tables.bound /\ (binding # NoType => registry.list[binding] # NoForm)
    BY <2>1, <2>2, <2>3 DEF RequestInv, BindingInv, Importing, HasType, Published
  <2> QED BY <2>1, <2>2, <2>3 DEF PlanInv
<1> QED BY <1>1, TemplatesHold, PTL

LEMMA OnlyStartsAreCounted ==
  ASSUME TemplatesInv, [TemplatesNext]_templateVars, ~StartProgram
  PROVE  templateBounds'.starts = templateBounds.starts
<1>1. UNCHANGED templateBounds \/ CountsTemplates("edits") \/ CountsTemplates("faults")
  BY DEF TemplatesNext, templateVars, PublishList, MoveGeneration, BeginCreate, BeginUpdate,
         BeginDelete, BeginMaster, BeginTypesImport, Begins, CreateType, UpdateType, DeleteType,
         ChangeType, TypeStored, TypeRefused, EndType, ShowField, KeepField, StoresPreference, ApplyMaster,
         ImportTypes, ImportApplies, SeeGeneration, PlanAnew, TemplateFault
<1> QED BY <1>1, CountsAre DEF TemplatesInv, TemplatesShape, CountShape

(* A start, also one of another release, keeps what the operator has       *)
(* chosen for the fields of a shipped type, and gives a field that is new  *)
(* to it what the release ships, never what an earlier field of that name  *)
(* had.                                                                    *)
THEOREM ChoicesAlwaysSurvive == TemplatesSpec => ChoicesSurvive
<1>1. ASSUME TemplatesInv, [TemplatesNext]_templateVars, templateBounds'.starts # templateBounds.starts,
             program'.up, NEW id \in Types, tables.row[id].builtin, tables'.row[id].builtin,
             NEW k \in tables'.row[id].keys
      PROVE  LET new == k \notin tables.row[id].keys
                 shipped == program'.release[id]
             IN /\ tables'.show[id][k] = IF new THEN Answer(k, shipped.shown) ELSE tables.show[id][k]
                /\ tables'.keep[id][k] = IF new THEN Answer(k, shipped.kept) ELSE tables.keep[id][k]
  <2>1. StartProgram
    BY <1>1, OnlyStartsAreCounted
  <2>2. PICK release \in Releases : tables' = Seeded(tables, release) /\ program'.release = release
    BY <1>1, <2>1, StartProgramIs
  <2>3. TablesInv(tables) /\ release \in [Types -> Forms \cup {NoForm}]
    BY <1>1, TemplatesAssumption DEF TemplatesInv
  <2>4. PICK form : form = release[id]
    OBVIOUS
  <2>5. form # NoForm
    <3>1. PICK t, w : t = tables /\ w = tables'
      OBVIOUS
    <3>2. TablesInv(t) /\ w = Seeded(t, release) /\ t.row[id].builtin
      BY <1>1, <2>2, <2>3, <3>1
    <3>3. IF release[id] = NoForm THEN w.row[id] = NoRow
          ELSE w.row[id] = [builtin |-> TRUE, keys |-> release[id].keys]
      BY <2>3, <3>2, SeededIs
    <3>4. w.row[id] # NoRow
      BY <1>1, <3>1, RowsAre
    <3> QED BY <2>4, <3>3, <3>4
  <2>6. /\ tables'.row[id] = [builtin |-> TRUE, keys |-> form.keys]
        /\ tables'.show[id] = Refill(tables.show[id], form, form.shown)
        /\ tables'.keep[id] = Refill(tables.keep[id], form, form.kept)
    BY <1>1, <2>2, <2>3, <2>4, <2>5, SeededIs
  <2>7. form \in Forms /\ k \in form.keys /\ k \in Keys
    BY <1>1, <2>3, <2>4, <2>5, <2>6, FormsAre
  <2>8. /\ tables.show[id][k] = "unset" <=> k \notin tables.row[id].keys
        /\ tables.keep[id][k] = "unset" <=> k \notin tables.row[id].keys
    BY <1>1, <2>3, <2>7 DEF TablesInv, ChosenFor
  <2>9. /\ tables'.show[id][k] = IF tables.show[id][k] # "unset" THEN tables.show[id][k]
                                 ELSE Answer(k, form.shown)
        /\ tables'.keep[id][k] = IF tables.keep[id][k] # "unset" THEN tables.keep[id][k]
                                 ELSE Answer(k, form.kept)
    BY <2>6, <2>7, RefillIs
  <2> QED BY <2>2, <2>4, <2>8, <2>9
<1>2. TemplatesInv /\ [TemplatesNext]_templateVars =>
        (templateBounds'.starts # templateBounds.starts /\ program'.up =>
          \A id \in {i \in Types : tables.row[i].builtin /\ tables'.row[i].builtin} :
            \A k \in tables'.row[id].keys :
              LET new == k \notin tables.row[id].keys
                  shipped == program'.release[id]
              IN /\ tables'.show[id][k] = IF new THEN Answer(k, shipped.shown) ELSE tables.show[id][k]
                 /\ tables'.keep[id][k] = IF new THEN Answer(k, shipped.kept) ELSE tables.keep[id][k])
  BY <1>1
<1> QED BY <1>2, TemplatesHold, PTL DEF TemplatesSpec, ChoicesSurvive

=============================================================================
