---------------------------- MODULE ModbusServing ----------------------------
(***************************************************************************)
(* The points of the devices as registers of a Modbus TCP server.  Each    *)
(* publication of the collection is encoded into the bank of registers;    *)
(* an edit of the mappings builds a new bank from a snapshot of the store  *)
(* and from the last values of the old one and puts it in its place while  *)
(* devices are polled and clients read; a change of the settings starts    *)
(* the server anew.  ModbusSessions has its clients.                       *)
(*                                                                         *)
(* modbus_export_service.cpp, modbus_register_bank.cpp,                    *)
(* modbus_register_encoder.cpp, modbus_tcp_server.cpp,                     *)
(* backend_modbus_server.cpp and config_store_modbus_server.cpp.  Imports  *)
(* and factory resets, which exchange the bank too, are in ConfigApply.    *)
(***************************************************************************)
EXTENDS Naturals, Sequences, FiniteSets

CONSTANTS
  Mappings,        (* mapping ids; each exports a point of one device        *)
  Cells,           (* places in the bank: the value and quality registers    *)
  Conversions,     (* data type, multiplier, offset and orders of a mapping  *)
  MaxValues,       (* bound: publications                                    *)
  MaxEdits,        (* bound: edits of mappings and of the configuration      *)
  MaxReads,        (* bound: requests answered                               *)
  MaxServingFaults (* bound: failures                                        *)

ASSUME ServingAssumption ==
  /\ "none" \notin Conversions
  /\ MaxValues \in Nat /\ MaxEdits \in Nat /\ MaxReads \in Nat /\ MaxServingFaults \in Nat

VARIABLES
  table,      (* the mappings stored                                        *)
  device,     (* the status of the device in DataStore                      *)
  publication,(* [at, missing, todo]: who publishes, and what is not written *)
  updating,   (* who holds update_mutex_                                    *)
  banks,      (* the banks of registers, in the order they were configured  *)
  fed,        (* the bank of the export service,                            *)
  served,     (* of the server                                              *)
  owned,      (* and of the backend, by number                              *)
  edit,       (* the edit or restart under way                              *)
  listening,  (* the I/O thread runs                                        *)
  answers,    (* the answers made, in order                                 *)
  servingBounds

servingVars == <<table, device, publication, updating, banks, fed, served, owned, edit,
                 listening, answers, servingBounds>>

Counts(what) == servingBounds' = [servingBounds EXCEPT ![what] = @ + 1]
ServingFault == servingBounds.faults < MaxServingFaults /\ Counts("faults")

(***************************************************************************)
(* Mappings and banks.                                                     *)
(***************************************************************************)
Absent == [cell |-> 0, conv |-> "none", on |-> FALSE]
Mapping == [cell : Cells, conv : Conversions, on : BOOLEAN]
InUse(forms) == {m \in Mappings : forms[m] # Absent}

(* No two mappings have a register in common.                              *)
Separate(forms) == \A m, n \in InUse(forms) : forms[m].cell = forms[n].cell => m = n

NoValue == [conv |-> "none", v |-> 0]
Enabled(forms) == {m \in InUse(forms) : forms[m].on}

NewBank(forms) ==
  [forms |-> forms,
   value |-> [m \in Mappings |-> NoValue],
   quality |-> [m \in Mappings |-> IF forms[m].on THEN "not produced" ELSE "disabled"]]

(* update_one_status for an enabled mapping: a value is written only with  *)
(* a good quality, and stays otherwise.                                    *)
Fed(bank, m, d) ==
  IF d.kind[m] = "good"
  THEN [bank EXCEPT !.value[m] = [conv |-> bank.forms[m].conv, v |-> d.v], !.quality[m] = "good"]
  ELSE [bank EXCEPT !.quality[m] = d.kind[m]]

(* Mutation: the new bank starts from the snapshot alone.                  *)
CarryNothing(m, from, forms) == FALSE

(* can_carry_last_value.                                                   *)
Carries(m, from, forms) ==
  from.forms[m] # Absent /\ forms[m] # Absent /\ from.forms[m].conv = forms[m].conv

(* reconfigure_with_snapshot, up to the exchange.                          *)
Built(forms, from, snapshot) ==
  LET carried == [NewBank(forms) EXCEPT
        !.value = [m \in Mappings |-> IF Carries(m, from, forms) THEN from.value[m] ELSE NoValue]]
  IN [carried EXCEPT
        !.value = [m \in Mappings |-> IF m \in Enabled(forms) THEN Fed(carried, m, snapshot).value[m]
                                      ELSE carried.value[m]],
        !.quality = [m \in Mappings |-> IF m \in Enabled(forms)
                                        THEN Fed(carried, m, snapshot).quality[m]
                                        ELSE carried.quality[m]]]

(***************************************************************************)
(* Publication.  publication_mutex_ is held from the store to the bank.    *)
(***************************************************************************)
NoPublication == [at |-> "free", missing |-> {}, todo |-> {}]
ExportOnly == UNCHANGED <<table, fed, served, owned, edit, listening, answers>>

(* A poll; a point may have no value, or none that can be encoded.         *)
PublishValues ==
  /\ publication.at = "free" /\ device.v < MaxValues
  /\ \E good \in SUBSET Mappings :
       device' = [v |-> device.v + 1,
                  kind |-> [m \in Mappings |-> IF m \in good THEN "good" ELSE "invalid"]]
  /\ publication' = [publication EXCEPT !.at = "stored"]
  /\ UNCHANGED <<updating, banks, servingBounds>> /\ ExportOnly

(* Values expire, or their channel was exchanged.                          *)
ExpireValues ==
  /\ publication.at = "free" /\ \E m \in Mappings : device.kind[m] = "good"
  /\ device' = [device EXCEPT !.kind = [m \in Mappings |-> "offline"]]
  /\ publication' = [publication EXCEPT !.at = "stored"]
  /\ UNCHANGED <<updating, banks, servingBounds>> /\ ExportOnly

(* A configuration is taken over while nothing is polled; what is not known*)
(* of a point is written over its quality in two rounds.                   *)
EmptyDevices ==
  /\ publication.at = "free" /\ device.v > 0 /\ servingBounds.edits < MaxEdits
  /\ device' = [device EXCEPT !.kind = [m \in Mappings |-> "not produced"]]
  /\ publication' = [publication EXCEPT !.at = "emptied"]
  /\ Counts("edits") /\ UNCHANGED <<updating, banks>> /\ ExportOnly

FeedBegin ==
  /\ publication.at \in {"stored", "emptied"} /\ updating = "none"
  /\ updating' = "publication"
  /\ LET todo == Enabled(banks[fed].forms) IN
     publication' = [at |-> "feeding", todo |-> todo,
                     missing |-> IF publication.at = "emptied" THEN todo ELSE {}]
  /\ UNCHANGED <<device, banks, servingBounds>> /\ ExportOnly

MarkMissing(m) ==
  /\ m \in publication.missing
  /\ banks' = [banks EXCEPT ![fed].quality[m] = "target missing"]
  /\ publication' = [publication EXCEPT !.missing = @ \ {m}]
  /\ UNCHANGED <<device, updating, servingBounds>> /\ ExportOnly

FeedOne(m) ==
  /\ publication.missing = {} /\ m \in publication.todo
  /\ banks' = [banks EXCEPT ![fed] = Fed(@, m, device)]
  /\ publication' = [publication EXCEPT !.todo = @ \ {m}]
  /\ UNCHANGED <<device, updating, servingBounds>> /\ ExportOnly

FeedEnd ==
  /\ publication.at = "feeding" /\ publication.missing = {} /\ publication.todo = {}
  /\ publication' = NoPublication /\ updating' = "none"
  /\ UNCHANGED <<device, banks, servingBounds>> /\ ExportOnly

(***************************************************************************)
(* Edits of mappings, under modbus_management_mutex_.                      *)
(***************************************************************************)
NoEdit == [at |-> "none", former |-> [m \in Mappings |-> Absent],
           forms |-> [m \in Mappings |-> Absent],
           snapshot |-> [v |-> 0, kind |-> [m \in Mappings |-> "not produced"]], undoing |-> FALSE]
ServerAlone == UNCHANGED <<listening, answers>>

(* create, update and delete; moving two mappings at once takes an import. *)
SaveMapping ==
  /\ edit.at = "none" /\ servingBounds.edits < MaxEdits
  /\ \E m \in Mappings, f \in Mapping \cup {Absent} :
       /\ f # table[m] /\ Separate([table EXCEPT ![m] = f])
       /\ table' = [table EXCEPT ![m] = f]
  /\ edit' = [NoEdit EXCEPT !.at = "saved", !.former = table]
  /\ Counts("edits") /\ UNCHANGED <<device, publication, updating, banks, fed, served, owned>>
  /\ ServerAlone

LoadMappings ==
  /\ edit.at = "saved"
  /\ edit' = [edit EXCEPT !.at = "loaded", !.forms = table]
  /\ UNCHANGED <<table, device, publication, updating, banks, fed, served, owned, servingBounds>>
  /\ ServerAlone

(* Mutation: the statuses are read before the publishers are locked out.   *)
SnapshotOutside ==
  /\ edit.at = "loaded"
  /\ \/ /\ edit.snapshot.v = 0 /\ device.v > 0
        /\ edit' = [edit EXCEPT !.snapshot = device] /\ UNCHANGED updating
     \/ /\ edit.snapshot.v > 0 /\ updating = "none" /\ updating' = "edit"
        /\ edit' = [edit EXCEPT !.at = "building"]
  /\ UNCHANGED <<table, device, publication, banks, fed, served, owned, servingBounds>>
  /\ ServerAlone

TakeSnapshot ==
  /\ edit.at = "loaded" /\ updating = "none"
  /\ updating' = "edit"
  /\ edit' = [edit EXCEPT !.at = "building", !.snapshot = device]
  /\ UNCHANGED <<table, device, publication, banks, fed, served, owned, servingBounds>>
  /\ ServerAlone

SwitchFed ==
  /\ edit.at = "building"
  /\ banks' = Append(banks, Built(edit.forms, banks[fed], edit.snapshot))
  /\ fed' = Len(banks) + 1
  /\ edit' = [edit EXCEPT !.at = "fed"]
  /\ UNCHANGED <<table, device, publication, updating, served, owned, servingBounds>>
  /\ ServerAlone

SwitchServed ==
  /\ edit.at = "fed"
  /\ served' = fed /\ updating' = "none"
  /\ edit' = [edit EXCEPT !.at = "served"]
  /\ UNCHANGED <<table, device, publication, banks, fed, owned, servingBounds>>
  /\ ServerAlone

AdoptBank ==
  /\ edit.at = "served"
  /\ owned' = fed /\ edit' = NoEdit
  /\ UNCHANGED <<table, device, publication, updating, banks, fed, served, servingBounds>>
  /\ ServerAlone

(* The table cannot be read, or the bank not be built: the former mappings *)
(* are stored and loaded again, once.                                      *)
ReloadMappingsFails ==
  /\ edit.at \in {"saved", "building"} /\ ServingFault
  /\ updating' = IF edit.at = "building" THEN "none" ELSE updating
  /\ edit' = IF edit.undoing THEN NoEdit ELSE [edit EXCEPT !.at = "undoing"]
  /\ UNCHANGED <<table, device, publication, banks, fed, served, owned>>
  /\ ServerAlone

UndoMapping ==
  /\ edit.at = "undoing"
  /\ \/ table' = edit.former /\ UNCHANGED servingBounds
        /\ edit' = [edit EXCEPT !.at = "saved", !.undoing = TRUE]
     \/ ServingFault /\ edit' = NoEdit /\ UNCHANGED table
  /\ UNCHANGED <<device, publication, updating, banks, fed, served, owned>>
  /\ ServerAlone

(***************************************************************************)
(* The server and its settings.                                            *)
(***************************************************************************)
BanksAlone == UNCHANGED <<table, device, publication, updating, banks, fed, owned>>
(* apply_modbus_server_settings: stop, then start with the new settings    *)
(* and, when these fail, with the former ones.                             *)
StopServer ==
  /\ edit.at = "none"
  /\ edit' = [NoEdit EXCEPT !.at = "stopped"]
  /\ listening' = FALSE /\ UNCHANGED <<served, answers, servingBounds>> /\ BanksAlone

StartServer ==
  /\ edit.at = "stopped"
  /\ served' = owned
  /\ \/ listening' = TRUE /\ edit' = NoEdit /\ UNCHANGED servingBounds
     \/ /\ ServingFault /\ UNCHANGED listening
        /\ edit' = IF edit.undoing THEN NoEdit ELSE [edit EXCEPT !.undoing = TRUE]
  /\ UNCHANGED answers /\ BanksAlone

(* An exception ends the I/O thread.                                       *)
ServerDies ==
  /\ listening /\ ServingFault
  /\ listening' = FALSE /\ UNCHANGED <<served, edit, answers>> /\ BanksAlone

(***************************************************************************)
(* process_adu: the bank of the moment, and what its registers hold at     *)
(* once; a place no mapping has is answered with an exception.             *)
(***************************************************************************)
Registers(bank, places) ==
  LET used == {bank.forms[m].cell : m \in InUse(bank.forms)}
  IN [m \in {n \in InUse(bank.forms) : bank.forms[n].cell \in places /\ places \subseteq used} |->
        [value |-> bank.value[m], quality |-> bank.quality[m]]]

AnswerRequest ==
  /\ listening /\ Len(answers) < MaxReads
  /\ \E places \in SUBSET Cells \ {{}} :
       answers' = Append(answers, [bank |-> served, registers |-> Registers(banks[served], places)])
  /\ UNCHANGED <<served, edit, listening, servingBounds>> /\ BanksAlone

(***************************************************************************)
(* The specification.                                                      *)
(***************************************************************************)
(* initialize: every place has a mapping of the first kind, while there are*)
(* enough.                                                                 *)
ServingInit ==
  /\ table \in {f \in [Mappings -> Mapping] : Separate(f) /\ \A m \in Mappings : f[m].on}
  /\ device = [v |-> 0, kind |-> [m \in Mappings |-> "not produced"]]
  /\ publication = NoPublication /\ updating = "none"
  /\ banks = <<NewBank(table)>> /\ fed = 1 /\ served = 1 /\ owned = 1
  /\ edit = NoEdit /\ listening = TRUE
  /\ answers = <<>> /\ servingBounds = [edits |-> 0, faults |-> 0]

ServingNext ==
  \/ PublishValues \/ ExpireValues \/ EmptyDevices \/ FeedBegin \/ FeedEnd
  \/ \E m \in Mappings : MarkMissing(m) \/ FeedOne(m)
  \/ SaveMapping \/ LoadMappings \/ TakeSnapshot \/ SwitchFed \/ SwitchServed \/ AdoptBank
  \/ ReloadMappingsFails \/ UndoMapping \/ StopServer \/ StartServer \/ ServerDies
  \/ AnswerRequest

ServingSpec == ServingInit /\ [][ServingNext]_servingVars

(***************************************************************************)
(* What is promised.                                                       *)
(***************************************************************************)
(* While nobody publishes and no bank is being exchanged, the registers    *)
(* that are served are those that are fed, and every enabled mapping has   *)
(* the quality of its point and, when that is good, its value in its       *)
(* conversion.                                                             *)
ServedIsPublished ==
  publication.at = "free" /\ updating = "none" =>
    /\ served = fed \/ ~listening
    /\ \A m \in Enabled(banks[fed].forms) :
         /\ banks[fed].quality[m] = device.kind[m]
         /\ device.kind[m] = "good" =>
              banks[fed].value[m] = [conv |-> banks[fed].forms[m].conv, v |-> device.v]

(* What clients read of a mapping never goes back, not over an exchange of *)
(* banks or a restart either, as long as nobody changes how it is          *)
(* converted: a later answer has the same or a later value, good or not.   *)
AnswersGoForward ==
  \A j \in DOMAIN answers : \A i \in 1 .. j - 1 :
    \A m \in DOMAIN answers[i].registers \cap DOMAIN answers[j].registers :
      (\A b \in answers[i].bank .. answers[j].bank :
         banks[b].forms[m].conv = banks[answers[i].bank].forms[m].conv) =>
      answers[i].registers[m].value.v <= answers[j].registers[m].value.v
=============================================================================
