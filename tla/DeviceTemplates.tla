-------------------------- MODULE DeviceTemplates --------------------------
(***************************************************************************)
(* The types of devices.  They are stored in tables, together with what    *)
(* the operator wants to see and to have recorded of each field, and       *)
(* published in a registry, from which every master that is polled has     *)
(* built its plan.  Requests of the operator, imports and the start of a   *)
(* program that ships other types change the tables; masters are bound to  *)
(* types by requests of their own.                                         *)
(*                                                                         *)
(* device_template_store.cpp, device_template.cpp,                         *)
(* backend_query_templates.cpp, config_import_transaction.cpp and the      *)
(* plans of polling_service_collect.cpp.  How a master or an import is     *)
(* applied step by step is in ConfigApply.                                 *)
(***************************************************************************)
EXTENDS Naturals, FiniteSets

CONSTANTS
  Types,            (* identifiers of types                                 *)
  Keys,             (* of fields                                            *)
  Forms,            (* the definitions that are sent and shipped            *)
  Releases,         (* the types a program ships: [Types -> Forms \cup {NoForm}] *)
  MaxTemplateEdits, (* bound: requests                                      *)
  MaxStarts,        (* bound: starts of the process                         *)
  MaxTemplateFaults (* bound: failures                                      *)

(* fields, those shown in realtime and recorded, and the grouping of the   *)
(* display with the fields that have a group                               *)
NoForm == [keys |-> {}, shown |-> {}, kept |-> {}, grouping |-> FALSE, grouped |-> {}]

(* validate_template_locked: at least one field, of distinct keys, and a   *)
(* group for what is shown when groups are used.                           *)
Valid(f) ==
  /\ f.keys # {} /\ f.shown \cup f.kept \cup f.grouped \subseteq f.keys
  /\ f.grouping => f.shown \subseteq f.grouped

ASSUME TemplatesAssumption ==
  /\ \A f \in Forms : Valid(f) /\ f.keys \subseteq Keys
  /\ \A r \in Releases : r \in [Types -> Forms \cup {NoForm}]

VARIABLES
  tables,     (* rows, preferences and the type each master is bound to      *)
  registry,   (* [list, moved]: the published types and their generation    *)
  publishing, (* [at, list]: what the store is about to publish             *)
  binding,    (* the type the running master is bound to                    *)
  request,    (* who has config_apply_in_progress_                          *)
  program,    (* [release, up]                                              *)
  plan,       (* [form, gen, seen]: of the master that is polled              *)
  untold,     (* nothing has been left undone that the operator was told of *)
  templateBounds

templateVars == <<tables, registry, publishing, binding, request, program, plan, untold,
                  templateBounds>>

CountsTemplates(what) == templateBounds' = [templateBounds EXCEPT ![what] = @ + 1]
TemplateFault == templateBounds.faults < MaxTemplateFaults /\ CountsTemplates("faults")

(***************************************************************************)
(* The tables.  A preference outlives its field unless it is cleared.      *)
(***************************************************************************)
NoType == "none"
Row(builtin, form) == [builtin |-> builtin, keys |-> form.keys]
NoRow == Row(FALSE, NoForm)
Unset == [k \in Keys |-> "unset"]

(* No preference reads as no.                                              *)
Preferred(chosen, keys) == {k \in keys : chosen[k] = "yes"}

LoadedTypes(t) ==
  [id \in Types |->
     LET keys == t.row[id].keys IN
     IF keys = {} THEN NoForm
     ELSE [keys |-> keys,
           shown |-> Preferred(t.show[id], keys),
           kept |-> Preferred(t.keep[id], keys),
           grouping |-> t.grouping[id],
           grouped |-> t.grouped[id] \cap keys]]

Stored(t) == {id \in Types : t.row[id] # NoRow}
Answer(k, chosen) == IF k \in chosen THEN "yes" ELSE "no"

(* The groups are always those of the definition.                          *)
Grouped(t, id, form) == [t EXCEPT !.grouping[id] = form.grouping, !.grouped[id] = form.grouped]

(* Fields and all their preferences as in the definition.                  *)
Written(t, id, form, builtin) ==
  Grouped([t EXCEPT
     !.row[id] = Row(builtin, form),
     !.show[id] = [k \in Keys |-> IF k \in form.keys THEN Answer(k, form.shown) ELSE @[k]],
     !.keep[id] = [k \in Keys |-> IF k \in form.keys THEN Answer(k, form.kept) ELSE @[k]]],
    id, form)

Removed(t, id) ==
  [t EXCEPT !.row[id] = NoRow, !.show[id] = Unset, !.keep[id] = Unset,
            !.grouping[id] = FALSE, !.grouped[id] = {}]

(* An import writes a type anew, with the preferences of the package only. *)
Replaced(t, id, form) == Written(Removed(t, id), id, form, FALSE)

(* Mutation: a start writes the preferences the program ships.             *)
RefillAll(chosen, form, shipped) ==
  [k \in Keys |-> IF k \notin form.keys THEN "unset" ELSE Answer(k, shipped)]

(* A start fills in what is missing and clears what belongs to no field.   *)
Refill(chosen, form, shipped) ==
  [k \in Keys |-> IF k \notin form.keys THEN "unset"
                  ELSE IF chosen[k] # "unset" THEN chosen[k]
                  ELSE Answer(k, shipped)]

Synced(t, id, form) ==
  Grouped([t EXCEPT !.row[id] = Row(TRUE, form),
                    !.show[id] = Refill(@, form, form.shown),
                    !.keep[id] = Refill(@, form, form.kept)], id, form)

(* seed_builtin_templates_locked                                           *)
Seeded(t, release) ==
  LET Stale(id) == t.row[id].builtin /\ release[id] = NoForm
      After(id) == IF Stale(id) THEN Removed(t, id)
                   ELSE IF release[id] = NoForm THEN t
                   ELSE IF id \in Stored(t) THEN Synced(t, id, release[id])
                   ELSE Written(t, id, release[id], TRUE)
  IN [t EXCEPT !.row = [id \in Types |-> After(id).row[id]],
               !.show = [id \in Types |-> After(id).show[id]],
               !.keep = [id \in Types |-> After(id).keep[id]],
               !.grouping = [id \in Types |-> After(id).grouping[id]],
               !.grouped = [id \in Types |-> After(id).grouped[id]]]

(* replace_custom_templates_for_import_locked, and the masters.            *)
Imported(t, package) ==
  LET After(id) == IF t.row[id].builtin THEN t
                   ELSE IF package.forms[id] = NoForm THEN Removed(t, id)
                   ELSE Replaced(t, id, package.forms[id])
  IN [row |-> [id \in Types |-> After(id).row[id]],
      show |-> [id \in Types |-> After(id).show[id]],
      keep |-> [id \in Types |-> After(id).keep[id]],
      grouping |-> [id \in Types |-> After(id).grouping[id]],
      grouped |-> [id \in Types |-> After(id).grouped[id]],
      bound |-> package.bound]

(***************************************************************************)
(* Publication.  The store keeps its mutex until it is over; the registry's*)
(* own mutex is held between the two steps.                                *)
(***************************************************************************)
NothingToPublish == [at |-> "no", list |-> [id \in Types |-> NoForm]]
StoreFree == program.up /\ publishing.at = "no"
Publishes(t) == tables' = t /\ publishing' = [at |-> "stored", list |-> LoadedTypes(t)]

PublishList ==
  /\ publishing.at = "stored"
  /\ registry' = [registry EXCEPT !.list = publishing.list]
  /\ publishing' = [publishing EXCEPT !.at = "listed"] /\ untold' = TRUE
  /\ UNCHANGED <<tables, binding, request, program, plan, templateBounds>>

MoveGeneration ==
  /\ publishing.at = "listed"
  /\ registry' = [registry EXCEPT !.moved = @ + 1]
  /\ publishing' = NothingToPublish
  /\ UNCHANGED <<tables, binding, request, program, plan, untold, templateBounds>>

(***************************************************************************)
(* Requests about types.                                                   *)
(***************************************************************************)
NoRequest == [kind |-> "none", at |-> "no", id |-> NoType, form |-> NoForm,
              package |-> [forms |-> [id \in Types |-> NoForm], bound |-> NoType]]
Asked(kind, id, form) ==
  [NoRequest EXCEPT !.kind = kind, !.at = "begun", !.id = id, !.form = form]

(* Mutation: requests about types do not look whether another is under way.*)
FlagUnread == program.up /\ templateBounds.edits < MaxTemplateEdits

FlagFree ==
  program.up /\ request.kind = "none" /\ templateBounds.edits < MaxTemplateEdits

(* Neither shipped nor bound to the master that runs.                      *)
Editable(id) == registry.list[id] # NoForm /\ ~tables.row[id].builtin /\ binding # id

Begins(kind, id, form) ==
  /\ request' = Asked(kind, id, form)
  /\ CountsTemplates("edits")
  /\ UNCHANGED <<tables, registry, publishing, binding, program, plan, untold>>

BeginCreate == FlagFree /\ \E id \in Types, form \in Forms : Begins("create", id, form)
BeginUpdate ==
  FlagFree /\ \E id \in Types, form \in Forms : Editable(id) /\ Begins("update", id, form)
BeginDelete == FlagFree /\ \E id \in Types : Editable(id) /\ Begins("delete", id, NoForm)

(* The same type again is taken as a repetition of a request that          *)
(* succeeded.                                                              *)
Known(id, form) == id \in Stored(tables) /\ ~tables.row[id].builtin /\ LoadedTypes(tables)[id] = form

AtStore(kind) ==
  /\ StoreFree /\ request.at = "begun" /\ request.kind = kind
  /\ UNCHANGED <<registry, binding, program, plan, untold>>

TypeStored == request' = [request EXCEPT !.at = "stored"] /\ UNCHANGED templateBounds
TypeRefused == request' = NoRequest /\ UNCHANGED <<tables, publishing>>

CreateType ==
  LET id == request.id IN
  /\ AtStore("create")
  /\ \/ Known(id, request.form) /\ TypeStored /\ UNCHANGED <<tables, publishing>>
     \/ /\ id \in Stored(tables) /\ ~Known(id, request.form)
        /\ TypeRefused /\ UNCHANGED templateBounds
     \/ id \notin Stored(tables) /\ TypeStored /\ Publishes(Written(tables, id, request.form, FALSE))
     \/ TemplateFault /\ TypeRefused

(* The store looks again for a type that is stored and not shipped.        *)
ChangeType(t) ==
  LET possible == request.id \in Stored(tables) /\ ~tables.row[request.id].builtin IN
  \/ possible /\ TypeStored /\ Publishes(t)
  \/ ~possible /\ TypeRefused /\ UNCHANGED templateBounds
  \/ TemplateFault /\ TypeRefused

UpdateType ==
  AtStore("update") /\ ChangeType(Written(tables, request.id, request.form, FALSE))
DeleteType == AtStore("delete") /\ ChangeType(Removed(tables, request.id))

EndType ==
  /\ StoreFree /\ request.at = "stored"
  /\ request' = NoRequest
  /\ UNCHANGED <<tables, registry, publishing, binding, program, plan, untold, templateBounds>>

(* One preference, outside of any transaction and of the flag.  When the   *)
(* types cannot be loaded again, it is stored all the same.                *)
StoresPreference(t) ==
  /\ \/ Publishes(t) /\ CountsTemplates("edits") /\ UNCHANGED untold
     \/ TemplateFault /\ tables' = t /\ untold' = FALSE /\ UNCHANGED publishing
  /\ UNCHANGED <<registry, binding, request, program, plan>>

MayPrefer == StoreFree /\ templateBounds.edits < MaxTemplateEdits

ShowField ==
  MayPrefer /\ \E id \in Types, k \in Keys, answer \in {"yes", "no"} :
    /\ k \in tables.row[id].keys
    /\ answer = "yes" /\ tables.grouping[id] => k \in tables.grouped[id]
    /\ StoresPreference([tables EXCEPT !.show[id][k] = answer])

KeepField ==
  MayPrefer /\ \E id \in Types, k \in Keys, answer \in {"yes", "no"} :
    k \in tables.row[id].keys /\ StoresPreference([tables EXCEPT !.keep[id][k] = answer])

(***************************************************************************)
(* Masters and imports.                                                    *)
(***************************************************************************)
(* A poll is planned anew with every configuration, and before each round  *)
(* when the types have changed.                                            *)
Planned(list, moved, type) ==
  [form |-> IF type = NoType THEN NoForm ELSE list[type], gen |-> moved, seen |-> 0]

BeginMaster ==
  FlagFree /\ \E id \in Types \cup {NoType} :
    (id # NoType => registry.list[id] # NoForm) /\ Begins("master", id, NoForm)

ApplyMaster ==
  /\ program.up /\ publishing.at # "listed" /\ request.kind = "master"
  /\ request' = NoRequest
  /\ \/ /\ tables' = [tables EXCEPT !.bound = request.id]
        /\ binding' = request.id
        /\ plan' = Planned(registry.list, registry.moved, request.id) /\ UNCHANGED templateBounds
     \/ /\ TemplateFault /\ UNCHANGED <<tables, binding>>
        /\ plan' = Planned(registry.list, registry.moved, binding)
  /\ UNCHANGED <<registry, publishing, program, untold>>

(* What an export of the present configuration would hold.                 *)
Exported ==
  [forms |-> [id \in Types |-> IF tables.row[id].builtin THEN NoForm ELSE LoadedTypes(tables)[id]],
   bound |-> tables.bound]

(* A package has no type that is shipped, and binds its master to a type.  *)
BeginTypesImport ==
  /\ FlagFree
  /\ \E forms \in [{id \in Types : ~tables.row[id].builtin} -> Forms \cup {NoForm}],
        type \in Types \cup {NoType} :
       LET all == [id \in Types |-> IF id \in DOMAIN forms THEN forms[id] ELSE NoForm] IN
       /\ type # NoType => tables.row[type].builtin \/ all[type] # NoForm
       /\ request' = [NoRequest EXCEPT !.kind = "import", !.at = "begun", !.package = [forms |-> all, bound |-> type]]
  /\ CountsTemplates("edits")
  /\ UNCHANGED <<tables, registry, publishing, binding, program, plan, untold>>

ImportTypes ==
  /\ StoreFree /\ request.kind = "import" /\ request.at = "begun"
  /\ \/ /\ Publishes(Imported(tables, request.package)) /\ UNCHANGED templateBounds
        /\ request' = [request EXCEPT !.at = "imported", !.package = Exported]
     \/ TemplateFault /\ request' = NoRequest /\ UNCHANGED <<tables, publishing>>
  /\ UNCHANGED <<registry, binding, program, plan, untold>>

(* Applied, or put back and loaded again by a second import of what was.   *)
ImportApplies ==
  /\ StoreFree /\ request.at \in {"imported", "restored"}
  /\ \/ /\ request' = NoRequest /\ binding' = tables.bound
        /\ plan' = Planned(registry.list, registry.moved, tables.bound)
        /\ UNCHANGED <<tables, publishing, templateBounds>>
     \/ /\ request.at = "imported" /\ TemplateFault
        /\ Publishes(Imported(tables, request.package))
        /\ request' = [request EXCEPT !.at = "restored"] /\ UNCHANGED <<binding, plan>>
  /\ UNCHANGED <<registry, program, untold>>

(***************************************************************************)
(* The poll.                                                               *)
(***************************************************************************)
Polls == program.up /\ binding # NoType /\ request.kind \notin {"master", "import"}

SeeGeneration ==
  /\ Polls /\ plan.seen = 0 /\ plan.gen # registry.moved
  /\ plan' = [plan EXCEPT !.seen = registry.moved]
  /\ UNCHANGED <<tables, registry, publishing, binding, request, program, untold, templateBounds>>

PlanAnew ==
  /\ Polls /\ plan.seen # 0 /\ publishing.at # "listed"
  /\ plan' = Planned(registry.list, plan.seen, binding)
  /\ UNCHANGED <<tables, registry, publishing, binding, request, program, untold, templateBounds>>

(***************************************************************************)
(* The process ends at any moment; the next may be another release, and    *)
(* does not come up when the type of the master is gone.                   *)
(***************************************************************************)
StartProgram ==
  /\ templateBounds.starts < MaxStarts
  /\ \E release \in Releases :
       LET t == Seeded(tables, release)
           up == t.bound = NoType \/ t.bound \in Stored(t)
           moved == registry.moved + 1
       IN \/ /\ tables' = t /\ program' = [release |-> release, up |-> up]
             /\ registry' = [list |-> LoadedTypes(t), moved |-> moved]
             /\ binding' = IF up THEN t.bound ELSE NoType
             /\ plan' = Planned(LoadedTypes(t), moved, binding')
             /\ CountsTemplates("starts")
          \/ /\ templateBounds.faults < MaxTemplateFaults
             /\ templateBounds' = [templateBounds EXCEPT !.starts = @ + 1, !.faults = @ + 1]
             /\ program' = [release |-> release, up |-> FALSE]
             /\ UNCHANGED <<tables, registry, binding, plan>>
  /\ publishing' = NothingToPublish /\ request' = NoRequest /\ untold' = TRUE

(***************************************************************************)
(* The specification.                                                      *)
(***************************************************************************)
Empty ==
  [row |-> [id \in Types |-> NoRow], show |-> [id \in Types |-> Unset],
   keep |-> [id \in Types |-> Unset], grouping |-> [id \in Types |-> FALSE],
   grouped |-> [id \in Types |-> {}], bound |-> NoType]

TemplatesInit ==
  /\ program \in [release : Releases, up : {TRUE}]
  /\ tables = Seeded(Empty, program.release)
  /\ registry = [list |-> LoadedTypes(tables), moved |-> 1]
  /\ publishing = NothingToPublish /\ binding = NoType /\ request = NoRequest
  /\ plan = Planned(registry.list, 1, NoType) /\ untold = TRUE
  /\ templateBounds = [edits |-> 0, starts |-> 0, faults |-> 0]

TemplatesNext ==
  \/ PublishList \/ MoveGeneration
  \/ BeginCreate \/ BeginUpdate \/ BeginDelete \/ CreateType \/ UpdateType \/ DeleteType
  \/ EndType \/ ShowField \/ KeepField
  \/ BeginMaster \/ ApplyMaster \/ BeginTypesImport \/ ImportTypes \/ ImportApplies
  \/ SeeGeneration \/ PlanAnew \/ StartProgram

TemplatesSpec == TemplatesInit /\ [][TemplatesNext]_templateVars

(***************************************************************************)
(* What is promised.                                                       *)
(***************************************************************************)
(* Between requests, the types that are published are those stored, the    *)
(* master is bound to one of them, and the plan it is polled by has the    *)
(* present fields once it has taken notice of the present generation.      *)
TypesAreInForce ==
  program.up /\ publishing.at = "no" /\ untold =>
    /\ registry.list = LoadedTypes(tables)
    /\ request.kind = "none" =>
         binding = tables.bound /\ (binding # NoType => registry.list[binding] # NoForm)
    /\ plan.seen = 0 /\ plan.gen = registry.moved /\ Polls =>
         plan = Planned(registry.list, registry.moved, binding)

(* A start, also one of another release, keeps what the operator has chosen*)
(* for the fields of a shipped type, and gives a field that is new to it   *)
(* what the release ships, never what an earlier field of that name had.   *)
ChoicesSurvive ==
  [][templateBounds'.starts # templateBounds.starts /\ program'.up =>
       \A id \in {i \in Types : tables.row[i].builtin /\ tables'.row[i].builtin} :
         \A k \in tables'.row[id].keys :
           LET new == k \notin tables.row[id].keys
               shipped == program'.release[id]
           IN /\ tables'.show[id][k] = IF new THEN Answer(k, shipped.shown) ELSE tables.show[id][k]
              /\ tables'.keep[id][k] = IF new THEN Answer(k, shipped.kept) ELSE tables.keep[id][k]
    ]_templateVars
=============================================================================
