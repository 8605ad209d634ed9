------------------------------ MODULE MCConfig ------------------------------
(***************************************************************************)
(* The configuration, the types of devices it refers to, and the alarms    *)
(* its masters feed.  The parts share no state, so only the part in focus  *)
(* moves: a run has the states of each part alone and not of two together. *)
(***************************************************************************)
EXTENDS AlarmEvaluator, ConfigApply, DeviceTemplates, TLC

CONSTANT p1

VARIABLE focus

allConfigVars == <<focus, configVars, templateVars, vars>>

(* A master with the point p1, a second one without points, and a rule for *)
(* the point that counts to two.                                           *)
TwoMasters == {{p1}, {}}
OneRule ==
  {[enabled |-> TRUE, high |-> TRUE, low |-> FALSE, trigger |-> 2, recovery |-> 2]}

(* A type of one recorded field, and one that shows and groups its fields  *)
(* and has one more.                                                       *)
Plain == [keys |-> {"k"}, shown |-> {}, kept |-> {"k"}, grouping |-> FALSE, grouped |-> {}]
Rich == [keys |-> {"k", "l"}, shown |-> {"k"}, kept |-> {}, grouping |-> TRUE, grouped |-> {"k"}]

TwoForms == {Plain, Rich}

(* Type "b" is plain, rich, or given up for "c".                           *)
ThreeReleases ==
  {[id \in Types |-> IF id = "b" THEN Plain ELSE NoForm],
   [id \in Types |-> IF id = "b" THEN Rich ELSE NoForm],
   [id \in Types |-> IF id = "c" THEN Plain ELSE NoForm]}

(* A part out of focus stands at one of its initial states.                *)
AtRest ==
  /\ focus # "configuration" => stored = Factory
  /\ focus # "types" => program.release = [id \in Types |-> IF id = "b" THEN Plain ELSE NoForm]

(* At its bounds, the part may stop, but not in the midst of a request.    *)
TypesRest ==
  /\ program.up => request.kind = "none" /\ publishing.at = "no"
  /\ UNCHANGED templateVars

AllConfigInit ==
  /\ focus \in {"configuration", "types", "alarms"}
  /\ ConfigInit /\ TemplatesInit /\ Init /\ AtRest

AllConfigNext ==
  /\ UNCHANGED focus
  /\ \/ focus = "configuration" /\ ConfigNext /\ UNCHANGED <<templateVars, vars>>
     \/ focus = "types" /\ (TemplatesNext \/ TypesRest) /\ UNCHANGED <<configVars, vars>>
     \/ focus = "alarms" /\ Next /\ UNCHANGED <<configVars, templateVars>>

AllConfigSpec == AllConfigInit /\ [][AllConfigNext]_allConfigVars
=============================================================================
