------------------------- MODULE MCAlarmEvaluator -------------------------
(* Instances of AlarmEvaluator for TLC.                                    *)
EXTENDS AlarmEvaluator

CONSTANT p1

OnePoint == {{p1}}

(* A rule on both sides that counts to two, one on the high side that      *)
(* triggers at once, and a disabled one.                                   *)
ManyRules ==
  {[enabled |-> TRUE, high |-> TRUE, low |-> TRUE, trigger |-> 2, recovery |-> 2],
   [enabled |-> TRUE, high |-> TRUE, low |-> FALSE, trigger |-> 1, recovery |-> 1],
   [enabled |-> FALSE, high |-> TRUE, low |-> FALSE, trigger |-> 1, recovery |-> 2]}
=============================================================================
