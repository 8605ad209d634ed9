-------------------------- MODULE MCSamplePipeline --------------------------
(* Instances of SamplePipeline for TLC.                                    *)
EXTENDS SamplePipeline, TLC

CONSTANTS m1, m2

OneMaster == {m1}
OneWeight == [m \in OneMaster |-> 1]
TwoMasters == {m1, m2}
TwoWeights == m1 :> 1 @@ m2 :> 2
=============================================================================
