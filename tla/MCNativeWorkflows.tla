------------------------- MODULE MCNativeWorkflows -------------------------
(* Instances of NativeWorkflows for TLC.                                   *)
EXTENDS NativeWorkflows, TLC

CONSTANTS r1, r2

\* A run that sends and then waits on its last node, and a run of one write.
TwoFlows == r1 :> <<"webhook", "delay">> @@ r2 :> <<"inner">>
=============================================================================
