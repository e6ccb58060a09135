---------------------- MODULE MCScheduledTriggerClaims ----------------------
(* Instances of ScheduledTriggerClaims for TLC.                            *)
EXTENDS ScheduledTriggerClaims, TLC

\* Handlers run the same code and are only compared.
HandlerSymmetry == Permutations(Handlers)
=============================================================================
