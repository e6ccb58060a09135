---------------------- MODULE MCCollectionEventOutbox ----------------------
(* Instances of CollectionEventOutbox for TLC.                             *)
EXTENDS CollectionEventOutbox, TLC

\* Passes run the same code and are only compared.
PassSymmetry == Permutations(Dispatchers)
=============================================================================
