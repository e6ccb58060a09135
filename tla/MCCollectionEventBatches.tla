---------------------- MODULE MCCollectionEventBatches ----------------------
(* Instances of CollectionEventBatches for TLC.                            *)
EXTENDS CollectionEventBatches, TLC

\* Posts run the same code, and so do flushes; events are only compared.
RequestSymmetry ==
  Permutations(Posts) \cup Permutations(Flushes) \cup Permutations(Events)
=============================================================================
