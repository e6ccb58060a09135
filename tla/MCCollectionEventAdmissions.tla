--------------------- MODULE MCCollectionEventAdmissions ---------------------
(* Instances of CollectionEventAdmissions for TLC.                         *)
EXTENDS CollectionEventAdmissions, TLC

CONSTANTS s1, s2

\* Requests run the same code.
PostSymmetry == Permutations(Posts)

\* An event that changed one field; nobody watches fields, or s1 watches it.
OneField == {"stage"}
NoneWatched == [s \in {s1, s2} |-> {}]
StageWatched == [s \in {s1, s2} |-> IF s = s1 THEN {"stage"} ELSE {}]

\* One inline and one batched subscription; or a watching batched one.
Mixed  == [s \in {s1, s2} |-> IF s = s1 THEN "inline" ELSE "batch"]
Batched == [s \in {s1, s2} |-> "batch"]
=============================================================================
