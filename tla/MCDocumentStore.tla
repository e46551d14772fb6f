-------------------------- MODULE MCDocumentStore --------------------------
(* Instances of the document store for TLC.                                *)
EXTENDS DocumentStoreProperties, TLC

(* Ids are interchangeable.                                                *)
Ids == Permutations(Store) \cup Permutations(Loader)
=============================================================================
