-------------------------- MODULE MCDocumentStore --------------------------
(* Instances of DocumentStore for TLC: one or two documents in the one chat *)
(* session of a user.                                                       *)
EXTENDS DocumentStore, TLC

CONSTANTS d1, d2, c1

SameChat == (d1 :> c1) @@ (d2 :> c1)
OneDoc == d1 :> c1

RequestSymmetry == Permutations(Requests)
=============================================================================
