------------------------- MODULE MCRequestPipeline -------------------------
(* Instances of RequestPipeline for TLC.                                     *)
EXTENDS RequestPipeline, TLC

CONSTANTS q1, q2, q3

\* Three clients who fill quotas.
Fillers == [q \in Requests |-> {"create", "initialize", "upload", "delete"}]

\* Two clients whose requests need locks and connections, and one whose
\* requests only take connections for a while.
Rivals == (q1 :> {"create", "upload", "delete"})
       @@ (q2 :> {"upload", "delete"})
       @@ (q3 :> {"read", "probe"})

RequestSymmetry == Permutations(Requests)
=============================================================================
