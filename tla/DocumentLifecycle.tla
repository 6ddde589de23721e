------------------------- MODULE DocumentLifecycle -------------------------
(***************************************************************************)
(* What the upload and ingestion services promise about one document,      *)
(* without saying how: the stages a document goes through, and that a      *)
(* search sees either nothing of a document or all of it.                  *)
(*                                                                         *)
(* Module Ingestion implements this one; the mapping is at its end.        *)
(***************************************************************************)
EXTENDS Naturals

CONSTANTS
    Docs,   \* identities of documents; an identity is never used twice
    Whole   \* how much of a document a search sees when it sees all of it

VARIABLES
    stage,   \* where each document is in its life
    seen     \* how much of each document a search can return

vars == <<stage, seen>>

Stages == {"none", "queued", "working", "ready", "failed", "gone"}

TypeOK ==
    /\ stage \in [Docs -> Stages]
    /\ seen \in [Docs -> {0, Whole}]

Init ==
    /\ stage = [d \in Docs |-> "none"]
    /\ seen = [d \in Docs |-> 0]

\* A new document is accepted, or uploads are lost and leave nothing.
Accept(d) ==
    /\ stage[d] = "none"
    /\ stage' = [stage EXCEPT ![d] = "queued"]
    /\ UNCHANGED seen

Lose(S) ==
    /\ \A d \in S : stage[d] = "none"
    /\ stage' = [d \in Docs |-> IF d \in S THEN "gone" ELSE stage[d]]
    /\ UNCHANGED seen

\* One run takes the document. Only a queued document can be taken.
Take(d) ==
    /\ stage[d] = "queued"
    /\ stage' = [stage EXCEPT ![d] = "working"]
    /\ UNCHANGED seen

\* The document becomes searchable, all at once.
Finish(d) ==
    /\ stage[d] = "working"
    /\ stage' = [stage EXCEPT ![d] = "ready"]
    /\ seen' = [seen EXCEPT ![d] = Whole]

\* Documents that are not ready can be given up, several in one step.
Fail(S) ==
    /\ S \subseteq {d \in Docs : stage[d] \in {"queued", "working"}}
    /\ stage' = [d \in Docs |-> IF d \in S THEN "failed" ELSE stage[d]]
    /\ UNCHANGED seen

\* The user asks for a failed document to be processed again.
Requeue(d) ==
    /\ stage[d] = "failed"
    /\ stage' = [stage EXCEPT ![d] = "queued"]
    /\ UNCHANGED seen

Remove(d) ==
    /\ stage[d] \notin {"none", "gone"}
    /\ stage' = [stage EXCEPT ![d] = "gone"]
    /\ seen' = [seen EXCEPT ![d] = 0]

Next ==
    \/ \E d \in Docs :
          Accept(d) \/ Take(d) \/ Finish(d) \/ Requeue(d) \/ Remove(d)
    \/ \E S \in SUBSET Docs : Lose(S) \/ Fail(S)

Spec == Init /\ [][Next]_vars
=============================================================================
