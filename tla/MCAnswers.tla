------------------------------- MODULE MCAnswers -------------------------------
(* Answers with two requests, one of which searches the web.                   *)
EXTENDS Answers

\* Three chunks, the second without text once its tags are removed.
Stored == <<[id |-> 1, size |-> 2], [id |-> 2, size |-> 0], [id |-> 3, size |-> 3]>>

AllChunks == Range(Stored)

SomeHits == {<<>>, <<Stored[1]>>, <<Stored[3], Stored[1]>>, Stored}

SomeResults == {<<>>, <<"outside">>, <<"outside", "inside">>}
=============================================================================
