-------------------------------- MODULE Ordered --------------------------------
(* Sets of numbers as sequences.                                               *)
EXTENDS Integers, Sequences, FiniteSets, SequencesExt

\* The numbers of a set, in order.
InOrder(numbers) ==
    [k \in 1..Cardinality(numbers) |->
        CHOOSE i \in numbers : Cardinality({j \in numbers : j < i}) = k - 1]

=============================================================================
