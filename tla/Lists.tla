-------------------------------- MODULE Lists --------------------------------
(* What the code's loops over lists keep of them. *)
EXTENDS Integers, FiniteSets, Sequences

(* The elements of a sequence at some of its positions, in their order. *)
Elements(seq, positions) ==
    LET nth(k) == CHOOSE i \in positions : Cardinality({j \in positions : j <= i}) = k
    IN  [k \in 1..Cardinality(positions) |-> seq[nth(k)]]
===============================================================================
