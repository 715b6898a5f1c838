-------------------------- MODULE MCFreertosQueue --------------------------
\* The queue for TLC, with the discipline of the program and without.
EXTENDS QueueDiscipline, TLC

AllUses == [t \in Threads |-> Calls]

Symmetry == Permutations(Threads) \cup Permutations(Items)
=============================================================================
