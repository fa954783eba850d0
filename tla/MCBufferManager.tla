------------------------- MODULE MCBufferManager -------------------------
EXTENDS BufferManager, TLC

TwoOfEach == [page |-> 2, group |-> 2]

Symmetry == Permutations(Threads) \union Permutations(Pages) \union Permutations(Groups)

=============================================================================
