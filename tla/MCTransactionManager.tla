------------------------- MODULE MCTransactionManager -------------------------
(* The transaction manager on small sets of connections.                     *)
EXTENDS TransactionManager, TLC

CONSTANTS c1, c2

TwoClients == {c1, c2}
Symmetry == Permutations(Clients)
===============================================================================
