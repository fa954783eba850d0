--------------------------- MODULE MCPageManager ---------------------------
(***************************************************************************)
(* Instances of PageManager for TLC.                                       *)
(***************************************************************************)
EXTENDS PageManager, TLC

\* Tables are interchangeable.
Symmetry == Permutations(Tables)

\* One table through three checkpoints, or two that take pages from each other.
TwoBounds == {[tables |-> 1, writes |-> 3, checkpoints |-> 3],
              [tables |-> 2, writes |-> 2, checkpoints |-> 2]}
=============================================================================
