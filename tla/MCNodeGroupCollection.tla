------------------------ MODULE MCNodeGroupCollection -------------------------
(* The fault modes in which NodeGroupCollection is checked.                  *)
EXTENDS NodeGroupCollection

Anywhere == [steps |-> {"append", "index"}, onlyOnEmptyTable |-> FALSE]
WhileEmpty == [steps |-> {"index"}, onlyOnEmptyTable |-> TRUE]
AllModes == {Anywhere, WhileEmpty}
LaterSteps == {[Anywhere EXCEPT !.steps = {"index"}]}
===============================================================================
