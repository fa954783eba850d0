--------------------------- MODULE MCCSRNodeGroup ---------------------------
EXTENDS CSRNodeGroup

\* Both nodes of the third leaf region of two nodes and one of the last.
MCBoundNodes == {4, 5, 6}
=============================================================================
