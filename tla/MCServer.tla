------------------------------ MODULE MCServer ------------------------------
EXTENDS Server, TLC

CONSTANTS c1, c2, c3, c4

MCCtx == {c1, c2, c3, c4}
=============================================================================
