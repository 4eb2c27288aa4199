---------------------------- MODULE MCServerSend ----------------------------
EXTENDS ServerSend, TLC

CONSTANTS c1, c2, c3, c4

MCCtx == {c1, c2, c3, c4}
MCCtxFew == {c1, c2, c3}
=============================================================================
