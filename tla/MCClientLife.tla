---------------------------- MODULE MCClientLife ----------------------------
EXTENDS ClientLife
=============================================================================
