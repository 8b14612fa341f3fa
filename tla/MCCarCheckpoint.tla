-------------------------- MODULE MCCarCheckpoint --------------------------
EXTENDS CarCheckpoint
=============================================================================
