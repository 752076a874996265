-------------------------- MODULE MCControlProgress --------------------------
EXTENDS ControlProgress, MCControlRounds
==============================================================================
