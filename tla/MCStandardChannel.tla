------------------------- MODULE MCStandardChannel -------------------------
EXTENDS StandardChannel
AllStandards == Standard
=============================================================================
