-------------------------------- MODULE MCOS --------------------------------
EXTENDS OS
=============================================================================
