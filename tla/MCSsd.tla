-------------------------------- MODULE MCSsd --------------------------------
EXTENDS Ssd
=============================================================================
