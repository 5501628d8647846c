--------------------------- MODULE MCSynchronizer ---------------------------
EXTENDS Synchronizer
=============================================================================
