---------------------- MODULE MCMetashrewClients ----------------------------
EXTENDS MetashrewClients
=============================================================================
