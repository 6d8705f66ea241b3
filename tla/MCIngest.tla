------------------------------- MODULE MCIngest ------------------------------
EXTENDS Ingest
==============================================================================
