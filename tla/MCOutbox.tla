-------------------------------- MODULE MCOutbox -------------------------------
EXTENDS Outbox
================================================================================
