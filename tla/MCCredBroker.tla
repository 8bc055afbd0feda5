---------------------------- MODULE MCCredBroker ----------------------------
EXTENDS CredBroker
=============================================================================
