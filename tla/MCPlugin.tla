------------------------------ MODULE MCPlugin ------------------------------
EXTENDS PluginProps, MCBroker
=============================================================================
