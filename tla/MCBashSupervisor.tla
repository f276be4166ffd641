-------------------------- MODULE MCBashSupervisor --------------------------
EXTENDS BashSupervisor
=============================================================================
