---------------------------- MODULE MCRunCommand ----------------------------
EXTENDS RunCommand
=============================================================================
