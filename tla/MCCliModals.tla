---------------------------- MODULE MCCliModals ----------------------------
EXTENDS CliModals
=============================================================================
