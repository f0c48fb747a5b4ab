------------------------------ MODULE MCHarness ------------------------------
EXTENDS Harness, TLC
=============================================================================
