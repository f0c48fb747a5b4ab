--------------------------- MODULE MCLocalSubagents --------------------------
EXTENDS LocalSubagents, TLC

CONSTANTS host, boxed
=============================================================================
