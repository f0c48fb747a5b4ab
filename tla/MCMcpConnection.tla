--------------------------- MODULE MCMcpConnection ---------------------------
EXTENDS McpConnection, TLC
=============================================================================
