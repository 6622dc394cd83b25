------------------------------ MODULE MCPanes ------------------------------
EXTENDS Panes
=============================================================================
