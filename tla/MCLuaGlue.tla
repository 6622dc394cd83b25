------------------------------ MODULE MCLuaGlue ------------------------------
EXTENDS LuaGlue
=============================================================================
