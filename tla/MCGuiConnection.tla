-------------------------- MODULE MCGuiConnection --------------------------
EXTENDS GuiConnection
=============================================================================
