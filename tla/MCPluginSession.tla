--------------------------- MODULE MCPluginSession ---------------------------
EXTENDS PluginSession
==============================================================================
