--------------------------- MODULE MCLanSessions ---------------------------
EXTENDS LanSessions
=============================================================================
