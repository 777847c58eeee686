--------------------------- MODULE MCDesktopBridge ---------------------------
EXTENDS DesktopBridge, TLC
=============================================================================
