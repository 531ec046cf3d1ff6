--------------------------- MODULE MCAudioBridge ---------------------------
EXTENDS AudioBridge
=============================================================================
