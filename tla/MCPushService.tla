--------------------------- MODULE MCPushService ----------------------------
EXTENDS PushService
=============================================================================
