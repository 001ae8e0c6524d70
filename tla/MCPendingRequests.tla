------------------------- MODULE MCPendingRequests -------------------------
(* PendingRequests with one or two response names.  In the passing runs    *)
(* the stale memory holds one key, and in pending.cfg the message counter  *)
(* wraps after two messages: three requests meet both limits.              *)
EXTENDS PendingRequests
=============================================================================
