---------------------------- MODULE MCMcpSession -----------------------------
(* One invocation of rzp-mcp over the debts and calls of MCMcpServer. *)
EXTENDS MCMcpServer, McpSession
=============================================================================
