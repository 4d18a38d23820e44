---------------------------- MODULE MCMcpClient ----------------------------
(* Instances of McpClient for TLC: a server that is a process and, in Mcp,   *)
(* one over HTTP.                                                            *)
EXTENDS McpClient

CONSTANTS files, web, w1, w2, w3, k1, k2, none
=============================================================================
