------------------------------- MODULE MCP2P -------------------------------
(* An instance of P2P for TLC.                                              *)
EXTENDS P2P
=============================================================================
