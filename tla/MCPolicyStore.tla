---------------------------- MODULE MCPolicyStore ----------------------------
(* Two clients, two names with two versions each.                          *)
EXTENDS PolicyStore

CONSTANTS c1, c2

MCClient == {c1, c2}
MCName == {"default-safe", "strict"}
MCVersion == {"v1", "v2"}
=============================================================================
