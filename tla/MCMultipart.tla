----------------------------- MODULE MCMultipart -----------------------------
(* Two clients make four calls on an upload of two parts.                *)
EXTENDS Multipart

CONSTANTS c1, c2

MCClient == {c1, c2}
MCPartNo == {1, 2}
=============================================================================
