------------------------------ MODULE MCLedger ------------------------------
(***************************************************************************)
(* Three threads in two processes, three events.  The hash is a            *)
(* base-4 number over the chain: collision-free for the lines three events *)
(* can produce, and 0 stands for "no previous hash".                       *)
(***************************************************************************)
EXTENDS Ledger

CONSTANTS p1, p2

MCProcess == {p1, p2}
MCThread == {"t1", "t2", "t3"}
MCProcOf == [t \in MCThread |-> IF t = "t3" THEN p2 ELSE p1]
MCEvent == 1..3
MCHashValue == 1..255
MCHash(p, e) == (4 * p + e) % 256
=============================================================================
