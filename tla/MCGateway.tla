----------------------------- MODULE MCGateway -----------------------------
(***************************************************************************)
(* Two work units and a client over two instants.  "ask" and "rephrased"   *)
(* are similar texts; policy "strict" demands citations.                   *)
(***************************************************************************)
EXTENDS Gateway, TLC

CONSTANTS u1, u2

MCUnit == {u1, u2}

Chat(text, ttl, sources, reuse) ==
  [kind |-> "chat", namespace |-> "n", text |-> text, sources |-> sources, ttl |-> ttl,
   semantic |-> reuse, threshold |-> 1, approved |-> TRUE]

MCAsk == Chat("ask", 1, {"doc"}, TRUE)
MCRephrased == Chat("rephrased", 2, {"doc"}, TRUE)
MCEmbed == [Chat("ask", 1, {}, FALSE) EXCEPT !.kind = "embedding", !.approved = FALSE]
MCQuery == {MCAsk, MCRephrased, MCEmbed}
MCSubmitted == {<<MCAsk, "enforce">>, <<MCRephrased, "enforce">>, <<MCEmbed, "enforce">>,
                <<MCRephrased, "observe">>}
MCClientValue ==
  {[query |-> MCAsk, answer |-> "blank", sources |-> {"doc"}, ttl |-> 1],
   [query |-> MCAsk, answer |-> "plain", sources |-> {}, ttl |-> 2],
   [query |-> MCEmbed, answer |-> "blank", sources |-> {}, ttl |-> 1]}

MCAnswer == {"plain", "cited", "blank", "vector"}
MCCanAnswer(q) ==
  CASE q = MCAsk -> {"plain", "cited", "blank"} [] q = MCRephrased -> {"plain"} [] OTHER -> {"vector"}
MCScore(s, t) == IF s = t THEN 2 ELSE 1
MCAllows == [p \in {"open", "strict"} |-> Optional]
MCDemands == [p \in {"open", "strict"} |-> IF p = "strict" THEN {"answer_citation_check"} ELSE {}]
MCSymmetry == Permutations(MCUnit)
=============================================================================
