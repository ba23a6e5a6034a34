------------------------------- MODULE Impact -------------------------------
(***************************************************************************)
(* The estimate of what the system saves (python/urp/impact.py) for a      *)
(* scenario that an operator describes.  Pure operators.                   *)
(*                                                                         *)
(* Rates are in quarters, so that products of three of them are whole      *)
(* numbers of sixty-fourths; prices are per token.  How results are        *)
(* rounded for display is left out.                                        *)
(***************************************************************************)
EXTENDS Integers

CONSTANTS None, Refused

Quarters == 4
Scale == Quarters * Quarters * Quarters

(* ImpactScenario.validate.                                                *)
ValidScenario(s) ==
  /\ \A amount \in {s.storage, s.storagePrice, s.transfer, s.transferPrice, s.input, s.output,
                    s.inputPrice, s.outputPrice, s.operating, s.implementation, s.requests} :
       amount >= 0
  /\ \A rate \in {s.storageRate, s.transferRate, s.hitRate, s.coverage, s.contextRate} :
       0 <= rate /\ rate <= Quarters
  /\ s.horizon > 0
  /\ \A measured \in {s.energy, s.carbon} : measured = None \/ measured >= 0
  /\ s.carbon # None => s.energy # None

(* Requests the exact cache answers, in quarters.                          *)
CallsAvoided(s) == s.requests * s.hitRate

(* Mutant of Uncached: the context of every request is compiled.           *)
EveryRequest(s) == s.requests * Quarters

Uncached(s) == s.requests * Quarters - CallsAvoided(s)

(* Tokens that are not sent because the call is not made ...               *)
CachedTokens(s, tokens) == CallsAvoided(s) * tokens * Quarters * Quarters

(* ... and those the context compiler takes out of the calls that are.     *)
ContextTokens(s) == Uncached(s) * s.coverage * s.input * s.contextRate

Saved(amount, rate, price) == amount * rate * price * Quarters * Quarters

(* model_impact: amounts in sixty-fourths, payback and return as fractions.*)
ModelImpact(s) ==
  LET input == CachedTokens(s, s.input) + ContextTokens(s)
      output == CachedTokens(s, s.output)
      baseline == Scale * (s.storage * s.storagePrice + s.transfer * s.transferPrice
                             + s.requests * (s.input * s.inputPrice + s.output * s.outputPrice))
      gross == Saved(s.storage, s.storageRate, s.storagePrice)
                 + Saved(s.transfer, s.transferRate, s.transferPrice)
                 + input * s.inputPrice + output * s.outputPrice
      net == gross - Scale * s.operating
      invested == Scale * s.implementation
      value == net * s.horizon - invested
  IN  IF ~ValidScenario(s)
        THEN Refused
        ELSE [input |-> input, output |-> output, baseline |-> baseline, gross |-> gross,
              net |-> net, value |-> value,
              payback |-> IF net > 0 THEN [of |-> invested, by |-> net] ELSE None,
              return |-> IF invested > 0 THEN [of |-> value, by |-> invested] ELSE None,
              energy |-> IF s.energy = None THEN None ELSE CallsAvoided(s) * s.energy,
              carbon |-> IF s.carbon = None THEN None
                           ELSE CallsAvoided(s) * s.energy * s.carbon]
=============================================================================
