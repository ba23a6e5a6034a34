------------------------------ MODULE Requests ------------------------------
(***************************************************************************)
(* How the gateway prepares a chat request: which context it keeps         *)
(* (python/urp/context.py) and which model it asks (python/urp/ai_router.py*)
(* and two helpers of ai_gateway.py).  Pure operators.                     *)
(*                                                                         *)
(* A message is [role, words, tokens]: what it says up to white space, and *)
(* the tokens that approximate_tokens counts with the white space.         *)
(***************************************************************************)
EXTENDS Loops, SequencesExt

ContextRole == {"system", "developer", "tool"}

Fingerprint(message) == <<message.role, message.words>>

(* Mutant of Fits: a chunk that ends over the limit is kept.               *)
FitsAlmost(tokens, message, max) == tokens < max

Fits(tokens, message, max) == tokens + message.tokens <= max

Repeats(messages, kept, i) == \E j \in kept : Fingerprint(messages[j]) = Fingerprint(messages[i])

(* Where compile_context stands after each position, if it is one of a     *)
(* context role: the positions that are kept, with their tokens.  What     *)
(* repeats one that is kept, or does not fit beside them, is left out;     *)
(* what follows may fit again.                                             *)
Compiled(messages, max) ==
  LET compiled[i \in 0..Len(messages)] ==
        IF i = 0 THEN [kept |-> {}, tokens |-> 0]
        ELSE LET before == compiled[i - 1]
             IN  IF messages[i].role \notin ContextRole \/ Repeats(messages, before.kept, i)
                      \/ ~Fits(before.tokens, messages[i], max)
                   THEN before
                   ELSE [kept |-> before.kept \cup {i},
                         tokens |-> before.tokens + messages[i].tokens]
  IN  compiled

CompileContext(messages, max) == Compiled(messages, max)[Len(messages)]

(* What is sent of the messages up to each position, by position.          *)
Sent(messages, kept) ==
  Picked(Len(messages),
         {i \in DOMAIN messages : messages[i].role \notin ContextRole \/ i \in kept})

(* compile_openai_messages.                                                *)
CompileMessages(messages, max) ==
  Sent(messages, CompileContext(messages, max).kept)[Len(messages)]
-----------------------------------------------------------------------------
Named(model, models, otherwise) == IF model \in ToSet(models) THEN model ELSE otherwise

(* Mutant of RouteModel: an easy task is recognised before a risky one.    *)
RouteEasyFirst(risky, easy, models) ==
  CASE easy -> Named("small", models, Head(models))
    [] risky /\ ~easy -> Named("frontier", models, Last(models))
    [] OTHER -> Named("medium", models, Last(models))

(* route_model of a text with a high-risk phrase or a word of an easy      *)
(* task; the list of models of a policy is never empty.                    *)
RouteModel(risky, easy, models) ==
  CASE risky -> Named("frontier", models, Last(models))
    [] easy /\ ~risky -> Named("small", models, Head(models))
    [] OTHER -> Named("medium", models, Last(models))

(* _fallback_model; every route names frontier as its fallback.            *)
FallbackModel(models) == Named("frontier", models, Last(models))

(* _baseline_model: a model that the request names is not looked up.       *)
BaselineModel(requested, models) ==
  IF requested # "auto" THEN requested ELSE FallbackModel(models)
=============================================================================
