-------------------------- MODULE MCAnswerCascade --------------------------
(* Two tiers over a row with two keys and a row with one; another row has   *)
(* no key.                                                                  *)
EXTENDS AnswerCascade, TLC

MCTiers == {"fast", "quality"}
MCCascade == <<"fast", "quality">>
MCProviders == {"groq", "gemini", "ollama"}
MCNKeys == ("groq" :> 2) @@ ("gemini" :> 1) @@ ("ollama" :> 0)
MCOrder == ("fast" :> <<"groq">>) @@ ("quality" :> <<"ollama", "gemini", "groq">>)
=============================================================================
