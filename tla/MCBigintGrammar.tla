-------------------------- MODULE MCBigintGrammar ---------------------------
(* The grammar, the codec and the reference parser over one vocabulary.    *)
EXTENDS BigintCodec

MCKind   == "$b0" :> "bigint" @@ "$c0" :> "control" @@ "$c1" :> "control"
MCParams == <<"p0", "p1">>

Common == {"(", ")", "program", "return", "$index", "<eos>"}
Sampler(words, limit) == [words |-> Common \cup words, limit |-> limit]
MCSamplers ==
  {Sampler({"if", "then", "else", "lt", "select", "true"}, 26),
   Sampler({"local", "$c0", "$c1", "control", "loop", "set", "get"}, 35),
   Sampler({"local", "$c0", "control", "loop", "if", "then", "else", "true", "get"}, 34),
   Sampler({"local", "$b0", "bigint", "set", "if", "then", "else", "le"}, 27),
   Sampler({"add", "param.get", "p0", "p1", "int", "<int>", "</int>", "-", "0", "1"}, 24),
   Sampler({"to_bigint", "increment", "control", "<int>", "</int>", "0", "1"}, 26)}

Reference == INSTANCE ReferenceParser WITH
  Locals <- Kind, Parameters <- Range(Params), Nesting <- MaxDepth,
  LiteralMax <- IntMax, ControlCap <- ControlMax

Words == {t \in sampler.words : t \notin {"<eos>", "<int>", "</int>"}}
Phrases ==
  {<<<<w>>>> : w \in Words} \cup {<<>>}
    \cup {<<<<"0">>>>, <<<<"-", "1">>>>, <<<<"0", "1">>>>, <<<<"1", "1">>>>, <<<<"-">>>>}
    \cup {[i \in DOMAIN p |-> <<p[i]>>] : p \in
           {<<"(", "add", "$index", "$index", ")">>, <<"(", "local", "$c1", "control", ")">>,
            <<"(", "if", "(", "true", ")", "(", "then", ")", "(", "else", ")", ")">>}}

\* The sources that differ from s by a phrase put before a word or in its place.
Near(s) == {SubSeq(s, 1, i) \o p \o SubSeq(s, j, Len(s)) :
              <<i, j>> \in {x \in (0 .. Len(s)) \X (1 .. Len(s) + 1) : x[2] - x[1] \in {1, 2}},
              p \in Phrases}
Fits(s) ==
  Fold(LAMBDA n, w : n + Len(w) + (IF IsInteger(w) THEN 2 ELSE 0), 0, s) < MaxTokens

(* What the sampler completes decodes to a source that encodes to the same *)
(* tokens.  On that source and on every one near it, encode_body under the *)
(* predictive grammar and the independent reference parser agree: they are *)
(* two programs for one language, with the same nesting limit, scopes,     *)
(* types, immutable counters and literal bounds, and they differ only by   *)
(* the token cap.                                                          *)
Agreement ==
  outcome = "complete" =>
    /\ Encode(Decode(tokens)) = tokens
    /\ \A s \in Near(Decode(tokens)) : Encode(s) # Error <=> Fits(s) /\ Reference!Parses(s)

(* The mask is empty only when the nesting limit forbids the parenthesis   *)
(* an expression needs: nothing else the grammar offers leads nowhere.     *)
DeadEndsAtTheLimit ==
  outcome = "grammar_dead_end" => reader.depth = MaxDepth /\ Head(reader.todo).k = "expr"
=============================================================================
