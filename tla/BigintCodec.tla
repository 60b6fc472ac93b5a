---------------------------- MODULE BigintCodec ----------------------------
(***************************************************************************)
(* Source text of a body and its tokens (decoder/bigint_codec.py).  A      *)
(* source is the sequence of its words: a literal is the sequence of its   *)
(* characters, any other word is one keyword.                              *)
(***************************************************************************)
EXTENDS BigintGrammar

Keywords == {"(", ")", "-", "program", "return", "local", "set", "if", "then", "else", "loop",
             "true", "false", "$index"}
              \cup Types \cup Operators("bigint") \cup Operators("control") \cup Operators("bool")
              \cup {"get"} \cup Names \cup Range(Params) \cup Digits
Error == <<"CodecError">>

DecodeToken(d, t) ==
  CASE t = "<int>"  -> [d EXCEPT !.digits = <<>>]
    [] t = "</int>" -> [d EXCEPT !.words = Append(@, d.digits)]
    [] t \in Digits \cup {"-"} -> [d EXCEPT !.digits = Append(@, t)]
    [] OTHER        -> [d EXCEPT !.words = Append(@, <<t>>)]
Decode(ids) == Fold(DecodeToken, [words |-> <<>>, digits |-> <<>>], Front(ids)).words

\* encode_body numbers the parameters by first occurrence.
Renamed(e, w) ==
  IF w[1] \notin Range(Params) THEN e
  ELSE [e EXCEPT !.seen = IF w[1] \in Range(@) THEN @ ELSE Append(@, w[1])]
Spelled(e, w) ==
  IF w[1] \notin Range(Params) THEN w
  ELSE <<Params[CHOOSE i \in DOMAIN e.seen : e.seen[i] = w[1]]>>
IsInteger(w) ==
  LET digits == Unsigned(w) IN
  /\ digits # <<>> /\ Range(digits) \subseteq Digits
  /\ Head(digits) = "0" => w = <<"0">>
EncodeWord(e, w) ==
  LET seen == Renamed(e, w)
      text == Spelled(seen, w)
      ids  == IF IsInteger(text) THEN <<"<int>">> \o text \o <<"</int>">>
              ELSE IF Len(text) = 1 /\ text[1] \in Keywords THEN text ELSE Error
  IN IF e.ids = Error \/ ids = Error \/ Len(e.ids) + Len(ids) >= MaxTokens
     THEN [seen EXCEPT !.ids = Error]
     ELSE [seen EXCEPT !.ids = @ \o ids]

\* One parse of complete targets: every token is supported and <eos> is the last one.
Validates(ids) ==
  LET Take(r, t) == IF r.todo # <<>> /\ t \in Support(r) THEN After(r, t)
                    ELSE [r EXCEPT !.todo = <<>>, !.depth = MaxDepth + 1]
      end == Fold(Take, Start, ids)
  IN Len(ids) <= MaxTokens /\ end.todo = <<>> /\ end.depth = 0

Encode(words) ==
  LET ids == Fold(EncodeWord, [ids |-> <<>>, seen |-> <<>>], words).ids
  IN IF ids # Error /\ Validates(Append(ids, "<eos>")) THEN Append(ids, "<eos>") ELSE Error
=============================================================================
