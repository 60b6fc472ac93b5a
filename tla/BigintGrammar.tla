--------------------------- MODULE BigintGrammar ---------------------------
(***************************************************************************)
(* The predictive grammar that masks the decoder of bigint bodies          *)
(* (decoder/bigint_grammar.py) and the sampler row that draws from it      *)
(* (decoder/sampler.py).  Reader replays a prefix by recursive descent and *)
(* stops at the missing token; here the calls it would still make are the  *)
(* stack `todo`, so that Support is the set it raises and After the reader *)
(* one token later.  The sampler may draw any supported token among its    *)
(* words, a subset of the vocabulary that stands for what its logits       *)
(* favour: a bound on the programs written, never on the support.          *)
(***************************************************************************)
EXTENDS Integers, Sequences, FiniteSets, SequencesExt, SequenceFold

CONSTANTS
  Kind,        \* name of a local |-> its type, for every name of the vocabulary
  Params,      \* the parameter tokens, in order
  MaxDepth,    \* open parentheses (32)
  MaxTokens,   \* tokens of a body, with its <eos> (1024)
  IntMax,      \* largest absolute value of an int literal (2^4096 - 1)
  ControlMax,  \* largest control literal (65536)
  Samplers     \* what a sampler may favour, and its max_length: [words, limit]

Types == {"bigint", "control", "bool"}
Names == DOMAIN Kind
DigitValue == [d \in {"0", "1", "2", "3", "4", "5", "6", "7", "8", "9"} |->
                 CHOOSE n \in 0 .. 9 : ToString(n) = d]
Digits == DOMAIN DigitValue

ASSUME GrammarAssumption ==
  /\ Kind \in [Names -> Types]
  /\ MaxDepth \in Nat \ {0} /\ MaxTokens \in Nat \ {0}
  /\ IntMax \in Nat /\ ControlMax \in Nat

VARIABLES
  sampler,   \* the tokens this one draws from, and its limit
  tokens,    \* BodyState.tokens
  reader,    \* what Reader has seen of them: todo, locals, params, counters, depth
  outcome    \* "open", "complete", "grammar_dead_end", "token_cap_without_eos"

vars == <<sampler, tokens, reader, outcome>>

---------------------------------------------------------------------------
(* What Reader still has to read, one record per pending call.             *)

Open         == [k |-> "open", enter |-> {}]
Counting(x)  == [k |-> "open", enter |-> {x}]   \* the loop counts x from here on
Close        == [k |-> "close"]
Word(w)      == [k |-> "word", of |-> w]
Expr(t)      == [k |-> "expr", type |-> t]
Operator(t)  == [k |-> "operator", type |-> t]
Parameter    == [k |-> "parameter"]
Readable(t)  == [k |-> "readable", type |-> t]
Literal(c)   == [k |-> "literal", control |-> c, begun |-> FALSE, text |-> <<>>]
Written(i, d) == [i EXCEPT !.text = IF i.begun THEN Append(@, d) ELSE @, !.begun = TRUE]
Statement    == [k |-> "statement"]
Body(x)      == [k |-> "body", leave |-> x]     \* up to its ")", which drops the counters x
Assigned     == [k |-> "assigned"]
Counter      == [k |-> "counter"]
Declared     == [k |-> "declared"]
Typed(x)     == [k |-> "typed", name |-> x]
Top(d)       == [k |-> "top", declarations |-> d]

Start == [todo |-> <<Open, Word("program"), Open, Top(TRUE)>>,
          locals |-> {}, params |-> {}, counters |-> {}, depth |-> 0]

---------------------------------------------------------------------------
(* Reader.number: only canonical decimals within the bound can be written. *)

Value(digits) == Fold(LAMBDA n, d : 10 * n + DigitValue[d], 0, digits)
Unsigned(text) == IF text # <<>> /\ Head(text) = "-" THEN Tail(text) ELSE text
Canonical(text, bound) ==
  LET digits == Unsigned(text) IN
  /\ digits # <<>> /\ Range(digits) \subseteq Digits
  /\ Head(digits) = "0" => text = <<"0">>
  /\ Value(digits) <= bound

When(condition, set) == {x \in set : condition}
Bound(control) == IF control THEN ControlMax ELSE IntMax
LiteralSupport(item) ==
  IF ~item.begun THEN {"<int>"}
  ELSE {d \in Digits : Canonical(Append(item.text, d), Bound(item.control))}
         \cup When(Unsigned(item.text) # <<>>, {"</int>"})
         \cup When(item.text = <<>> /\ ~item.control, {"-"})

---------------------------------------------------------------------------
Nested(r)     == When(r.depth < MaxDepth, {"("})
Known(r, t)   == {x \in r.locals : Kind[x] = t}
Assignable_counters(r) == r.locals                       \* mutant
Assignable(r) == r.locals \ r.counters
Countable(r)  == Known(r, "control") \ r.counters

Operators(t) == {"select"} \cup
  CASE t = "bigint"  -> {"int", "param.get", "add", "sub", "mul", "to_bigint"}
    [] t = "control" -> {"control", "to_control", "increment"}
    [] t = "bool"    -> {"true", "false", "eq", "lt", "le", "control.lt"}

StatementOps_blind(r) ==                                 \* mutant
  {"if"} \cup When(r.locals # {}, {"set"}) \cup When(Countable(r) # {}, {"loop"})
StatementOps(r) ==
  {"if"} \cup When(Assignable(r) # {}, {"set"}) \cup When(Countable(r) # {}, {"loop"})

\* Parameters appear in the order of their numbers.
NextParams(r) == {Params[i] : i \in {j \in DOMAIN Params : j <= Cardinality(r.params) + 1}}

\* The set Need carries when the prefix ends before `item`.
Support(r) ==
  LET item == Head(r.todo) IN
  CASE item.k = "open"      -> Nested(r)
    [] item.k = "close"     -> {")"}
    [] item.k = "word"      -> {item.of}
    [] item.k = "expr"      -> Nested(r) \cup When(item.type = "bigint", {"$index"})
    [] item.k = "operator"  -> Operators(item.type)
                                 \cup When(Known(r, item.type) # {}, {"get"})
    [] item.k = "parameter" -> NextParams(r)
    [] item.k = "readable"  -> Known(r, item.type)
    [] item.k = "literal"   -> LiteralSupport(item)
    [] item.k = "statement" -> StatementOps(r)
    [] item.k = "body"      -> Nested(r) \cup {")"}
    [] item.k = "assigned"  -> Assignable(r)
    [] item.k = "counter"   -> Countable(r)
    [] item.k = "declared"  -> Names \ r.locals
    [] item.k = "typed"     -> {Kind[item.name]}
    [] item.k = "top"       -> StatementOps(r) \cup {"return"}
                                 \cup When(item.declarations /\ Names # r.locals, {"local"})

---------------------------------------------------------------------------
(* What the reader calls once it has taken token t.                        *)

Arguments(op, t) ==
  CASE op \in {"int", "control"} -> <<Literal(op = "control")>>
    [] op = "param.get"          -> <<Parameter>>
    [] op = "get"                -> <<Readable(t)>>
    [] op \in {"add", "sub", "mul", "eq", "lt", "le"} -> <<Expr("bigint"), Expr("bigint")>>
    [] op = "control.lt"         -> <<Expr("control"), Expr("control")>>
    [] op \in {"to_bigint", "increment"} -> <<Expr("control")>>
    [] op = "to_control"         -> <<Expr("bigint")>>
    [] op = "select"             -> <<Expr("bool"), Expr(t), Expr(t)>>
    [] op \in {"true", "false"}  -> <<>>

Block(label) == <<Open, Word(label), Body({})>>

StatementOf(op) ==
  CASE op = "set"  -> <<Assigned, Close>>
    [] op = "if"   -> <<Expr("bool")>> \o Block("then") \o Block("else") \o <<Close>>
    [] op = "loop" -> <<Counter>>

TopOf(op) ==
  CASE op = "local"  -> <<Declared, Close, Open, Top(TRUE)>>
    [] op = "return" -> <<Expr("bigint"), Close, Close, Word("<eos>")>>
    [] OTHER         -> StatementOf(op) \o <<Open, Top(FALSE)>>

Calls(item, t) ==
  CASE item.k = "expr"      -> IF t = "(" THEN <<Operator(item.type)>> ELSE <<>>
    [] item.k = "operator"  -> Arguments(t, item.type) \o <<Close>>
    [] item.k = "literal"   -> IF t = "</int>" THEN <<>> ELSE <<Written(item, t)>>
    [] item.k = "statement" -> StatementOf(t)
    [] item.k = "body"      -> IF t = "(" THEN <<Statement, item>> ELSE <<>>
    [] item.k = "assigned"  -> <<Expr(Kind[t])>>
    [] item.k = "counter"   -> <<Expr("control"), Counting(t), Statement, Body({t})>>
    [] item.k = "declared"  -> <<Typed(t)>>
    [] item.k = "top"       -> TopOf(t)
    [] OTHER                -> <<>>      \* open, close, word, parameter, readable, typed

After(r, t) ==
  LET item == Head(r.todo) IN
  [todo     |-> Calls(item, t) \o Tail(r.todo),
   locals   |-> r.locals \cup (IF item.k = "typed" THEN {item.name} ELSE {}),
   params   |-> r.params \cup When(item.k = "parameter", {t}),
   counters |-> (r.counters \cup (IF item.k = "open" THEN item.enter ELSE {}))
                  \ (IF item.k = "body" /\ t = ")" THEN item.leave ELSE {}),
   depth    |-> r.depth + (IF t = "(" THEN 1 ELSE IF t = ")" THEN -1 ELSE 0)]

---------------------------------------------------------------------------
(* One row of sample_trajectories over a BodyState.                        *)

Allowed == IF Len(tokens) >= MaxTokens THEN {} ELSE Support(reader)

Init ==
  /\ sampler \in Samplers
  /\ tokens = <<>> /\ reader = Start /\ outcome = "open"

Emit(t) ==
  /\ outcome = "open" /\ t \in Allowed \cap sampler.words
  /\ Len(tokens) < sampler.limit
  /\ tokens' = Append(tokens, t)
  /\ reader' = After(reader, t)
  /\ outcome' = IF t = "<eos>" THEN "complete" ELSE "open"
  /\ UNCHANGED sampler

\* The loop over the positions ends without <eos>.
TokenCap ==
  /\ outcome = "open" /\ Len(tokens) = sampler.limit
  /\ outcome' = "token_cap_without_eos"
  /\ UNCHANGED <<sampler, tokens, reader>>

GrammarDeadEnd ==
  /\ outcome = "open" /\ Len(tokens) < sampler.limit /\ Allowed = {}
  /\ outcome' = "grammar_dead_end"
  /\ UNCHANGED <<sampler, tokens, reader>>

Next == (\E t \in sampler.words : Emit(t)) \/ TokenCap \/ GrammarDeadEnd
Spec == Init /\ [][Next]_vars
=============================================================================
