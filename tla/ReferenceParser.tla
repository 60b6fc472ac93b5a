-------------------------- MODULE ReferenceParser --------------------------
(***************************************************************************)
(* The independent source reader of the arithmetic oracle                  *)
(* (synthesis/reference_parser.py): which sequences of words are programs. *)
(* A word is a sequence of characters, or one keyword; spacing, the bound  *)
(* on source bytes and the bound on nodes are left out, since a body of    *)
(* 1024 tokens reaches neither.                                            *)
(***************************************************************************)
EXTENDS Integers, Sequences, FiniteSets, SequencesExt, SequenceFold

CONSTANTS
  Locals,      \* declarable local |-> its type: the prefix and number caps of `parse`
  Parameters,  \* words a param.get may name
  Nesting,     \* ResourceProfile.nesting
  LiteralMax,  \* largest absolute value of literal_bits
  ControlCap   \* ResourceProfile.control_max

DigitOrd == [d \in {"0", "1", "2", "3", "4", "5", "6", "7", "8", "9"} |->
               CHOOSE n \in 0 .. 9 : ToString(n) = d]

---------------------------------------------------------------------------
(* read(): a word at depth d lies inside d open lists.  A fold keeps those *)
(* lists; `open` is innermost last, its first element the finished tree.   *)

Atom(w)  == [word |-> w, kids |-> <<>>]
List(ns) == [word |-> <<>>, kids |-> ns]
IsAtom(n) == n.kids = <<>>

Depth(st) == Len(st.open) - 1
Add(st, n) == [st EXCEPT !.open[Len(st.open)] = Append(@, n)]

ReadWord(st, w) ==
  IF w = <<")">>
  THEN IF Depth(st) = 0 \/ Last(st.open) = <<>>          \* unexpected close, empty list
       THEN [st EXCEPT !.ok = FALSE]
       ELSE Add([st EXCEPT !.open = Front(@)], List(Last(st.open)))
  ELSE IF Depth(st) > Nesting \/ (Depth(st) = 0 /\ st.open[1] # <<>>)
       THEN [st EXCEPT !.ok = FALSE]                     \* too deep, words after the program
       ELSE IF w = <<"(">> THEN [st EXCEPT !.open = Append(@, <<>>)]
            ELSE Add(st, Atom(w))

Read(words) ==
  LET end == Fold(LAMBDA st, w : IF st.ok THEN ReadWord(st, w) ELSE st,
                      [ok |-> TRUE, open |-> <<<<>>>>], words)
  IN [ok |-> end.ok /\ Depth(end) = 0 /\ Len(end.open[1]) = 1, tree |-> end.open[1]]

---------------------------------------------------------------------------
(* expr(): the type of a node, or "ill".                                   *)

Number(word, max) ==
  LET digits == IF word # <<>> /\ Head(word) = "-" THEN Tail(word) ELSE word
      value  == Fold(LAMBDA n, d : 10 * n + DigitOrd[d], 0, digits)
  IN /\ digits # <<>> /\ \A i \in DOMAIN digits : digits[i] \in DOMAIN DigitOrd
     /\ Head(digits) # "0" \/ word = <<"0">>
     /\ value <= max

Op(n)   == IF ~IsAtom(n) /\ IsAtom(n.kids[1]) THEN n.kids[1].word[1] ELSE ""
Args(n) == Tail(n.kids)

Big == "bigint"
Signature ==
  [op \in {"add", "sub", "mul"} |-> [ins |-> <<Big, Big>>, out |-> Big]]
    @@ [op \in {"eq", "lt", "le"} |-> [ins |-> <<Big, Big>>, out |-> "bool"]]
    @@ [op \in {"true", "false"} |-> [ins |-> <<>>, out |-> "bool"]]
    @@ ("to_control" :> [ins |-> <<Big>>, out |-> "control"])
    @@ ("to_bigint" :> [ins |-> <<"control">>, out |-> Big])
    @@ ("increment" :> [ins |-> <<"control">>, out |-> "control"])
    @@ ("control.lt" :> [ins |-> <<"control", "control">>, out |-> "bool"])

RECURSIVE TypeOf(_, _)
TypeOf(n, env) ==
  LET op    == Op(n)
      args  == Args(n)
      word  == args[1].word
      named == Len(args) = 1 /\ IsAtom(args[1])
      types == [i \in DOMAIN args |-> TypeOf(args[i], env)]
  IN CASE n = Atom(<<"$index">>) -> Big
       [] IsAtom(n) \/ op = "" -> "ill"
       [] op = "param.get" -> IF named /\ word[1] \in Parameters THEN Big ELSE "ill"
       [] op = "int" -> IF named /\ Number(word, LiteralMax) THEN Big ELSE "ill"
       [] op = "control" -> IF named /\ word[1] # "-" /\ Number(word, ControlCap)
                            THEN "control" ELSE "ill"
       [] op = "get" -> IF named /\ word[1] \in env THEN Locals[word[1]] ELSE "ill"
       [] op = "select" -> IF Len(args) = 3 /\ types[1] = "bool" /\ types[2] = types[3]
                           THEN types[2] ELSE "ill"
       [] op \in DOMAIN Signature -> IF types = Signature[op].ins THEN Signature[op].out ELSE "ill"
       [] OTHER -> "ill"

---------------------------------------------------------------------------
RECURSIVE WellFormed(_, _, _)
WellFormed(n, env, counters) ==
  LET op   == Op(n)
      args == Args(n)
      name == args[1].word[1]
      Block(b, label) == Op(b) = label /\ \A i \in DOMAIN Args(b) : WellFormed(Args(b)[i], env, counters)
  IN \/ /\ op = "set" /\ Len(args) = 2
        /\ IsAtom(args[1]) /\ name \in env \ counters
        /\ TypeOf(args[2], env) = Locals[name]
     \/ /\ op = "loop" /\ Len(args) >= 3
        /\ IsAtom(args[1]) /\ name \in env \ counters /\ Locals[name] = "control"
        /\ TypeOf(args[2], env) = "control"
        /\ \A i \in 3 .. Len(args) : WellFormed(args[i], env, counters \cup {name})
     \/ /\ op = "if" /\ Len(args) = 3
        /\ TypeOf(args[1], env) = "bool"
        /\ Block(args[2], "then") /\ Block(args[3], "else")

Declares(n, env) ==
  /\ Len(n.kids) = 3 /\ IsAtom(n.kids[2]) /\ IsAtom(n.kids[3])
  /\ n.kids[2].word[1] \in DOMAIN Locals \ env
  /\ n.kids[3].word = <<Locals[n.kids[2].word[1]]>>

\* parse(source, allow_parameters=True) returns a program.
Parses(words) ==
  LET read  == Read(words)
      root  == read.tree[1]
      items == Args(root)
      n     == Cardinality({i \in DOMAIN items : \A j \in 1 .. i : Op(items[j]) = "local"})
      Env(i) == {items[j].kids[2].word[1] : j \in 1 .. i}
      last  == Last(items)
  IN /\ read.ok /\ Op(root) = "program"
     /\ \A i \in 1 .. n : Declares(items[i], Env(i - 1))
     /\ n < Len(items) /\ Op(last) = "return" /\ Len(Args(last)) = 1
     /\ TypeOf(Args(last)[1], Env(n)) = Big
     /\ \A i \in n + 1 .. Len(items) - 1 : WellFormed(items[i], Env(n), {})
=============================================================================
